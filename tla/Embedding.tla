----------------------------- MODULE Embedding -----------------------------
(***************************************************************************)
(* The life of the XS objects of V8Context.cc around the event loop: new,  *)
(* reset and DESTROY create and dispose isolates, while the timer list,    *)
(* which is static, outlives them all.  set_up evaluates two inlined       *)
(* scripts, so creating or resetting an object runs the event loop twice;  *)
(* get, set and their like run getters and setters, but never the loop.    *)
(***************************************************************************)
EXTENDS EventLoop

CONSTANTS
    MaxIsolates,   \* bound: isolates created
    MaxEntered     \* bound: entries of one isolate, which longjmp lets grow

VARIABLES
    isolate,     \* each object's isolate, 0 when it has none (inited = 0)
    isolates,    \* how many were created
    setup,       \* how far each object is: "new" and "reset" while set_up runs,
                 \* "half" when a croak left it before the console was there
    entered,     \* how often the isolate of each object is entered
    loopless,    \* the activations, by their place on the stack, of methods
                 \* that run JavaScript but no event loop
    born,        \* history: the isolate that was current when id was armed
    abandoned    \* history: ids that were armed when the last activation of
                 \* their object ended, with no loop run to its end

embedding == <<isolate, isolates, setup, entered, loopless, born, abandoned>>
embeddedVars == <<vars, embedding>>

ASSUME EmbeddingAssumption == {MaxIsolates, MaxEntered} \subseteq Nat \ {0}

EmbeddingInit ==
    /\ Init
    /\ isolate = [c \in Contexts |-> 0]
    /\ isolates = 0
    /\ setup = [c \in Contexts |-> "none"]
    /\ entered = [c \in Contexts |-> 0]
    /\ loopless = {}
    /\ born = <<>>
    /\ abandoned = {}

Lives(c) == isolate[c] # 0

\* Perl has the object: its constructor has returned.
Held(c) == Lives(c) /\ setup[c] # "new"

\* The activation on top is the set_up of its object.
SetsUp ==
    /\ setup[Top.ctx] \in {"new", "reset"}
    /\ \A i \in 1 .. Len(frames) - 1 : frames[i].ctx # Top.ctx

\* A timer armed in this step belongs to the isolate of c.
Register(c) ==
    born' = IF timer_next_id' = timer_next_id THEN born ELSE Append(born, isolate[c])
----------------------------------------------------------------------------
(* The methods that run JavaScript, and what happens while they run. *)

EnterScope(c) ==
    /\ entered[c] < MaxEntered
    /\ entered' = [entered EXCEPT ![c] = @ + 1]

\* ENTER_SCOPE, then eval or dispatch, which run the event loop.
Call(c) ==
    /\ Held(c) /\ EnterScope(c)
    /\ Eval(c) \/ Dispatch(c) \/ DispatchMalformed(c)
    /\ Register(c)
    /\ UNCHANGED <<isolate, isolates, setup, loopless, abandoned>>

\* ENTER_SCOPE, then get, exists, typeof, instanceof, set or remove: a getter,
\* a setter, Symbol.hasInstance or the FETCH of a tied value runs, with all that
\* a script can do, but outside pl_eval.  When none does, and in global_objects
\* and run_gc, nothing happens between entering and leaving.
Access(c) ==
    /\ Held(c) /\ EnterScope(c)
    /\ PerlRuns
    /\ Enter(Fresh(c, "script", FALSE))
    /\ loopless' = loopless \cup {Len(frames) + 1}
    /\ UNCHANGED <<timers, clock, fault, gone, isolate, isolates, setup, born, abandoned>>

\* The activation on top is that of such a method.
Accesses == Len(frames) \in loopless

\* Mutant: the scope is left with each loop of dispatch.
ExitScopeAlways == entered' = [entered EXCEPT ![Top.ctx] = @ - 1]

\* The scope is left with the method.
ExitScope ==
    entered' = IF Len(frames') < Len(frames)
               THEN [entered EXCEPT ![Top.ctx] = @ - 1] ELSE entered

Registered ==
    setup' = IF Len(frames') < Len(frames) /\ SetsUp
             THEN [setup EXCEPT ![Top.ctx] = "done"] ELSE setup

\* Mutant: the loop is left while a timer is still to come.
FinishEarly ==
    /\ At("wait") /\ Leave
    /\ UNCHANGED <<timers, clock, fault, gone>>
    /\ ExitScope /\ Registered
    /\ UNCHANGED <<isolate, isolates, loopless, born, abandoned>>

\* set_up registers the console functions last.
Finish ==
    /\ LoopExit
    /\ ExitScope /\ Registered
    /\ UNCHANGED <<isolate, isolates, loopless, born, abandoned>>

\* The activation on top ends without a loop run to its end: the timers of the
\* objects that have no other activation stay armed, and nobody waits for them.
Abandon ==
    /\ loopless' = loopless \ {Len(frames)}
    /\ LET left == {i \in DOMAIN timer_list :
                       \A j \in DOMAIN frames' : frames'[j].ctx # timer_list[i].v8_func}
       IN  abandoned' = abandoned \cup {timer_list[i].id : i \in left}

\* The script threw, and the loop is skipped.
Throw ==
    /\ ~ Accesses /\ ScriptThrow
    /\ ExitScope /\ Abandon
    /\ UNCHANGED <<isolate, isolates, setup, born>>

\* get and its like return, as they never run the loop.
AccessReturn ==
    /\ Accesses /\ At("script") /\ Leave
    /\ ExitScope /\ Abandon
    /\ UNCHANGED <<timers, clock, fault, gone, isolate, isolates, setup, born>>

\* What runs in Symbol.hasInstance, or in a proxy, throws: ToChecked aborts.
AccessAborts ==
    /\ Accesses /\ At("script")
    /\ fault' = "abort"
    /\ UNCHANGED <<timers, clock, frames, gone, embedding>>

\* longjmp runs no destructor: the isolate stays entered.
Jump ==
    /\ Die /\ ~ SetsUp
    /\ Abandon
    /\ UNCHANGED <<isolate, isolates, setup, entered, born>>

\* A callback of a timer that was left over died inside new: Perl gets no
\* object, and the isolate is lost.
JumpOutOfNew ==
    /\ Die /\ SetsUp /\ setup[Top.ctx] = "new"
    /\ isolate' = [isolate EXCEPT ![Top.ctx] = 0]
    /\ entered' = [entered EXCEPT ![Top.ctx] = 0]
    /\ setup' = [setup EXCEPT ![Top.ctx] = "none"]
    /\ Abandon
    /\ UNCHANGED <<isolates, born>>

\* It died inside reset: inited is set, so no later call completes set_up.
JumpOutOfReset ==
    /\ Die /\ SetsUp /\ setup[Top.ctx] = "reset"
    /\ setup' = [setup EXCEPT ![Top.ctx] = "half"]
    /\ Abandon
    /\ UNCHANGED <<isolate, isolates, entered, born>>

Script ==
    /\ \E delay \in Delays \cup {Undefined} : SetTimeout(delay) \/ SetInterval(delay)
    /\ Register(Top.ctx)
    /\ UNCHANGED <<isolate, isolates, setup, entered, loopless, abandoned>>

Run ==
    /\ \/ \E id \in 0 .. MaxId : ClearTimer(id)
       \/ ~ Accesses /\ ScriptReturn
       \/ CreateTimerAborts
       \/ RoundStart \/ Expire \/ CallbackReturn \/ Requeue \/ RequeueOverrun
       \/ RoundEnd \/ Poll \/ PollReturn \/ PollInterrupted
       \/ Tick \/ StepBack \/ Lost
    /\ UNCHANGED embedding
----------------------------------------------------------------------------
(* new, reset and DESTROY. *)

\* A new isolate is entered, and two inlined scripts that arm no timer are
\* evaluated, each with its event loop.
SetUp(c) ==
    /\ isolates < MaxIsolates
    /\ isolates' = isolates + 1
    /\ isolate' = [isolate EXCEPT ![c] = isolates + 1]
    /\ entered' = [entered EXCEPT ![c] = 1]
    /\ Enter(Fresh(c, "loop", TRUE))
    /\ UNCHANGED <<timers, clock, fault, gone, loopless, born, abandoned>>

New(c) ==
    /\ PerlRuns /\ ~ Lives(c) /\ SetUp(c)
    /\ setup' = [setup EXCEPT ![c] = "new"]

\* Mutant: the isolate is disposed whether it is entered or not.
ResetInUse(c) ==
    /\ PerlRuns /\ Held(c) /\ SetUp(c)
    /\ setup' = [setup EXCEPT ![c] = "reset"]

\* tear_down disposes the isolate and leaves the timer list alone.
Reset(c) ==
    /\ PerlRuns /\ Held(c) /\ entered[c] = 0 /\ SetUp(c)
    /\ setup' = [setup EXCEPT ![c] = "reset"]

Destroy(c) ==
    /\ PerlRuns /\ Held(c) /\ entered[c] = 0
    /\ isolate' = [isolate EXCEPT ![c] = 0]
    /\ setup' = [setup EXCEPT ![c] = "none"]
    /\ UNCHANGED <<vars, isolates, entered, loopless, born, abandoned>>

\* V8 aborts when the isolate to be disposed is entered.
DisposeInUse(c) ==
    /\ PerlRuns /\ Held(c) /\ entered[c] > 0
    /\ fault' = "abort"
    /\ UNCHANGED <<timers, clock, frames, gone, embedding>>

EmbeddingNext ==
    \/ \E c \in Contexts :
          Call(c) \/ Access(c) \/ New(c) \/ Reset(c) \/ Destroy(c) \/ DisposeInUse(c)
    \/ Finish \/ Throw \/ AccessReturn \/ AccessAborts
    \/ Jump \/ JumpOutOfNew \/ JumpOutOfReset \/ Script \/ Run

EmbeddingSpec == EmbeddingInit /\ [][EmbeddingNext]_embeddedVars
----------------------------------------------------------------------------
(* Properties. *)

\* The variables of this module have their types.
EmbeddingTypeOK ==
    /\ isolates \in 0 .. MaxIsolates
    /\ isolate \in [Contexts -> 0 .. isolates]
    /\ setup \in [Contexts -> {"none", "new", "reset", "done", "half"}]
    /\ entered \in [Contexts -> 0 .. MaxEntered]
    /\ loopless \subseteq {i \in DOMAIN frames : frames[i].pc = "script"}
    /\ born \in Seq(1 .. isolates)
    /\ abandoned \subseteq 1 .. Len(born)

\* The isolate an activation runs in is never disposed under it, whichever
\* Perl sub the activation calls, and whichever object that sub resets.
NotUnderfoot ==
    fault = "none" =>
        \A i \in DOMAIN frames :
            LET c == frames[i].ctx
            IN  Lives(c) /\ entered[c] >= Cardinality({j \in DOMAIN frames : frames[j].ctx = c})

\* set_up evaluates its scripts before the console is there, and evaluating
\* runs the loop; but a callback gets to run in an object under construction
\* only if a timer was abandoned before, be it by a script that threw or by a
\* getter in get, or if Perl creates or resets the object from JavaScript; and
\* a dying one leaves an object half set up for good only if one was abandoned.
QuietSetUp ==
    /\ CallbackRuns /\ setup[Top.ctx] \in {"new", "reset"} =>
          Len(frames) > 1 \/ abandoned # {}
    /\ (\E c \in Contexts : setup[c] = "half") => abandoned # {}

Stale == CallbackRuns /\ timer_expiring.v8_func = Top.ctx
         /\ born[timer_expiring.id] # isolate[Top.ctx]

\* A callback whose isolate was disposed only runs if its timer was abandoned:
\* the script of eval threw, a Perl sub died, or a getter or a setter armed it
\* in a method that runs no event loop.
StaleOnlyIfAbandoned == Stale => timer_expiring.id \in abandoned

\* A callback only runs in the isolate of another object if its timer was
\* abandoned in the same way, or if its own object has an activation further
\* down the stack, from which Perl evaluates in the other one.
ForeignOnlyIfNested ==
    fault = "foreign_callback" =>
        \/ timer_expiring.id \in abandoned
        \/ \E i \in DOMAIN frames : frames[i].ctx = timer_expiring.v8_func

\* reset brings the VM back to pristine conditions (Changes, 0.000004): no
\* callback of the VM it disposed runs in the new one.
NoStaleCallback == ~ Stale
=============================================================================
