----------------------------- MODULE EventLoop -----------------------------
(***************************************************************************)
(* The timer list and the event loop of pl_eventloop.cc, driven by the     *)
(* activations of pl_eval.cc.  The timer list, the slot for the timer      *)
(* being expired and the id counter are statics of the library: every      *)
(* JavaScript::V8::XS object of the process shares them.                   *)
(*                                                                         *)
(* Control is a stack of activations of pl_eval (a Perl sub called from    *)
(* JavaScript may call eval again, on the same object or on another one).  *)
(* Each activation runs its script, then eventloop_run, whose loop is cut  *)
(* where the clock is read, where user code runs and where poll() waits:   *)
(*                                                                         *)
(*   script --> loop --> round <--> callback                               *)
(*                ^        |                                               *)
(*                |        v                                               *)
(*              poll <-- wait --> (return of eventloop_run)                *)
(***************************************************************************)
EXTENDS Integers, SequencesExt

CONSTANTS
    Contexts,        \* the XS objects (each owns one V8 isolate)
    NoFunc,          \* an empty Persistent<Function>
    NaN,             \* the double that compares false with everything
    Undefined,       \* the delay of a call that gives none
    Delays,          \* other delays given to setTimeout/setInterval, in ticks
    Ms,              \* clock ticks per millisecond
    MAX_TIMERS,      \* slots of timer_list
    MAX_EXPIRIES,    \* timers expired per round, at most
    MAX_WAIT,        \* longest poll(), in clock ticks
    CallbackReenters,\* may a timer callback reach eval through a Perl sub?
    PerlMayDie,      \* may a Perl sub called from JavaScript die, or a conversion
                     \* croak because a getter threw?
    ClockStepsBack,  \* may gettimeofday() go backwards?
    MaxDepth,        \* bound: activations of pl_eval on the stack
    MaxId,           \* bound: timers created
    MaxClock         \* bound: where the wall clock stops

ASSUME ContextsAssumption == NoFunc \notin Contexts
ASSUME DelaysAssumption == NaN \notin Int /\ Delays \subseteq Int \cup {NaN}
ASSUME SizesAssumption ==
    /\ {Ms, MAX_TIMERS, MAX_EXPIRIES, MaxDepth} \subseteq Nat \ {0}
    /\ {MaxId, MaxClock} \subseteq Nat
    /\ MAX_WAIT \in Nat /\ MAX_WAIT >= Ms
ASSUME EnvironmentAssumption ==
    {CallbackReenters, PerlMayDie, ClockStepsBack} \subseteq BOOLEAN

VARIABLES
    timer_list,      \* the timers in use, lowest target last
    timer_expiring,  \* the timer whose callback runs, or Unused
    timer_next_id,
    clock,           \* gettimeofday(), in ticks
    frames,          \* activations of pl_eval, innermost last
    fault,           \* how the process was lost, if it was
    gone             \* history: ids cleared, and one-shots already run

vars == <<timer_list, timer_expiring, timer_next_id, clock, frames, fault, gone>>
timers == <<timer_list, timer_expiring, timer_next_id>>
----------------------------------------------------------------------------
(* Doubles: integers and NaN.  A comparison with NaN is false. *)

Double == Int \cup {NaN}
LE(a, b) == a # NaN /\ b # NaN /\ a <= b
GT(a, b) == a # NaN /\ b # NaN /\ a > b
Plus(a, b) == IF NaN \in {a, b} THEN NaN ELSE a + b

MinDelay == Ms
MinWait == Ms
Forever == -1        \* a negative timeout: poll() waits for ever

Timer == [id: Nat, target: Double, delay: Double, oneshot: BOOLEAN,
          removed: BOOLEAN, v8_func: Contexts \cup {NoFunc}]

\* What memset leaves in a slot.
Unused == [id |-> 0, target |-> 0, delay |-> 0, oneshot |-> FALSE,
           removed |-> FALSE, v8_func |-> NoFunc]

Ids(list) == {list[i].id : i \in DOMAIN list}

\* Mutant: the new timer is swapped with its neighbour only.
BubbleOneSwap(list, t, p) ==
    p = IF list # <<>> /\ ~ LE(t.target, Last(list).target)
        THEN Len(list) ELSE Len(list) + 1

\* bubble_last_timer: t, pushed at the end, overtakes every timer up to the
\* first whose target is not before its own; p is where it stops.
BubbleStop(list, t, p) ==
    /\ p > 1 => LE(t.target, list[p - 1].target)
    /\ \A j \in p .. Len(list) : ~ LE(t.target, list[j].target)

\* Mutant: the new timer is not bubbled.
PushOnly(t) == timer_list' = Append(timer_list, t)

PushAndBubble(t) ==
    \E p \in 1 .. Len(timer_list) + 1 :
        /\ BubbleStop(timer_list, t, p)
        /\ timer_list' = InsertAt(timer_list, p, t)
----------------------------------------------------------------------------
(* The activations. *)

Pcs == {"script", "loop", "round", "callback", "wait", "poll"}

\* again: eventloop_run is to be called once more (dispatch).
\* now, sanity: locals of expire_timers.  left: ticks poll() still waits.
\* unserved (history): ids listed when the round began and not yet run in it.
Frame == [ctx: Contexts, pc: Pcs, again: BOOLEAN, now: Nat,
          sanity: 0 .. MAX_EXPIRIES, left: Int, unserved: SUBSET Nat]

At(pc) == fault = "none" /\ frames # <<>> /\ Last(frames).pc = pc
Top == Last(frames)
Goto(f) == frames' = [frames EXCEPT ![Len(frames)] = f]
Enter(f) == frames' = Append(frames, f)
Leave == frames' = Front(frames)

\* The state of a new activation, and of one between two iterations of
\* eventloop_run, whose locals are dead.
Fresh(c, pc, again) == [ctx |-> c, pc |-> pc, again |-> again, now |-> 0,
                        sanity |-> 0, left |-> 0, unserved |-> {}]

InJavaScript == At("script") \/ At("callback")

\* Perl code can call a method: the main program, or a sub JavaScript called.
PerlRuns ==
    /\ fault = "none"
    /\ frames # <<>> => At("script") \/ (At("callback") /\ CallbackReenters)
    /\ Len(frames) < MaxDepth

Init ==
    /\ timer_list = <<>>
    /\ timer_expiring = Unused
    /\ timer_next_id = 1
    /\ clock = 0
    /\ frames = <<>>
    /\ fault = "none"
    /\ gone = {}
----------------------------------------------------------------------------
(* pl_eval: the script. *)

Eval(c) ==
    /\ PerlRuns
    /\ Enter(Fresh(c, "script", FALSE))
    /\ UNCHANGED <<timers, clock, fault, gone>>

\* The script ended normally: launch the event loop.
ScriptReturn ==
    /\ At("script")
    /\ Goto(Fresh(Top.ctx, "loop", FALSE))
    /\ UNCHANGED <<timers, clock, fault, gone>>

\* The script does not compile or throws: reported, and the loop is skipped.
ScriptThrow ==
    /\ At("script")
    /\ Leave
    /\ UNCHANGED <<timers, clock, fault, gone>>

\* perl_caller croaks when the Perl sub died, and a conversion when a getter
\* threw: longjmp over every C++ frame, up to the eval {} around the call that
\* entered this activation.
Die ==
    /\ PerlMayDie
    /\ InJavaScript
    /\ Leave
    /\ UNCHANGED <<timers, clock, fault, gone>>
----------------------------------------------------------------------------
(* create_timer and delete_timer, called by the functions of eventloop.js. *)

\* A delay below MIN_DELAY is raised to it; NaN is not below it.
Clamped(delay) == IF delay # NaN /\ delay < MinDelay THEN MinDelay ELSE delay

NewTimer(c, delay, oneshot) ==
    [id |-> timer_next_id, target |-> Plus(clock, Clamped(delay)),
     delay |-> Clamped(delay), oneshot |-> oneshot, removed |-> FALSE,
     v8_func |-> c]

\* Mutant: off by one in the test for a free slot.
AddTimerOffByOne(c, delay, oneshot) ==
    /\ Len(timer_list) <= MAX_TIMERS
    /\ timer_next_id <= MaxId
    /\ timer_next_id' = timer_next_id + 1
    /\ PushAndBubble(NewTimer(c, delay, oneshot))
    /\ UNCHANGED <<timer_expiring, clock, gone>>

AddTimer(c, delay, oneshot) ==
    /\ Len(timer_list) < MAX_TIMERS
    /\ timer_next_id <= MaxId
    /\ timer_next_id' = timer_next_id + 1
    /\ PushAndBubble(NewTimer(c, delay, oneshot))
    /\ UNCHANGED <<timer_expiring, clock, gone>>

CreateTimer(delay, oneshot) ==
    /\ InJavaScript
    /\ AddTimer(Top.ctx, delay, oneshot)
    /\ UNCHANGED <<frames, fault>>

\* No slot is left, for a script or for dispatch: abort().
CreateTimerAborts ==
    /\ InJavaScript \/ PerlRuns
    /\ Len(timer_list) >= MAX_TIMERS
    /\ fault' = "abort"
    /\ UNCHANGED <<timers, clock, frames, gone>>

\* Mutant: the timer being expired is matched but not marked.
DeleteExpiringUnmarked(id) ==
    /\ InJavaScript
    /\ timer_expiring.id = id
    /\ gone' = gone \cup ({id} \ {0})
    /\ UNCHANGED <<timers, clock, frames, fault>>

\* The timer being expired is matched first, and only marked.
DeleteExpiring(id) ==
    /\ InJavaScript
    /\ timer_expiring.id = id
    /\ timer_expiring' = [timer_expiring EXCEPT !.removed = TRUE]
    /\ gone' = gone \cup ({id} \ {0})
    /\ UNCHANGED <<timer_list, timer_next_id, clock, frames, fault>>

\* Mutant: the list is not shifted, only its last slot is zeroed.
DeleteListedNoShift(id) ==
    /\ InJavaScript
    /\ timer_expiring.id # id /\ id \in Ids(timer_list)
    /\ timer_list' = Front(timer_list)
    /\ gone' = gone \cup ({id} \ {0})
    /\ UNCHANGED <<timer_expiring, timer_next_id, clock, frames, fault>>

\* Mutant: the last slot is zeroed but still counted.
DeleteListedStillCounted(id) ==
    /\ InJavaScript
    /\ timer_expiring.id # id
    /\ \E i \in DOMAIN timer_list :
          /\ timer_list[i].id = id
          /\ timer_list' = Append(RemoveAt(timer_list, i), Unused)
    /\ gone' = gone \cup ({id} \ {0})
    /\ UNCHANGED <<timer_expiring, timer_next_id, clock, frames, fault>>

\* Otherwise the first match of the list goes, and the list closes up.  When
\* nothing matches nothing changes, which is a stuttering step.
DeleteListed(id) ==
    /\ InJavaScript
    /\ timer_expiring.id # id
    /\ \E i \in DOMAIN timer_list :
          /\ timer_list[i].id = id
          /\ \A j \in 1 .. i - 1 : timer_list[j].id # id
          /\ timer_list' = RemoveAt(timer_list, i)
    /\ gone' = gone \cup ({id} \ {0})
    /\ UNCHANGED <<timer_expiring, timer_next_id, clock, frames, fault>>

\* The functions of eventloop.js.  What they refuse with a TypeError (a delay
\* or an id that is not a number) is a script or callback that throws.
DelayGiven(delay) == IF delay = Undefined THEN 0 ELSE delay
SetTimeout(delay) == CreateTimer(DelayGiven(delay), TRUE)
SetInterval(delay) == CreateTimer(DelayGiven(delay), FALSE)

\* clearTimeout and clearInterval take the id of either kind.
ClearTimer(id) == DeleteExpiring(id) \/ DeleteListed(id)

\* pl_run_function_in_event_loop: its script only arms a zero timer; then
\* pl_eval runs the loop, and the function runs it again.
Dispatch(c) ==
    /\ PerlRuns
    /\ AddTimer(c, 0, TRUE)
    /\ Enter(Fresh(c, "loop", TRUE))
    /\ UNCHANGED fault

\* The generated script does not compile: only the second loop is run.
DispatchMalformed(c) ==
    /\ PerlRuns
    /\ Enter(Fresh(c, "loop", FALSE))
    /\ UNCHANGED <<timers, clock, fault, gone>>
----------------------------------------------------------------------------
(* expire_timers: one round, with one reading of the clock. *)

RoundStart ==
    /\ At("loop")
    /\ Goto([Top EXCEPT !.pc = "round", !.now = clock, !.sanity = MAX_EXPIRIES,
                        !.unserved = Ids(timer_list)])
    /\ UNCHANGED <<timers, clock, fault, gone>>

\* Mutant: a timer due at this very instant is left.
MayExpireLate ==
    /\ Top.sanity > 0
    /\ timer_list # <<>>
    /\ ~ GT(Last(timer_list).target, Top.now - 1)

\* Mutant: a timer due at the next instant is taken.
MayExpireEarly ==
    /\ Top.sanity > 0
    /\ timer_list # <<>>
    /\ ~ GT(Last(timer_list).target, Top.now + 1)

\* The loop condition and the two breaks.
MayExpire ==
    /\ Top.sanity > 0
    /\ timer_list # <<>>
    /\ ~ GT(Last(timer_list).target, Top.now)

\* Mutant: the alternative of the XXX comment, target + delay.
ExpiringCatchUp(t) ==
    IF t.oneshot THEN [t EXCEPT !.removed = TRUE]
    ELSE [t EXCEPT !.target = Plus(t.target, t.delay)]

\* A one-shot is marked removed, an interval gets its next target.
Expiring(t) ==
    IF t.oneshot THEN [t EXCEPT !.removed = TRUE]
    ELSE [t EXCEPT !.target = Plus(Top.now, t.delay)]

\* The last timer is moved to timer_expiring and its callback is called, in
\* the context whose eval runs the loop, whichever created the timer.
Expire ==
    /\ At("round") /\ MayExpire
    /\ LET t == Last(timer_list)
       IN  /\ timer_expiring' = Expiring(t)
           /\ gone' = IF t.oneshot THEN gone \cup {t.id} ELSE gone
           /\ Goto([Top EXCEPT !.pc = "callback", !.sanity = @ - 1,
                               !.unserved = @ \ {t.id}])
           /\ fault' = CASE t.v8_func = Top.ctx -> "none"
                         [] t.v8_func = NoFunc  -> "empty_callback"
                         [] OTHER               -> "foreign_callback"
    /\ timer_list' = Front(timer_list)
    /\ UNCHANGED <<timer_next_id, clock>>

\* Mutant: the timer is never queued back.
CallbackReturnDrops ==
    /\ At("callback")
    /\ Goto([Top EXCEPT !.pc = "round"])
    /\ UNCHANGED <<timers, clock, fault, gone>>

\* The callback returned or threw (the exception is reported, no more).
CallbackReturn ==
    /\ At("callback")
    /\ timer_expiring.removed
    /\ Goto([Top EXCEPT !.pc = "round"])
    /\ UNCHANGED <<timers, clock, fault, gone>>

\* Mutant: the timer is queued back whether it is removed or not.
RequeueAlways ==
    /\ At("callback")
    /\ Len(timer_list) < MAX_TIMERS
    /\ PushAndBubble(timer_expiring)
    /\ Goto([Top EXCEPT !.pc = "round"])
    /\ UNCHANGED <<timer_expiring, timer_next_id, clock, fault, gone>>

\* As above, for a timer that is not removed: queue it back.
Requeue ==
    /\ At("callback")
    /\ ~ timer_expiring.removed
    /\ Len(timer_list) < MAX_TIMERS
    /\ PushAndBubble(timer_expiring)
    /\ Goto([Top EXCEPT !.pc = "round"])
    /\ UNCHANGED <<timer_expiring, timer_next_id, clock, fault, gone>>

\* The list is full: reported, and written past its end all the same.
RequeueOverrun ==
    /\ At("callback")
    /\ ~ timer_expiring.removed
    /\ Len(timer_list) >= MAX_TIMERS
    /\ fault' = "overrun"
    /\ UNCHANGED <<timers, clock, frames, gone>>

RoundEnd ==
    /\ At("round") /\ ~ MayExpire
    /\ timer_expiring' = Unused
    /\ Goto(Fresh(Top.ctx, "wait", Top.again))
    /\ UNCHANGED <<timer_list, timer_next_id, clock, fault, gone>>
----------------------------------------------------------------------------
(* The rest of the loop of eventloop_run. *)

\* Mutant: no minimum wait.
TimeoutsNoMinimum(target) ==
    LET diff == target - clock
    IN  {((IF diff > MAX_WAIT THEN MAX_WAIT ELSE diff) \div Ms) * Ms}

\* Mutant: the difference is taken the wrong way round and not clamped.
TimeoutsSwapped(target) ==
    {IF target > clock THEN Forever ELSE clock - target}

\* Milliseconds are truncated to int.  (int) NaN is undefined: the builds
\* give 0, or the most negative int, with which poll() waits for ever.
Timeouts(target) ==
    IF target = NaN THEN {0, Forever}
    ELSE LET diff == target - clock
             wait == IF diff < MinWait THEN MinWait
                     ELSE IF diff > MAX_WAIT THEN MAX_WAIT ELSE diff
         IN  {(wait \div Ms) * Ms}

Poll ==
    /\ At("wait")
    /\ timer_list # <<>>
    /\ \E left \in Timeouts(Last(timer_list).target) :
          Goto([Top EXCEPT !.pc = "poll", !.left = left])
    /\ UNCHANGED <<timers, clock, fault, gone>>

\* poll() timed out.
PollReturn ==
    /\ At("poll") /\ Top.left = 0
    /\ Goto(Fresh(Top.ctx, "loop", Top.again))
    /\ UNCHANGED <<timers, clock, fault, gone>>

\* poll() was interrupted by a signal; its result is not looked at.
PollInterrupted ==
    /\ At("poll") /\ Top.left # 0
    /\ Goto(Fresh(Top.ctx, "loop", Top.again))
    /\ UNCHANGED <<timers, clock, fault, gone>>

\* No timer is left: eventloop_run returns, and with it eval or dispatch.
LoopExit ==
    /\ At("wait")
    /\ timer_list = <<>>
    /\ IF Top.again THEN Goto(Fresh(Top.ctx, "loop", FALSE)) ELSE Leave
    /\ UNCHANGED <<timers, clock, fault, gone>>
----------------------------------------------------------------------------
(* Time.  poll() counts its own time, which the bound does not stop. *)

Tick ==
    /\ fault = "none"
    /\ clock' = IF clock < MaxClock THEN clock + 1 ELSE clock
    /\ frames' = IF At("poll") /\ Top.left > 0
                 THEN [frames EXCEPT ![Len(frames)].left = @ - 1] ELSE frames
    /\ UNCHANGED <<timers, fault, gone>>

StepBack ==
    /\ ClockStepsBack
    /\ fault = "none"
    /\ clock' \in 0 .. clock - 1
    /\ UNCHANGED <<timers, frames, fault, gone>>

\* The process is lost: nothing more happens.
Lost == fault # "none" /\ UNCHANGED vars

Next ==
    \/ \E c \in Contexts : Eval(c) \/ Dispatch(c) \/ DispatchMalformed(c)
    \/ ScriptReturn \/ ScriptThrow \/ Die
    \/ \E delay \in Delays \cup {Undefined} : SetTimeout(delay) \/ SetInterval(delay)
    \/ CreateTimerAborts
    \/ \E id \in 0 .. MaxId : ClearTimer(id)
    \/ RoundStart \/ Expire \/ CallbackReturn \/ Requeue \/ RequeueOverrun
    \/ RoundEnd \/ Poll \/ PollReturn \/ PollInterrupted \/ LoopExit
    \/ Tick \/ StepBack \/ Lost

Spec == Init /\ [][Next]_vars

\* Scripts and callbacks terminate, and the thread that runs the loop is
\* scheduled; nothing obliges Perl to call eval, or signals to arrive.
Fairness ==
    /\ WF_vars(ScriptReturn \/ ScriptThrow)
    /\ WF_vars(CallbackReturn \/ Requeue)
    /\ WF_vars(RoundStart) /\ WF_vars(Expire) /\ WF_vars(RoundEnd)
    /\ WF_vars(Poll) /\ WF_vars(PollReturn) /\ WF_vars(LoopExit)
    /\ WF_vars(Tick)

FairSpec == Spec /\ Fairness
----------------------------------------------------------------------------
(* Properties. *)

CallbackRuns == frames # <<>> /\ Top.pc = "callback"

\* Every variable has its type.
TypeOK ==
    /\ timer_list \in Seq(Timer)
    /\ Len(timer_list) <= MAX_TIMERS
    /\ timer_expiring \in Timer
    /\ timer_next_id \in Nat \ {0}
    /\ clock \in Nat
    /\ frames \in Seq(Frame)
    /\ fault \in {"none", "abort", "overrun", "empty_callback", "foreign_callback"}
    /\ gone \subseteq Nat

\* The list stays sorted with the earliest expiry last, whatever callbacks
\* add, remove or queue back (the comment above timer_list).
Sorted ==
    \A i, j \in DOMAIN timer_list :
        i < j => LE(timer_list[j].target, timer_list[i].target)

\* A timer that was cleared, and a one-shot that ran, never comes back: not
\* when its own callback clears it, nor when another callback of the same
\* round does.  No id is listed twice, or listed while its callback runs.
NoZombie ==
    /\ Ids(timer_list) \cap gone = {}
    /\ \A i, j \in DOMAIN timer_list :
          timer_list[i].id = timer_list[j].id => i = j
    /\ CallbackRuns =>
          /\ timer_expiring.id \notin Ids(timer_list)
          /\ timer_expiring.removed <=> timer_expiring.id \in gone

\* A timer that was armed stays armed until it is cleared or, for a one-shot,
\* run; an interval whose callback runs is only out of the list meanwhile.
NoLostTimer ==
    \A id \in 1 .. timer_next_id - 1 :
        \/ id \in gone
        \/ id \in Ids(timer_list)
        \/ CallbackRuns /\ id = timer_expiring.id

\* The loop never calls the function of a zeroed slot.
NoEmptyCallback == fault # "empty_callback"

\* A round runs each timer at most once, and only timers armed before the
\* round began: a callback that re-arms itself cannot keep the round going.
OncePerRound == [][Expire => Last(timer_list).id \in Top.unserved]_vars

\* A round that stops before its sanity limit leaves no timer that was due
\* when it began, wherever callbacks inserted theirs.
RoundComplete ==
    [][RoundEnd /\ Top.sanity > 0 =>
          \A i \in DOMAIN timer_list : GT(timer_list[i].target, Top.now)]_vars

\* poll() waits a whole millisecond at least (the loop does not spin), and
\* past the target of no timer by more than that minimum.
NoOversleep ==
    [][Poll => LET left == Last(frames').left
               IN  /\ left >= MinWait
                   /\ \A i \in DOMAIN timer_list :
                         \/ left <= MinWait
                         \/ clock + left <= timer_list[i].target]_vars

\* While eval is in its loop, a timer that is due within the bound on time is
\* eventually run or cleared, unless the process is lost: later timers, equal
\* targets, intervals and the sanity limit never starve it.
NoStarvation ==
    \A id \in 1 .. MaxId :
        LET due == \E i \in DOMAIN timer_list :
                       /\ timer_list[i].id = id
                       /\ timer_list[i].target <= MaxClock
        IN  (due /\ frames # <<>> /\ Top.pc # "script") ~> (~ due \/ fault # "none")

\* eval returns once the timers have been dispatched: its loop ends, unless an
\* interval, or a timer beyond the bound on time, is still armed or running.
EvalReturns ==
    LET endless == \/ \E i \in DOMAIN timer_list :
                         \/ ~ timer_list[i].oneshot
                         \/ timer_list[i].target > MaxClock
                   \/ CallbackRuns /\ ~ timer_expiring.removed
                   \/ fault # "none"
    IN  frames # <<>> ~> (frames = <<>> \/ endless)

\* The comment at the conversion to int: clamping ensures that it fits.
ClampingFits ==
    frames # <<>> /\ Top.pc = "poll" => Top.left \in 0 .. MAX_WAIT
=============================================================================
