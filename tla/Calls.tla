------------------------------- MODULE Calls -------------------------------
(***************************************************************************)
(* Calls between the two languages: Perl calls a method of the object,     *)
(* JavaScript runs in it and calls a Perl sub (perl_caller, pl_v8.cc),     *)
(* whose body may call methods again.  What they share is the Perl stack,  *)
(* the stack of temporaries, and the object's records.  A croak leaves     *)
(* every C++ function above the nearest Perl code by longjmp.              *)
(***************************************************************************)
EXTENDS Records

CONSTANTS
    Methods,     \* the names of the methods that convert what JavaScript has
    MaxArgs,     \* bound: arguments of a sub
    MaxDepth,    \* bound: nested activations
    MaxMade      \* bound: activations and reports

VARIABLES
    frames,       \* the C stack
    made,         \* how many activations and reports were started: the clock
    plstack,      \* the cells of the Perl stack
    PL_stack_sp,  \* how many are in use, as everybody but perl_caller sees it
    temps,        \* the temporaries alive, oldest first
    tmps_floor    \* FREETMPS frees those above it

perlVars == <<plstack, PL_stack_sp, temps, tmps_floor>>
callVars == <<recordVars, frames, made, perlVars>>

ASSUME CallsAssumption == {MaxArgs, MaxDepth, MaxMade} \subseteq Nat

Kinds == {"method", "eval", "pl_eval", "sub", "console"}
Phases == {"converting", "script", "result", "loop", "arguments", "body"}

\* An activation.  id is also the time of its start and t0 the one in its Perf;
\* mark, sp and floor are what perl_caller has in locals or on Perl's own
\* stacks, got is @_, want the number of arguments and risen how many of them
\* were pushed when a sub was called last.
Frame(kind, name, phase) ==
    [id |-> made + 1, kind |-> kind, name |-> name, phase |-> phase, t0 |-> made + 1,
     mark |-> PL_stack_sp, sp |-> PL_stack_sp, floor |-> tmps_floor, base |-> Len(temps),
     want |-> 0, got |-> <<>>, risen |-> 0]

\* A scalar: argument j of the sub or method call id, or what it returned (0).
Scalar(id, j) == [call |-> id, j |-> j]
Nothing == Scalar(0, 0)
Cells == 1 .. (MaxDepth + 1) * (MaxArgs + 1)

CallsInit ==
    /\ RecordsInit
    /\ frames = <<>>
    /\ made = 0
    /\ plstack = [cell \in Cells |-> Nothing]
    /\ PL_stack_sp = 0
    /\ temps = <<>>
    /\ tmps_floor = 0

Top == Last(frames)
At(phase) == frames # <<>> /\ Top.phase = phase
PerlRuns == frames = <<>> \/ At("body")
Pushed == Top.sp - Top.mark
Converts == At("converting") \/ At("result") \/ (At("arguments") /\ Pushed < Top.want)
JSRuns == At("script") \/ At("loop") \/ Converts

Room == made < MaxMade /\ Len(frames) < MaxDepth
Push(frame) == frames' = Append(frames, frame) /\ made' = made + 1
Pop == frames' = Front(frames)
InTop(frame) == frames' = [frames EXCEPT ![Len(frames)] = frame]
Goto(phase) == InTop([Top EXCEPT !.phase = phase])

Elapsed(frame) == made - frame.t0
TrueTime(frame) == made - frame.id
----------------------------------------------------------------------------
(* Perl calls a method: V8Context.cc, and pl_eval.cc for eval. *)

\* The arguments of the call are on the stack while it runs.
CallMethod(frame) ==
    /\ PerlRuns /\ Room
    /\ Push(frame)
    /\ plstack' = [plstack EXCEPT ![PL_stack_sp + 1] = Scalar(frame.id, 0)]
    /\ PL_stack_sp' = PL_stack_sp + 1
    /\ UNCHANGED <<temps, tmps_floor>>

\* The statement the call is in leaves the stack as it was before.
LeaveMethod ==
    /\ Pop
    /\ PL_stack_sp' = Top.mark
    /\ UNCHANGED <<made, plstack, temps, tmps_floor>>

Method(name) ==
    /\ CallMethod(Frame("method", name, "converting"))
    /\ UNCHANGED recordVars

MethodEnd ==
    /\ At("converting") \/ At("loop")
    /\ Top.kind = "method"
    /\ StatsStop(Top.name, Elapsed(Top), TrueTime(Top))
    /\ LeaveMethod
    /\ UNCHANGED <<options, flags, msgs, printed, said>>

\* ReportException, for an activation or for a callback of its loop.
Report(id) == OutputLine("stderr", id)

\* dispatch_function_in_event_loop has pl_eval arm a timer, and then runs the
\* loop once more.
Dispatch ==
    /\ PerlRuns /\ made + 1 < MaxMade /\ Len(frames) + 1 < MaxDepth
    /\ LET method == Frame("method", "dispatch", "loop")
           inner == [Frame("pl_eval", "run", "script") EXCEPT
                        !.id = made + 2, !.t0 = made + 2,
                        !.mark = PL_stack_sp + 1, !.sp = PL_stack_sp + 1]
       IN  /\ frames' = frames \o <<method, inner>>
           /\ plstack' = [plstack EXCEPT ![PL_stack_sp + 1] = Scalar(method.id, 0)]
    /\ made' = made + 2
    /\ PL_stack_sp' = PL_stack_sp + 1
    /\ StatsStop("compile", 0, 0)
    /\ UNCHANGED <<options, flags, msgs, printed, said, temps, tmps_floor>>

\* The text passed to dispatch makes no call: nothing is armed.
DispatchSyntaxError ==
    /\ CallMethod(Frame("method", "dispatch", "loop"))
    /\ StatsStop("compile", 0, 0)
    /\ Report(made + 1)
    /\ UNCHANGED <<options, flags>>

\* Compiling runs no JavaScript, so that no time passes.
Eval ==
    /\ CallMethod(Frame("eval", "run", "script"))
    /\ StatsStop("compile", 0, 0)
    /\ UNCHANGED <<options, flags, msgs, printed, said>>

\* The source does not compile: no script runs.
EvalSyntaxError ==
    /\ PerlRuns /\ made < MaxMade
    /\ made' = made + 1
    /\ StatsStop("compile", 0, 0)
    /\ Report(made + 1)
    /\ UNCHANGED <<options, flags, frames, perlVars>>

\* The script ran, its result is converted.
EvalRan ==
    /\ At("script")
    /\ StatsStop("run", Elapsed(Top), TrueTime(Top))
    /\ Goto("result")
    /\ UNCHANGED <<options, flags, msgs, printed, said, made, perlVars>>

\* The script threw: the loop is skipped.
ScriptThrows ==
    /\ At("script")
    /\ StatsStop("run", Elapsed(Top), TrueTime(Top))
    /\ Report(Top.id)
    /\ LeaveMethod
    /\ UNCHANGED <<options, flags>>

EventLoop ==
    /\ At("result")
    /\ Goto("loop")
    /\ UNCHANGED <<recordVars, made, perlVars>>

\* pl_run_function reports what a callback throws, and the loop goes on.
CallbackThrows ==
    /\ At("loop") /\ made < MaxMade
    /\ made' = made + 1
    /\ Report(made + 1)
    /\ UNCHANGED <<options, flags, stats, timed, frames, perlVars>>

EvalEnd ==
    /\ At("loop") /\ Top.kind # "method"
    /\ LeaveMethod
    /\ UNCHANGED recordVars
----------------------------------------------------------------------------
(* JavaScript calls a Perl sub: perl_caller, pl_v8.cc. *)

\* The subs whose arguments are under way note how many they have pushed.
Noted ==
    [i \in DOMAIN frames |->
        IF frames[i].phase = "arguments"
        THEN [frames[i] EXCEPT !.risen = frames[i].sp - frames[i].mark] ELSE frames[i]]

\* Mutant: no SAVETMPS.
SubUnsaved(nargs) ==
    /\ JSRuns /\ Room
    /\ frames' = Append(Noted, [Frame("sub", "", "arguments") EXCEPT !.want = nargs])
    /\ made' = made + 1
    /\ UNCHANGED <<recordVars, plstack, PL_stack_sp, temps, tmps_floor>>

\* dSP, ENTER, SAVETMPS, PUSHMARK.
Sub(nargs) ==
    /\ JSRuns /\ Room
    /\ frames' = Append(Noted, [Frame("sub", "", "arguments") EXCEPT !.want = nargs])
    /\ made' = made + 1
    /\ tmps_floor' = Len(temps)
    /\ UNCHANGED <<recordVars, plstack, PL_stack_sp, temps>>

\* mXPUSHs, by way of the local copy of the stack pointer, makes a temporary of
\* the value.  Whose count the temporary gives up when it is freed, that of an SV
\* made for the call or of one that a function keeps, is in SubArguments.
PushArgument ==
    /\ At("arguments") /\ Pushed < Top.want
    /\ LET scalar == Scalar(Top.id, Pushed + 1)
       IN  /\ plstack' = [plstack EXCEPT ![Top.sp + 1] = scalar]
           /\ temps' = Append(temps, scalar)
    /\ InTop([Top EXCEPT !.sp = @ + 1])
    /\ UNCHANGED <<recordVars, made, PL_stack_sp, tmps_floor>>

\* Mutant: the mark is put after the first argument.
CallSubLateMark ==
    /\ At("arguments") /\ Pushed = Top.want
    /\ InTop([Top EXCEPT !.phase = "body", !.got = SubSeq(plstack, Top.mark + 2, Top.sp)])
    /\ PL_stack_sp' = Top.mark
    /\ UNCHANGED <<recordVars, made, plstack, temps, tmps_floor>>

\* PUTBACK and call_sv: the sub takes what is above the mark into @_.
CallSub ==
    /\ At("arguments") /\ Pushed = Top.want
    /\ InTop([Top EXCEPT !.phase = "body", !.got = SubSeq(plstack, Top.mark + 1, Top.sp)])
    /\ PL_stack_sp' = Top.mark
    /\ UNCHANGED <<recordVars, made, plstack, temps, tmps_floor>>

\* Mutant: PUTBACK comes before POPs.
SubReturnsUnpopped ==
    /\ At("body")
    /\ plstack' = [plstack EXCEPT ![Top.mark + 1] = Scalar(Top.id, 0)]
    /\ PL_stack_sp' = Top.mark + 1
    /\ temps' = SubSeq(temps, 1, tmps_floor)
    /\ tmps_floor' = Top.floor
    /\ Pop
    /\ UNCHANGED <<recordVars, made>>

\* SPAGAIN, POPs of the value the sub left on the stack, PUTBACK, FREETMPS,
\* LEAVE.
SubReturns ==
    /\ At("body")
    /\ plstack' = [plstack EXCEPT ![Top.mark + 1] = Scalar(Top.id, 0)]
    /\ PL_stack_sp' = Top.mark
    /\ temps' = SubSeq(temps, 1, tmps_floor)
    /\ tmps_floor' = Top.floor
    /\ Pop
    /\ UNCHANGED <<recordVars, made>>
----------------------------------------------------------------------------
(* A croak: longjmp to the Perl code below, an eval {} of the program or the *)
(* body of a sub, which restores what it had on Perl's stacks.  No record is *)
(* made of what is left.                                                     *)

Bodies == {i \in 1 .. Len(frames) - 1 : frames[i].phase = "body"}

\* Mutant: the floor of the temporaries stays where it was.
CroakKeepsFloor ==
    /\ frames' = SubSeq(frames, 1, IF Bodies = {} THEN 0 ELSE Max(Bodies))
    /\ IF Bodies = {}
       THEN PL_stack_sp' = 0 /\ temps' = <<>>
       ELSE LET body == frames[Max(Bodies)]
            IN  /\ PL_stack_sp' = body.mark
                /\ temps' = SubSeq(temps, 1, body.base + body.want)
    /\ UNCHANGED <<recordVars, made, plstack, tmps_floor>>

Croak ==
    /\ frames' = SubSeq(frames, 1, IF Bodies = {} THEN 0 ELSE Max(Bodies))
    /\ IF Bodies = {}
       THEN PL_stack_sp' = 0 /\ temps' = <<>> /\ tmps_floor' = 0
       ELSE LET body == frames[Max(Bodies)]
            IN  /\ PL_stack_sp' = body.mark
                /\ temps' = SubSeq(temps, 1, body.base + body.want)
                /\ tmps_floor' = body.base
    /\ UNCHANGED <<recordVars, made, plstack>>

\* The sub died; call_sv returns with $@ set and perl_caller croaks.
SubDies == At("body") /\ Croak

\* A getter threw, or a value has no counterpart in Perl.
ConversionFails ==
    /\ Converts /\ Top.kind # "console"
    /\ Croak
----------------------------------------------------------------------------
(* console_output, pl_console.cc: an argument may be an object, whose        *)
(* conversion to text runs JavaScript.                                       *)

Console(target) ==
    /\ JSRuns /\ Room
    /\ Push(Frame("console", target, "converting"))
    /\ UNCHANGED <<recordVars, perlVars>>

\* An argument whose conversion throws is left out of the line.
ConsoleEnd ==
    /\ At("converting") /\ Top.kind = "console"
    /\ OutputLine(Top.name, Top.id)
    /\ Pop
    /\ UNCHANGED <<options, flags, stats, timed, made, perlVars>>
----------------------------------------------------------------------------
\* The Perl program may end, or sit idle, between two calls.
ProgramIdles == frames = <<>> /\ UNCHANGED callVars

\* The steps that free temporaries, and those that neither push nor free any.
FreesTemps == SubReturns \/ SubDies \/ ConversionFails

LeavesTemps ==
    \/ ProgramIdles
    \/ \E name \in Methods : Method(name)
    \/ Dispatch \/ DispatchSyntaxError \/ MethodEnd
    \/ Eval \/ EvalSyntaxError \/ EvalRan \/ ScriptThrows
    \/ EventLoop \/ CallbackThrows \/ EvalEnd
    \/ \E nargs \in 0 .. MaxArgs : Sub(nargs)
    \/ CallSub
    \/ \E target \in Targets : Console(target)
    \/ ConsoleEnd
    \/ PerlRuns /\ (ResetStats \/ ResetMsgs) /\ UNCHANGED <<frames, made, perlVars>>

CallsNext == LeavesTemps \/ PushArgument \/ FreesTemps

CallsSpec == CallsInit /\ [][CallsNext]_callVars
----------------------------------------------------------------------------
(* Properties. *)

\* The variables of this module have their types.
CallsTypeOK ==
    /\ RecordsTypeOK
    /\ \A i \in DOMAIN frames :
          /\ frames[i].kind \in Kinds /\ frames[i].phase \in Phases
          /\ frames[i].id \in 1 .. made
          /\ frames[i].sp \in 0 .. Max(Cells) /\ frames[i].mark <= frames[i].sp
    /\ PL_stack_sp \in 0 .. Max(Cells) - 1
    /\ tmps_floor \in 0 .. Len(temps)

\* Where the stack pointer belongs while an activation is on top.
Level(i) ==
    IF i = 0 THEN 0
    ELSE frames[i].mark + IF frames[i].kind \in {"method", "eval"} THEN 1 ELSE 0

\* Whatever an activation calls, and however that call ends, leaves the stack
\* pointer and the floor of the temporaries where the activation had them
\* (PUTBACK, FREETMPS and LEAVE, pl_v8.cc; longjmp).
StackBalanced ==
    /\ PL_stack_sp = Level(Len(frames))
    /\ LET subs == {i \in DOMAIN frames : frames[i].kind = "sub"}
       IN  tmps_floor = IF subs = {} THEN 0 ELSE frames[Max(subs)].base

Body(i) == frames[i].phase = "body"

\* A sub is called with each of its arguments in its place, unless a sub was
\* called while a later argument was converted.
OnlyCallsDisturbArguments ==
    \A i \in DOMAIN frames :
        Body(i) =>
            /\ Len(frames[i].got) = frames[i].want
            /\ \A j \in frames[i].risen + 1 .. frames[i].want :
                  frames[i].got[j] = Scalar(frames[i].id, j)

\* "Any values passed from JavaScript into the Perl coderef will be properly
\* converted into equivalent Perl values" (lib/JavaScript/V8/XS.pm).
ArgumentsArrive ==
    \A i \in DOMAIN frames :
        Body(i) => frames[i].got =
                       [j \in 1 .. frames[i].want |-> Scalar(frames[i].id, j)]
=============================================================================
