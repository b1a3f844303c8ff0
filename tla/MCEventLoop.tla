---------------------------- MODULE MCEventLoop ----------------------------
(* Small instances of EventLoop for TLC. *)
EXTENDS EventLoopRefinement

CONSTANTS c1, c2

\* One object, and two that share the timer list.
OneContext == {c1}
TwoContexts == {c1, c2}

\* Delays in ticks of 1 ms: above the minimum; Undefined gives one below it.
ShortDelays == {2}
NaNDelays == {NaN, 1}

\* In ticks of half a millisecond.
HalfMsDelays == {1, 3, 6}
=============================================================================
