------------------------ MODULE EventLoopRefinement ------------------------
(* The event loop implements TimerService, as long as delays are numbers, *)
(* callbacks do not reach eval, Perl subs do not die, the clock does not  *)
(* go back and there is one object.                                       *)
EXTENDS EventLoop

CONSTANT NoTimer

\* A timer as the service sees it.
ShownTimer == [id : Nat, target : Int, delay : Int, oneshot : BOOLEAN]

Shown(t) == [id |-> t.id, target |-> t.target, delay |-> t.delay,
             oneshot |-> t.oneshot]

ASSUME NoTimerAssumption == NoTimer \notin [timer : ShownTimer, again : BOOLEAN]

Armed == {Shown(timer_list[i]) : i \in DOMAIN timer_list}

\* The interval whose callback runs is queued back unless it is removed.
Running == IF CallbackRuns
           THEN [timer |-> Shown(timer_expiring), again |-> ~ timer_expiring.removed]
           ELSE NoTimer

Service == INSTANCE TimerService WITH
    ArmDelays <- {Clamped(delay) : delay \in Delays \cup {0}},
    Capacity <- MAX_TIMERS,
    armed <- Armed,
    running <- Running,
    next_id <- timer_next_id,
    up <- (fault = "none")

\* The timer list, its rounds and its slot for the expiring timer implement
\* the service: nothing fires early, out of order, after a clear or twice, and
\* nothing is lost.
ImplementsService == Service!Spec
=============================================================================
