---------------------------- MODULE TimerService ----------------------------
(***************************************************************************)
(* What setTimeout, setInterval and their clear functions promise to a     *)
(* script: a set of armed timers, at most one of which is running, fired   *)
(* in the order of their targets, never early, never after being cleared,  *)
(* one-shots once and intervals again.  There is no list, no round, no     *)
(* poll() and no stack here; EventLoopRefinement shows that the event loop *)
(* implements this.                                                        *)
(***************************************************************************)
EXTENDS Integers, FiniteSets

CONSTANTS
    NoTimer,       \* no callback is running
    ArmDelays,     \* integers, at least the minimum delay
    Capacity       \* timers the service can hold, at least one

VARIABLES
    armed,     \* timers waiting for their target: id, target, delay, oneshot
    running,   \* NoTimer, or the timer fired, and whether it is to be re-armed
    next_id,
    clock,
    up         \* FALSE once the process is lost

serviceVars == <<armed, running, next_id, clock, up>>

Init ==
    /\ armed = {}
    /\ running = NoTimer
    /\ next_id = 1
    /\ clock = 0
    /\ up = TRUE

Arm(delay, oneshot) ==
    /\ up
    /\ armed' = armed \cup {[id |-> next_id, target |-> clock + delay,
                             delay |-> delay, oneshot |-> oneshot]}
    /\ next_id' = next_id + 1
    /\ UNCHANGED <<running, clock, up>>

Clear(t) ==
    /\ up
    /\ armed' = armed \ {t}
    /\ UNCHANGED <<running, next_id, clock, up>>

ClearRunning ==
    /\ up /\ running # NoTimer
    /\ running' = [running EXCEPT !.again = FALSE]
    /\ UNCHANGED <<armed, next_id, clock, up>>

\* A timer none is due before.  An interval's next target is at least its
\* delay after the one it had, and at most its delay from now.
Fire(t, target) ==
    /\ up /\ running = NoTimer
    /\ t.target <= clock
    /\ \A u \in armed : t.target <= u.target
    /\ IF t.oneshot THEN target = t.target
       ELSE target \in t.target + t.delay .. clock + t.delay
    /\ armed' = armed \ {t}
    /\ running' = [timer |-> [t EXCEPT !.target = target], again |-> ~ t.oneshot]
    /\ UNCHANGED <<next_id, clock, up>>

Return ==
    /\ up /\ running # NoTimer
    /\ armed' = IF running.again THEN armed \cup {running.timer} ELSE armed
    /\ running' = NoTimer
    /\ UNCHANGED <<next_id, clock, up>>

Advance ==
    /\ up
    /\ clock' = clock + 1
    /\ UNCHANGED <<armed, running, next_id, up>>

\* The process may only be lost while the service is full.
Exhausted ==
    /\ up /\ Cardinality(armed) >= Capacity
    /\ up' = FALSE
    /\ UNCHANGED <<armed, running, next_id, clock>>

Next ==
    \/ \E delay \in ArmDelays, oneshot \in BOOLEAN : Arm(delay, oneshot)
    \/ \E t \in armed : Clear(t)
    \/ ClearRunning
    \/ \E t \in armed :
         \E target \in t.target .. clock + t.delay : Fire(t, target)
    \/ Return \/ Advance \/ Exhausted

Spec == Init /\ [][Next]_serviceVars
=============================================================================
