-------------------------- MODULE RefinementProof --------------------------
(***************************************************************************)
(* The event loop implements TimerService, for every value of the          *)
(* constants, whenever the hypotheses of its refinement hold.              *)
(***************************************************************************)
EXTENDS EventLoopRefinement, EventLoopProof, FiniteSetTheorems

USE DEF timers

\* One object, whose callbacks and Perl subs keep to what the service knows
\* of, and a clock that does not go back.
Simple ==
    /\ ~ CallbackReenters /\ ~ PerlMayDie /\ ~ ClockStepsBack
    /\ NumericDelays
    /\ \A c, d \in Contexts : c = d
----------------------------------------------------------------------------
(* What the service sees of the list and of its slot. *)

\* Pushing a timer, wherever it is bubbled to, arms it.
LEMMA ArmedPush ==
    ASSUME TypeOK, NEW t \in Timer, PushAndBubble(t)
    PROVE  Armed' = Armed \cup {Shown(t)}
<1> DEFINE s == timer_list
<1>1. s \in Seq(Timer) /\ Len(s) \in Nat /\ DOMAIN s = 1 .. Len(s)
  BY LenProperties DEF TypeOK
<1>2. PICK p \in 1 .. Len(s) + 1 :
         \A i \in 1 .. Len(s) + 1 :
              s'[i] = IF i < p THEN s[i] ELSE IF i = p THEN t ELSE s[i - 1]
  BY <1>1, PushFacts
<1>3. s' \in Seq(Timer) /\ Len(s') = Len(s) + 1 /\ DOMAIN s' = 1 .. Len(s) + 1
  BY <1>1, PushFacts, LenProperties
<1>4. \A i \in 1 .. Len(s) + 1 : s'[i] = t \/ \E k \in 1 .. Len(s) : s'[i] = s[k]
  BY <1>1, <1>3, IdsPush
<1>5. \A k \in 1 .. Len(s) : \E i \in 1 .. Len(s) + 1 : s'[i] = s[k]
  <2> SUFFICES ASSUME NEW k \in 1 .. Len(s)
               PROVE  \E i \in 1 .. Len(s) + 1 : s'[i] = s[k]
    OBVIOUS
  <2>1. CASE k < p
    <3>1. k \in 1 .. Len(s) + 1 /\ s'[k] = s[k]
      BY <1>1, <1>2, <2>1
    <3> QED  BY <3>1
  <2>2. CASE ~ (k < p)
    <3>1. k + 1 \in 1 .. Len(s) + 1 /\ s'[k + 1] = s[k]
      BY <1>1, <1>2, <2>2
    <3> QED  BY <3>1
  <2> QED  BY <2>1, <2>2
<1>6. s'[p] = t
  BY <1>1, <1>2
<1>7. /\ Armed = {Shown(s[k]) : k \in 1 .. Len(s)}
      /\ Armed' = {Shown(s'[i]) : i \in 1 .. Len(s) + 1}
  BY <1>1, <1>3 DEF Armed, Shown
<1> HIDE DEF s
<1>8. ASSUME NEW x \in {Shown(s'[i]) : i \in 1 .. Len(s) + 1}
      PROVE  x \in {Shown(s[k]) : k \in 1 .. Len(s)} \cup {Shown(t)}
  BY <1>4
<1>9. ASSUME NEW x \in {Shown(s[k]) : k \in 1 .. Len(s)} \cup {Shown(t)}
      PROVE  x \in {Shown(s'[i]) : i \in 1 .. Len(s) + 1}
  BY <1>5, <1>6
<1> QED  BY <1>7, <1>8, <1>9

\* Removing a timer from the list disarms it, and it alone.
LEMMA ArmedRemove ==
    ASSUME TypeOK, DistinctIds, NEW k \in 1 .. Len(timer_list),
           timer_list' = RemoveAt(timer_list, k)
    PROVE  Armed' = Armed \ {Shown(timer_list[k])}
<1> DEFINE s == timer_list
<1>1. s \in Seq(Timer) /\ Len(s) \in Nat /\ DOMAIN s = 1 .. Len(s)
  BY LenProperties DEF TypeOK
<1>2. /\ s' \in Seq(Timer) /\ Len(s') = Len(s) - 1
      /\ \A i \in 1 .. Len(s) - 1 : s'[i] = IF i < k THEN s[i] ELSE s[i + 1]
  BY <1>1, RemoveAtFacts
<1>3. DOMAIN s' = 1 .. Len(s) - 1
  BY <1>2, LenProperties
<1>4. \A i \in 1 .. Len(s) - 1 :
         \E j \in 1 .. Len(s) : j # k /\ s'[i] = s[j]
  <2> SUFFICES ASSUME NEW i \in 1 .. Len(s) - 1
               PROVE  \E j \in 1 .. Len(s) : j # k /\ s'[i] = s[j]
    OBVIOUS
  <2>1. CASE i < k
    <3>1. i \in 1 .. Len(s) /\ i # k /\ s'[i] = s[i]
      BY <1>1, <1>2, <2>1
    <3> QED  BY <3>1
  <2>2. CASE ~ (i < k)
    <3>1. i + 1 \in 1 .. Len(s) /\ i + 1 # k /\ s'[i] = s[i + 1]
      BY <1>1, <1>2, <2>2
    <3> QED  BY <3>1
  <2> QED  BY <2>1, <2>2
<1>5. \A j \in 1 .. Len(s) : j # k => \E i \in 1 .. Len(s) - 1 : s'[i] = s[j]
  <2> SUFFICES ASSUME NEW j \in 1 .. Len(s), j # k
               PROVE  \E i \in 1 .. Len(s) - 1 : s'[i] = s[j]
    OBVIOUS
  <2>1. CASE j < k
    <3>1. j \in 1 .. Len(s) - 1 /\ s'[j] = s[j]
      BY <1>1, <1>2, <2>1
    <3> QED  BY <3>1
  <2>2. CASE ~ (j < k)
    <3>1. j - 1 \in 1 .. Len(s) - 1 /\ s'[j - 1] = s[j]
      BY <1>1, <1>2, <2>2
    <3> QED  BY <3>1
  <2> QED  BY <2>1, <2>2
<1>6. \A j \in 1 .. Len(s) : j # k => Shown(s[j]) # Shown(s[k])
  <2>1. \A j \in 1 .. Len(s) : j # k => s[j].id # s[k].id
    BY <1>1 DEF DistinctIds
  <2> HIDE DEF s
  <2> QED  BY <2>1 DEF Shown
<1>7. /\ Armed = {Shown(s[j]) : j \in 1 .. Len(s)}
      /\ Armed' = {Shown(s'[i]) : i \in 1 .. Len(s) - 1}
  BY <1>1, <1>3 DEF Armed, Shown
<1> HIDE DEF s
<1>8. ASSUME NEW x \in {Shown(s'[i]) : i \in 1 .. Len(s) - 1}
      PROVE  x \in {Shown(s[j]) : j \in 1 .. Len(s)} \ {Shown(s[k])}
  BY <1>4, <1>6
<1>9. ASSUME NEW x \in {Shown(s[j]) : j \in 1 .. Len(s)} \ {Shown(s[k])}
      PROVE  x \in {Shown(s'[i]) : i \in 1 .. Len(s) - 1}
  BY <1>5
<1>10. Shown(timer_list[k]) = Shown(s[k])
  BY DEF s
<1> QED  BY <1>7, <1>8, <1>9, <1>10

\* As many timers are armed as slots are in use.
LEMMA ArmedCount ==
    ASSUME TypeOK, DistinctIds
    PROVE  Cardinality(Armed) = Len(timer_list)
<1> DEFINE s == timer_list
           f == [i \in 1 .. Len(s) |-> Shown(s[i])]
<1>1. s \in Seq(Timer) /\ Len(s) \in Nat /\ DOMAIN s = 1 .. Len(s)
  BY LenProperties DEF TypeOK
<1>2. Armed = {Shown(s[i]) : i \in 1 .. Len(s)}
  BY <1>1 DEF Armed
<1>3. \A i, j \in 1 .. Len(s) : s[i].id = s[j].id => i = j
  BY <1>1 DEF DistinctIds
<1> HIDE DEF s
<1>4. f \in Bijection(1 .. Len(s), Armed)
  <2>1. f \in [1 .. Len(s) -> Armed]
    BY <1>2
  <2>2. \A i, j \in 1 .. Len(s) : f[i] = f[j] => i = j
    BY <1>3 DEF Shown
  <2>3. \A x \in Armed : \E i \in 1 .. Len(s) : f[i] = x
    BY <1>2
  <2> HIDE DEF f
  <2> QED  BY <2>1, <2>2, <2>3 DEF Bijection, Injection, Surjection, IsInjective
<1>5. IsFiniteSet(1 .. Len(s)) /\ Cardinality(1 .. Len(s)) = Len(s)
  BY <1>1, FS_Interval
<1>6. Cardinality(1 .. Len(s)) = Cardinality(Armed)
  BY <1>4, <1>5, FS_Bijection DEF ExistsBijection
<1> QED  BY <1>5, <1>6 DEF s

\* While a callback runs, the service has a running timer.
LEMMA RunningShown ==
    ASSUME TypeOK, Numeric, CallbackRuns
    PROVE  /\ Running # NoTimer
           /\ Running = [timer |-> Shown(timer_expiring),
                         again |-> ~ timer_expiring.removed]
<1>1. Running = [timer |-> Shown(timer_expiring), again |-> ~ timer_expiring.removed]
  BY DEF Running
<1>2. Shown(timer_expiring) \in ShownTimer /\ timer_expiring.removed \in BOOLEAN
  BY DEF TypeOK, Timer, Numeric, IsNumeric, Shown, ShownTimer
<1>3. Running \in [timer : ShownTimer, again : BOOLEAN]
  BY <1>1, <1>2
<1> QED  BY <1>1, <1>3, NoTimerAssumption

\* What the service sees does not change while the timers do not.
LEMMA SameShown ==
    ASSUME UNCHANGED <<timer_list, timer_expiring, frames>>
    PROVE  UNCHANGED <<Armed, Running>>
BY DEF Armed, Running, Shown, CallbackRuns, Top

\* What is armed is read off the list alone.
LEMMA SameArmed ==
    ASSUME UNCHANGED timer_list
    PROVE  Armed' = Armed
BY DEF Armed, Shown
----------------------------------------------------------------------------
(* Every step of the event loop is a step of the service, or none. *)

Implemented == Service!Next \/ UNCHANGED Service!serviceVars

\* A step that keeps the timers and the time, outside of callbacks, is none.
LEMMA Unseen ==
    ASSUME ~ CallbackRuns, ~ CallbackRuns',
           UNCHANGED <<timer_list, timer_next_id, clock, fault>>
    PROVE  Implemented
<1>1. Running = NoTimer /\ Running' = NoTimer
  BY DEF Running
<1> QED  BY <1>1, SameArmed DEF Implemented, Service!serviceVars

\* Arming a timer, in a script, in a callback or by dispatch.
LEMMA ArmStep ==
    ASSUME NumericDelays, TypeOK, fault = "none", fault' = "none",
           NEW c \in Contexts, NEW delay \in Delays \cup {0},
           NEW oneshot \in BOOLEAN, AddTimer(c, delay, oneshot),
           Running' = Running
    PROVE  Implemented
<1> DEFINE t == NewTimer(c, delay, oneshot)
<1>1. /\ t \in Timer /\ PushAndBubble(t)
      /\ timer_next_id' = timer_next_id + 1 /\ clock' = clock
  BY NewTimerType DEF AddTimer
<1>2. Armed' = Armed \cup {Shown(t)}
  BY <1>1, ArmedPush
<1>3. Clamped(delay) \in Int /\ clock \in Int
  BY DelaysAssumption, SizesAssumption DEF NumericDelays, TypeOK, Clamped, MinDelay
<1>4. Plus(clock, Clamped(delay)) = clock + Clamped(delay)
  BY <1>3, DelaysAssumption DEF Plus
<1>5. Shown(t) = [id |-> timer_next_id, target |-> clock + Clamped(delay),
                  delay |-> Clamped(delay), oneshot |-> oneshot]
  BY <1>4 DEF Shown, NewTimer
<1> HIDE DEF t
<1>6. Service!Arm(Clamped(delay), oneshot)
  BY <1>1, <1>2, <1>5 DEF Service!Arm
<1>7. Clamped(delay) \in {Clamped(d) : d \in Delays \cup {0}}
  OBVIOUS
<1> QED  BY <1>6, <1>7 DEF Implemented, Service!Next

\* Clearing a listed timer, and the one whose callback runs.  Clearing what
\* timer_expiring was, once its callback is over, is nothing to the service.
LEMMA ClearStep ==
    ASSUME OnceInv, NEW id \in 0 .. MaxId, DeleteListed(id) \/ DeleteExpiring(id)
    PROVE  Implemented
<1>1. /\ TypeOK /\ DistinctIds /\ Numeric
      /\ timer_list \in Seq(Timer) /\ DOMAIN timer_list = 1 .. Len(timer_list)
      /\ timer_expiring \in Timer
  BY LenProperties DEF OnceInv, IdInv, SortedInv, TypeOK
<1>2. fault = "none" /\ UNCHANGED <<timer_next_id, clock, frames, fault>>
  BY DEF DeleteListed, DeleteExpiring, InJavaScript, At
<1>3. CallbackRuns' <=> CallbackRuns
  BY <1>2 DEF CallbackRuns, Top
<1>4. CASE DeleteListed(id)
  <2>1. PICK k \in 1 .. Len(timer_list) : timer_list' = RemoveAt(timer_list, k)
    BY <1>1, <1>4 DEF DeleteListed
  <2>2. Armed' = Armed \ {Shown(timer_list[k])}
    BY <1>1, <2>1, ArmedRemove
  <2>3. Shown(timer_list[k]) \in Armed
    BY <1>1 DEF Armed
  <2>4. Running' = Running
    BY <1>3, <1>4 DEF DeleteListed, Running, Shown
  <2>5. Service!Clear(Shown(timer_list[k]))
    BY <1>2, <2>2, <2>4 DEF Service!Clear
  <2> QED  BY <2>3, <2>5 DEF Implemented, Service!Next
<1>5. CASE DeleteExpiring(id)
  <2>1. /\ timer_expiring' = [timer_expiring EXCEPT !.removed = TRUE]
        /\ timer_list' = timer_list
    BY <1>5 DEF DeleteExpiring
  <2>2. Armed' = Armed
    BY <2>1, SameArmed
  <2>3. Shown(timer_expiring') = Shown(timer_expiring) /\ timer_expiring'.removed
    BY <1>1, <2>1 DEF Shown, Timer
  <2>4. CASE CallbackRuns
    <3>1. Running # NoTimer
          /\ Running = [timer |-> Shown(timer_expiring),
                        again |-> ~ timer_expiring.removed]
      BY <1>1, <2>4, RunningShown
    <3>2. Running' = [timer |-> Shown(timer_expiring), again |-> FALSE]
      BY <1>3, <2>3, <2>4 DEF Running, Shown
    <3>3. Running' = [Running EXCEPT !.again = FALSE]
      <4>1. \A shown, again, no :
               [[timer |-> shown, again |-> again] EXCEPT !.again = no]
                  = [timer |-> shown, again |-> no]
        OBVIOUS
      <4>2. PICK shown, again : /\ Running = [timer |-> shown, again |-> again]
                                /\ Running' = [timer |-> shown, again |-> FALSE]
        BY <3>1, <3>2
      <4>3. [[timer |-> shown, again |-> again] EXCEPT !.again = FALSE]
               = [timer |-> shown, again |-> FALSE]
        BY <4>1, Zenon
      <4>4. [Running EXCEPT !.again = FALSE]
               = [[timer |-> shown, again |-> again] EXCEPT !.again = FALSE]
        BY <4>2, Zenon
      <4> QED  BY <4>2, <4>3, <4>4, Zenon
    <3>4. Service!ClearRunning
      BY <1>2, <2>2, <3>1, <3>3 DEF Service!ClearRunning
    <3> QED  BY <3>4 DEF Implemented, Service!Next
  <2>5. CASE ~ CallbackRuns
    BY <1>2, <1>3, <2>1, <2>5, Unseen
  <2> QED  BY <2>4, <2>5
<1> QED  BY <1>4, <1>5

\* Expiring the last timer fires it: it is due, none is due before it, and its
\* function belongs to the object whose loop runs.
LEMMA FireStep ==
    ASSUME Simple, OnceInv, OnceInv', Expire
    PROVE  Implemented
<1> DEFINE t == Last(timer_list)
<1>1. /\ TypeOK /\ TypeOK' /\ ScriptsBelow /\ DistinctIds /\ AllWaiting /\ Numeric
      /\ Numeric' /\ Sorted /\ PositiveDelays /\ RoundInv
      /\ timer_list \in Seq(Timer) /\ DOMAIN timer_list = 1 .. Len(timer_list)
      /\ clock \in Nat
  BY LenProperties DEF OnceInv, IdInv, SortedInv, TypeOK
<1>2. /\ timer_list # <<>> /\ frames # <<>> /\ InRound /\ fault = "none"
      /\ ~ GT(t.target, Top.now)
      /\ timer_list' = Front(timer_list) /\ timer_expiring' = Expiring(t)
      /\ timer_next_id' = timer_next_id /\ clock' = clock
  BY DEF Expire, MayExpire, At, InRound, Top
<1>3. /\ Len(timer_list) \in 1 .. Len(timer_list) /\ t \in Timer
      /\ t = timer_list[Len(timer_list)]
      /\ timer_list' = RemoveAt(timer_list, Len(timer_list))
  BY <1>1, <1>2, FrontFacts, FrontRemoves
<1>4. /\ t.target \in Int /\ t.delay \in Int /\ t.delay >= 1 /\ ~ t.removed
      /\ t.v8_func \in Contexts
  BY <1>1, <1>3 DEF Numeric, IsNumeric, PositiveDelays, AllWaiting, Waiting
<1>5. Top \in Frame /\ Top.now \in Nat /\ Top.ctx \in Contexts
  BY <1>1, <1>2, TopFacts DEF TypeOK, Frame
<1>6. t.target <= Top.now /\ Top.now <= clock
  BY <1>1, <1>2, <1>4, <1>5, LEIsOrder DEF RoundInv
<1>7. fault' = "none"
  <2>1. t.v8_func = Top.ctx
    BY <1>4, <1>5 DEF Simple
  <2>2. /\ t.v8_func # NoFunc
        /\ fault' = CASE t.v8_func = Top.ctx -> "none"
                      [] t.v8_func = NoFunc  -> "empty_callback"
                      [] OTHER               -> "foreign_callback"
    BY <1>4, ContextsAssumption DEF Expire
  <2> HIDE DEF t
  <2> QED  BY <2>1, <2>2
<1>8. CallbackRuns'
  <2> DEFINE f == [Top EXCEPT !.pc = "callback", !.sanity = Top.sanity - 1,
                              !.unserved = Top.unserved \ {t.id}]
  <2>1. Goto(f) /\ f.pc = "callback"
    BY <1>5 DEF Expire, Frame
  <2> HIDE DEF f
  <2> QED  BY <1>1, <1>2, <2>1, GotoControl DEF CallbackRuns
<1>9. Armed' = Armed \ {Shown(t)}
  BY <1>1, <1>3, ArmedRemove
<1>10. Shown(t) \in Armed
  BY <1>1, <1>3 DEF Armed
<1>11. \A u \in Armed : t.target <= u.target
  <2> SUFFICES ASSUME NEW i \in 1 .. Len(timer_list)
               PROVE  t.target <= timer_list[i].target
    BY <1>1 DEF Armed, Shown
  <2>1. timer_list[i].target \in Int
    BY <1>1 DEF Numeric, IsNumeric
  <2>2. CASE i = Len(timer_list)
    BY <1>3, <1>4, <2>2
  <2>3. CASE i < Len(timer_list)
    BY <1>1, <1>3, <1>4, <2>1, <2>3, LEIsOrder DEF Sorted
  <2> QED  BY <1>3, <2>2, <2>3
<1>12. Running = NoTimer
  BY <1>2 DEF Running, InRound, CallbackRuns
<1> DEFINE target == IF t.oneshot THEN t.target ELSE Top.now + t.delay
<1>13. /\ Expiring(t).id = t.id /\ Expiring(t).delay = t.delay
       /\ Expiring(t).oneshot = t.oneshot /\ Expiring(t).target = target
       /\ Expiring(t).removed = t.oneshot
  <2>1. Plus(Top.now, t.delay) = Top.now + t.delay
    BY <1>4, <1>5, DelaysAssumption DEF Plus
  <2> HIDE DEF t
  <2> QED  BY <1>3, <1>4, <2>1 DEF Expiring, Timer
<1>14. Running' = [timer |-> Shown(timer_expiring'),
                   again |-> ~ timer_expiring'.removed]
  BY <1>8 DEF Running, Shown
<1> DEFINE st == Shown(t)
<1>15. /\ st = [id |-> t.id, target |-> t.target, delay |-> t.delay,
                oneshot |-> t.oneshot]
  BY DEF Shown
<1>16. Running' = [timer |-> [st EXCEPT !.target = target], again |-> ~ st.oneshot]
  <2>1. Shown(timer_expiring') = [id |-> t.id, target |-> target,
                                  delay |-> t.delay, oneshot |-> t.oneshot]
    BY <1>2, <1>13 DEF Shown
  <2> HIDE DEF t, target, st
  <2>2. [st EXCEPT !.target = target] = [id |-> t.id, target |-> target,
                                  delay |-> t.delay, oneshot |-> t.oneshot]
    BY <1>15
  <2> QED  BY <1>2, <1>13, <1>14, <1>15, <2>1, <2>2
<1> HIDE DEF t
<1>17. /\ target \in st.target .. clock + st.delay
       /\ IF st.oneshot THEN target = st.target
          ELSE target \in st.target + st.delay .. clock + st.delay
  <2>1. target \in Int
    BY <1>4, <1>5
  <2> HIDE DEF st
  <2> QED  BY <1>1, <1>4, <1>5, <1>6, <1>15, <2>1
<1> HIDE DEF target
<1>18. st \in Armed /\ Armed' = Armed \ {st}
  BY <1>9, <1>10
<1>19. st.target = t.target
  BY <1>15
<1> HIDE DEF st
<1>20. Service!Fire(st, target)
  BY <1>1, <1>2, <1>4, <1>5, <1>6, <1>7, <1>11, <1>12, <1>16, <1>17, <1>18, <1>19
     DEF Service!Fire
<1> QED  BY <1>17, <1>18, <1>20 DEF Implemented, Service!Next

\* The return of a callback, with an interval queued back unless it is removed.
LEMMA ReturnStep ==
    ASSUME OnceInv, OnceInv', CallbackReturn \/ Requeue
    PROVE  Implemented
<1>1. /\ TypeOK /\ TypeOK' /\ ScriptsBelow /\ Numeric /\ timer_expiring \in Timer
      /\ timer_expiring.removed \in BOOLEAN
  BY DEF OnceInv, IdInv, SortedInv, TypeOK, Timer
<1>2. /\ fault = "none" /\ frames # <<>> /\ CallbackRuns
      /\ UNCHANGED <<timer_next_id, clock, fault>>
  BY DEF CallbackReturn, Requeue, At, CallbackRuns, Top
<1>3. ~ CallbackRuns'
  <2> DEFINE f == [Top EXCEPT !.pc = "round"]
  <2>1. Goto(f)
    BY DEF CallbackReturn, Requeue
  <2>2. f.pc = "round"
    BY <1>1, <1>2, TopFacts DEF TypeOK, Frame
  <2> HIDE DEF f
  <2> QED  BY <1>1, <1>2, <2>1, <2>2, GotoControl DEF CallbackRuns
<1>4. Running' = NoTimer
  BY <1>3 DEF Running
<1>5. /\ Running # NoTimer
      /\ Running.timer = Shown(timer_expiring)
      /\ Running.again = ~ timer_expiring.removed
  BY <1>1, <1>2, RunningShown
<1>6. Armed' = IF Running.again THEN Armed \cup {Running.timer} ELSE Armed
  <2>1. CASE CallbackReturn
    BY <1>5, <2>1, SameArmed DEF CallbackReturn
  <2>2. CASE Requeue
    <3>1. PushAndBubble(timer_expiring) /\ ~ timer_expiring.removed
      BY <2>2 DEF Requeue
    <3> QED  BY <1>1, <1>5, <3>1, ArmedPush
  <2> QED  BY <2>1, <2>2
<1>7. Service!Return
  BY <1>2, <1>4, <1>5, <1>6 DEF Service!Return
<1> QED  BY <1>7 DEF Implemented, Service!Next

\* The process is lost only while no slot is free.
LEMMA ExhaustedStep ==
    ASSUME OnceInv, CreateTimerAborts \/ RequeueOverrun
    PROVE  Implemented
<1>1. /\ fault = "none" /\ fault' # "none" /\ Len(timer_list) >= MAX_TIMERS
      /\ UNCHANGED <<timer_list, timer_expiring, timer_next_id, clock, frames>>
  BY DEF CreateTimerAborts, RequeueOverrun, InJavaScript, PerlRuns, At
<1>2. Cardinality(Armed) >= MAX_TIMERS
  BY <1>1, ArmedCount DEF OnceInv, IdInv
<1>3. Service!Cardinality(Armed) = Cardinality(Armed)
  BY DEF Service!Cardinality, Cardinality
<1>4. Service!Exhausted
  BY <1>1, <1>2, <1>3, SameShown DEF Service!Exhausted
<1> QED  BY <1>4 DEF Implemented, Service!Next

\* Time passes by one tick, or stands still at its bound.
LEMMA TickStep ==
    ASSUME TypeOK, Tick
    PROVE  Implemented
<1>1. /\ fault = "none" /\ UNCHANGED <<timers, fault>>
      /\ clock' = clock + 1 \/ clock' = clock
  BY DEF Tick
<1>2. CallbackRuns' = CallbackRuns
  <2>1. CASE At("poll") /\ Top.left > 0
    <3> DEFINE f == [Top EXCEPT !.left = Top.left - 1]
    <3>1. frames # <<>> /\ Top.pc = "poll" /\ frames \in Seq(Frame)
      BY <2>1 DEF At, Top, TypeOK
    <3>2. f \in Frame /\ f.pc = "poll"
      <4>1. Top \in Frame /\ Top.left \in Int
        BY <3>1, TopFacts DEF Frame
      <4> QED  BY <3>1, <4>1 DEF Frame
    <3>3. Goto(f)
      BY <2>1, <3>1, TopFacts DEF Tick, Goto, Top
    <3> HIDE DEF f
    <3>4. frames' # <<>> /\ Last(frames') = f
      BY <3>1, <3>2, <3>3, GotoFacts
    <3> QED  BY <3>1, <3>2, <3>4 DEF CallbackRuns, Top
  <2>2. CASE ~ (At("poll") /\ Top.left > 0)
    BY <2>2 DEF Tick, CallbackRuns, Top
  <2> QED  BY <2>1, <2>2
<1>3. Armed' = Armed /\ Running' = Running
  BY <1>1, <1>2, SameArmed DEF Running, Shown
<1>4. CASE clock' = clock + 1
  <2>1. Service!Advance
    BY <1>1, <1>3, <1>4 DEF Service!Advance
  <2> QED  BY <2>1 DEF Implemented, Service!Next
<1>5. CASE clock' = clock
  BY <1>1, <1>3, <1>5 DEF Implemented, Service!serviceVars
<1> QED  BY <1>1, <1>4, <1>5

\* Every step.
LEMMA EveryStep ==
    ASSUME Simple, OnceInv, OnceInv', [Next]_vars
    PROVE  Implemented
<1>1. /\ TypeOK /\ TypeOK' /\ ScriptsBelow /\ ~ CallbackReenters /\ NumericDelays
  BY DEF Simple, OnceInv, IdInv
<1>2. PerlRuns => ~ CallbackRuns /\ fault = "none"
  BY <1>1 DEF PerlRuns, At, CallbackRuns, Top
<1>3. ASSUME NEW pc, At(pc), pc # "callback" PROVE ~ CallbackRuns
  BY <1>3 DEF At, CallbackRuns, Top
<1>4. CASE \/ \E c \in Contexts : Eval(c) \/ DispatchMalformed(c)
           \/ ScriptReturn \/ ScriptThrow \/ RoundEnd \/ Poll
           \/ PollReturn \/ PollInterrupted \/ LoopExit
  <2>1. ~ CallbackRuns'
    BY <1>1, <1>4, OutOfRound
  <2>2. ~ CallbackRuns
    BY <1>2, <1>3, <1>4 DEF Eval, DispatchMalformed, ScriptReturn, ScriptThrow,
       RoundEnd, Poll, PollReturn, PollInterrupted, LoopExit
  <2>3. UNCHANGED <<timer_list, timer_next_id, clock, fault>>
    BY <1>4 DEF Eval, DispatchMalformed, ScriptReturn, ScriptThrow,
       RoundEnd, Poll, PollReturn, PollInterrupted, LoopExit
  <2> QED  BY <2>1, <2>2, <2>3, Unseen
<1>5. ASSUME NEW c \in Contexts, Dispatch(c) PROVE Implemented
  <2>1. ~ CallbackRuns /\ ~ CallbackRuns' /\ fault = "none" /\ fault' = "none"
    BY <1>1, <1>2, <1>5, OutOfRound DEF Dispatch
  <2>2. Running' = Running
    BY <2>1 DEF Running
  <2>3. AddTimer(c, 0, TRUE)
    BY <1>5 DEF Dispatch
  <2> QED  BY <1>1, <2>1, <2>2, <2>3, ArmStep
<1>6. ASSUME NEW delay \in Delays \cup {0}, NEW oneshot \in BOOLEAN,
             CreateTimer(delay, oneshot)
      PROVE  Implemented
  <2>1. /\ frames # <<>> /\ fault = "none" /\ fault' = "none"
        /\ AddTimer(Top.ctx, delay, oneshot)
        /\ UNCHANGED <<frames, timer_expiring>>
    BY <1>6 DEF CreateTimer, AddTimer, InJavaScript, At
  <2>2. Top.ctx \in Contexts
    BY <1>1, <2>1, TopFacts DEF TypeOK, Frame
  <2>3. Running' = Running
    BY <2>1 DEF Running, Shown, CallbackRuns, Top
  <2> QED  BY <1>1, <2>1, <2>2, <2>3, ArmStep
<1>7. CASE CreateTimerAborts \/ RequeueOverrun
  BY <1>7, ExhaustedStep
<1>8. ASSUME NEW id \in 0 .. MaxId, ClearTimer(id) PROVE Implemented
  BY <1>8, ClearStep DEF ClearTimer
<1>9. CASE RoundStart
  <2> DEFINE f == [Top EXCEPT !.pc = "round", !.now = clock,
                    !.sanity = MAX_EXPIRIES, !.unserved = Ids(timer_list)]
  <2>1. frames # <<>> /\ ~ CallbackRuns /\ Goto(f)
    BY <1>3, <1>9 DEF RoundStart, At
  <2>2. f.pc = "round"
    BY <1>1, <2>1, TopFacts DEF TypeOK, Frame
  <2>3. UNCHANGED <<timer_list, timer_next_id, clock, fault>>
    BY <1>9 DEF RoundStart
  <2> HIDE DEF f
  <2>4. ~ CallbackRuns'
    BY <1>1, <2>1, <2>2, GotoControl DEF CallbackRuns
  <2> QED  BY <2>1, <2>3, <2>4, Unseen
<1>10. CASE Expire
  BY <1>10, FireStep
<1>11. CASE CallbackReturn \/ Requeue
  BY <1>11, ReturnStep
<1>12. CASE Tick
  BY <1>1, <1>12, TickStep
<1>13. CASE Lost \/ UNCHANGED vars
  <2>1. /\ UNCHANGED <<timer_next_id, clock, fault>>
        /\ UNCHANGED <<timer_list, timer_expiring, frames>>
    BY <1>13 DEF Lost, vars
  <2> QED  BY <2>1, SameShown DEF Implemented, Service!serviceVars
<1>14. ~ Die /\ ~ StepBack
  BY DEF Simple, Die, StepBack
<1>15. Next \/ UNCHANGED vars
  OBVIOUS
<1> QED  BY <1>4, <1>5, <1>6, <1>7, <1>8, <1>9, <1>10, <1>11, <1>12, <1>13,
            <1>14, <1>15 DEF Next, SetTimeout, SetInterval, DelayGiven

\* Initially nothing is armed, and nothing runs.
LEMMA ServiceInit == Init => Service!Init
<1> SUFFICES ASSUME Init PROVE Service!Init
  OBVIOUS
<1>1. DOMAIN timer_list = {} /\ frames = <<>>
  BY DEF Init
<1>2. Armed = {} /\ Running = NoTimer
  BY <1>1 DEF Armed, Running, CallbackRuns
<1> QED  BY <1>2 DEF Init, Service!Init

\* With one object, numeric delays, callbacks that do not reach eval, Perl subs
\* that do not die and a clock that does not go back, the event loop is the
\* timer service: nothing fires early, out of order, after a clear or twice, an
\* interval is armed again unless it cleared itself, and the process is lost
\* only when every slot is taken.
THEOREM LoopImplementsService == Simple => (Spec => ImplementsService)
<1> SUFFICES ASSUME Simple PROVE Spec => ImplementsService
  OBVIOUS
<1>1. OnceInv /\ [Next]_vars => OnceInv'
  BY OnceStep DEF Simple
<1>2. OnceInv /\ OnceInv' /\ [Next]_vars => [Service!Next]_(Service!serviceVars)
  BY EveryStep DEF Implemented
<1> QED  BY OnceInit, ServiceInit, <1>1, <1>2, PTL
         DEF Spec, ImplementsService, Service!Spec
=============================================================================
