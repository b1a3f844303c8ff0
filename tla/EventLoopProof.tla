--------------------------- MODULE EventLoopProof ---------------------------
(***************************************************************************)
(* Proofs about EventLoop, for every value of its constants.               *)
(***************************************************************************)
EXTENDS EventLoop, SequenceLemmas

USE DEF timers
----------------------------------------------------------------------------
(* The stack of activations. *)

\* The innermost activation.
LEMMA TopFacts ==
    ASSUME frames \in Seq(Frame), frames # <<>>
    PROVE  /\ Top \in Frame /\ Top = frames[Len(frames)]
           /\ Len(frames) \in Nat \ {0}
BY FrontFacts DEF Top

\* Goto replaces the innermost activation.
LEMMA GotoFacts ==
    ASSUME frames \in Seq(Frame), frames # <<>>, NEW f \in Frame, Goto(f)
    PROVE  /\ frames' \in Seq(Frame) /\ Len(frames') = Len(frames)
           /\ frames' # <<>> /\ Last(frames') = f
           /\ \A i \in 1 .. Len(frames) - 1 : frames'[i] = frames[i]
<1>1. Len(frames) \in Nat \ {0} /\ Len(frames) \in 1 .. Len(frames)
  BY EmptySeq
<1>2. /\ frames' \in Seq(Frame) /\ Len(frames') = Len(frames)
      /\ \A j \in 1 .. Len(frames) :
            frames'[j] = IF j = Len(frames) THEN f ELSE frames[j]
  BY <1>1, ExceptSeq DEF Goto
<1>3. frames' # <<>>
  BY <1>1, <1>2, EmptySeq
<1> QED  BY <1>1, <1>2, <1>3 DEF Last

\* Enter pushes an activation.
LEMMA EnterFacts ==
    ASSUME frames \in Seq(Frame), NEW f \in Frame, Enter(f)
    PROVE  /\ frames' \in Seq(Frame) /\ Len(frames') = Len(frames) + 1
           /\ frames' # <<>> /\ Last(frames') = f
           /\ \A i \in 1 .. Len(frames) : frames'[i] = frames[i]
BY AppendProperties DEF Enter, Last

\* Leave pops one.
LEMMA LeaveFacts ==
    ASSUME frames \in Seq(Frame), frames # <<>>, Leave
    PROVE  /\ frames' \in Seq(Frame) /\ Len(frames') = Len(frames) - 1
           /\ \A i \in 1 .. Len(frames) - 1 : frames'[i] = frames[i]
BY FrontFacts DEF Leave

\* A new activation has the type of one.
LEMMA FreshType ==
    ASSUME NEW c \in Contexts, NEW pc \in Pcs, NEW again \in BOOLEAN
    PROVE  Fresh(c, pc, again) \in Frame
BY SizesAssumption DEF Fresh, Frame
----------------------------------------------------------------------------
(* The timer list. *)

\* PushAndBubble inserts t in front of the longest suffix of timers that t's
\* target is after.
LEMMA PushFacts ==
    ASSUME timer_list \in Seq(Timer), NEW t \in Timer, PushAndBubble(t)
    PROVE  /\ timer_list' \in Seq(Timer)
           /\ Len(timer_list') = Len(timer_list) + 1
           /\ \E p \in 1 .. Len(timer_list) + 1 :
                /\ BubbleStop(timer_list, t, p)
                /\ \A i \in 1 .. Len(timer_list) + 1 :
                     timer_list'[i] = IF i < p THEN timer_list[i]
                                      ELSE IF i = p THEN t
                                      ELSE timer_list[i - 1]
<1>1. PICK p \in 1 .. Len(timer_list) + 1 :
         BubbleStop(timer_list, t, p) /\ timer_list' = InsertAt(timer_list, p, t)
  BY DEF PushAndBubble
<1> DEFINE T == Timer
<1> HIDE DEF T
<1>2. timer_list \in Seq(T) /\ t \in T
  BY DEF T
<1>3. /\ InsertAt(timer_list, p, t) \in Seq(T)
      /\ Len(InsertAt(timer_list, p, t)) = Len(timer_list) + 1
      /\ \A i \in 1 .. Len(timer_list) + 1 :
           InsertAt(timer_list, p, t)[i] =
               IF i < p THEN timer_list[i] ELSE IF i = p THEN t ELSE timer_list[i - 1]
  BY <1>2, InsertAtFacts
<1>4. InsertAt(timer_list, p, t) \in Seq(Timer)
  BY <1>3 DEF T
<1> QED  BY <1>1, <1>3, <1>4

\* A new timer has the type of one.
LEMMA NewTimerType ==
    ASSUME TypeOK, NEW c \in Contexts, NEW delay \in Delays \cup {0},
           NEW oneshot \in BOOLEAN
    PROVE  NewTimer(c, delay, oneshot) \in Timer
<1>1. clock \in Int /\ Ms \in Int /\ delay \in Int \cup {NaN} /\ timer_next_id \in Nat
  BY SizesAssumption, DelaysAssumption DEF TypeOK
<1>2. Clamped(delay) \in Double
  BY <1>1 DEF Clamped, Double, MinDelay
<1>3. Plus(clock, Clamped(delay)) \in Double
  BY <1>1, <1>2, DelaysAssumption DEF Plus, Double
<1> QED  BY <1>1, <1>2, <1>3 DEF NewTimer, Timer

\* A slot that memset cleared has the type of one.
LEMMA UnusedType == Unused \in Timer
BY DEF Unused, Timer, Double

\* So does the timer moved to timer_expiring.
LEMMA ExpiringType ==
    ASSUME TypeOK, frames # <<>>, NEW t \in Timer
    PROVE  Expiring(t) \in Timer
<1>1. Top.now \in Int
  BY TopFacts DEF TypeOK, Frame
<1>2. t.target \in Double /\ t.delay \in Double /\ t.id \in Nat
      /\ t.oneshot \in BOOLEAN /\ t.removed \in BOOLEAN
      /\ t.v8_func \in Contexts \cup {NoFunc}
  BY DEF Timer
<1>3. Plus(Top.now, t.delay) \in Double
  BY <1>1, <1>2, DelaysAssumption DEF Plus, Double
<1> QED  BY <1>2, <1>3 DEF Expiring, Timer
----------------------------------------------------------------------------
(* Type correctness. *)

\* Init has the types: the list is empty and the slot zeroed.
LEMMA TypeInit == Init => TypeOK
BY UnusedType, SizesAssumption, EmptySeq DEF Init, TypeOK

\* What arming a timer does to the types, for scripts and for dispatch.
LEMMA AddTimerType ==
    ASSUME TypeOK, NEW c \in Contexts, NEW delay \in Delays \cup {0},
           NEW oneshot \in BOOLEAN, AddTimer(c, delay, oneshot)
    PROVE  /\ timer_list' \in Seq(Timer) /\ Len(timer_list') <= MAX_TIMERS
           /\ timer_next_id' \in Nat \ {0}
<1>1. timer_list \in Seq(Timer) /\ NewTimer(c, delay, oneshot) \in Timer
  BY NewTimerType DEF TypeOK
<1>2. PushAndBubble(NewTimer(c, delay, oneshot))
  BY DEF AddTimer
<1>3. timer_list' \in Seq(Timer) /\ Len(timer_list') = Len(timer_list) + 1
  BY <1>1, <1>2, PushFacts
<1>4. Len(timer_list) \in Nat /\ Len(timer_list) < MAX_TIMERS
  BY <1>1, LenProperties DEF AddTimer
<1>5. timer_next_id' \in Nat \ {0}
  BY DEF AddTimer, TypeOK
<1> QED  BY <1>3, <1>4, <1>5, SizesAssumption

\* Every action keeps the types, one step of the proof for each.
LEMMA TypeStep == TypeOK /\ [Next]_vars => TypeOK'
<1> SUFFICES ASSUME TypeOK, [Next]_vars PROVE TypeOK'
  OBVIOUS
<1>0. /\ timer_list \in Seq(Timer) /\ Len(timer_list) \in Nat
      /\ Len(timer_list) <= MAX_TIMERS /\ MAX_TIMERS \in Nat
      /\ timer_expiring \in Timer /\ timer_next_id \in Nat \ {0}
      /\ clock \in Nat /\ frames \in Seq(Frame) /\ gone \subseteq Nat
  BY LenProperties, SizesAssumption DEF TypeOK
<1>1. ASSUME frames # <<>>
      PROVE  Top \in Frame /\ Top.ctx \in Contexts /\ Top.again \in BOOLEAN
             /\ Top.now \in Nat /\ Top.sanity \in 0 .. MAX_EXPIRIES
             /\ Top.left \in Int /\ Top.unserved \in SUBSET Nat
  BY <1>0, <1>1, TopFacts DEF Frame
<1>2. ASSUME NEW c \in Contexts, Eval(c) PROVE TypeOK'
  <2>1. frames' \in Seq(Frame)
    BY <1>0, <1>2, EnterFacts, FreshType DEF Eval, Pcs
  <2> QED  BY <1>0, <1>2, <2>1 DEF Eval, TypeOK
<1>3. ASSUME NEW c \in Contexts, Dispatch(c) PROVE TypeOK'
  <2>1. frames' \in Seq(Frame)
    BY <1>0, <1>3, EnterFacts, FreshType DEF Dispatch, Pcs
  <2>2. /\ timer_list' \in Seq(Timer) /\ Len(timer_list') <= MAX_TIMERS
        /\ timer_next_id' \in Nat \ {0}
    BY <1>3, AddTimerType DEF Dispatch
  <2> QED  BY <1>0, <1>3, <2>1, <2>2 DEF Dispatch, AddTimer, TypeOK
<1>4. ASSUME NEW c \in Contexts, DispatchMalformed(c) PROVE TypeOK'
  <2>1. frames' \in Seq(Frame)
    BY <1>0, <1>4, EnterFacts, FreshType DEF DispatchMalformed, Pcs
  <2> QED  BY <1>0, <1>4, <2>1 DEF DispatchMalformed, TypeOK
<1>5. CASE ScriptReturn
  <2>1. frames' \in Seq(Frame)
    BY <1>0, <1>1, <1>5, GotoFacts, FreshType DEF ScriptReturn, At, Pcs
  <2> QED  BY <1>0, <1>5, <2>1 DEF ScriptReturn, TypeOK
<1>6. CASE ScriptThrow \/ Die
  <2>1. frames' \in Seq(Frame)
    BY <1>0, <1>6, LeaveFacts DEF ScriptThrow, Die, InJavaScript, At
  <2> QED  BY <1>0, <1>6, <2>1 DEF ScriptThrow, Die, TypeOK
<1>7. ASSUME NEW delay \in Delays \cup {0}, NEW oneshot \in BOOLEAN,
             CreateTimer(delay, oneshot)
      PROVE  TypeOK'
  <2>1. Top.ctx \in Contexts
    BY <1>1, <1>7 DEF CreateTimer, InJavaScript, At
  <2>2. /\ timer_list' \in Seq(Timer) /\ Len(timer_list') <= MAX_TIMERS
        /\ timer_next_id' \in Nat \ {0}
    BY <1>7, <2>1, AddTimerType DEF CreateTimer
  <2> QED  BY <1>0, <1>7, <2>2 DEF CreateTimer, AddTimer, TypeOK
<1>8. CASE CreateTimerAborts
  BY <1>0, <1>8 DEF CreateTimerAborts, TypeOK
<1>9. ASSUME NEW id \in 0 .. MaxId, DeleteExpiring(id) PROVE TypeOK'
  <2>1. timer_expiring' \in Timer
    BY <1>0, <1>9 DEF DeleteExpiring, Timer
  <2>2. gone' \subseteq Nat
    BY <1>0, <1>9, SizesAssumption DEF DeleteExpiring
  <2> QED  BY <1>0, <1>9, <2>1, <2>2 DEF DeleteExpiring, TypeOK
<1>10. ASSUME NEW id \in 0 .. MaxId, DeleteListed(id) PROVE TypeOK'
  <2>1. PICK i \in DOMAIN timer_list : timer_list' = RemoveAt(timer_list, i)
    BY <1>10 DEF DeleteListed
  <2>2. i \in 1 .. Len(timer_list)
    BY <1>0, LenProperties
  <2>3. timer_list' \in Seq(Timer) /\ Len(timer_list') = Len(timer_list) - 1
    BY <1>0, <2>1, <2>2, RemoveAtFacts
  <2>4. gone' \subseteq Nat
    BY <1>0, <1>10, SizesAssumption DEF DeleteListed
  <2> QED  BY <1>0, <1>10, <2>3, <2>4 DEF DeleteListed, TypeOK
<1>11. CASE RoundStart
  <2>1. Ids(timer_list) \in SUBSET Nat
    <3>1. \A i \in DOMAIN timer_list : timer_list[i] \in Timer
      BY <1>0, LenProperties, ElementOfSeq
    <3>2. \A i \in DOMAIN timer_list : timer_list[i].id \in Nat
      BY <3>1 DEF Timer
    <3> QED  BY <3>2 DEF Ids
  <2>2. [Top EXCEPT !.pc = "round", !.now = clock, !.sanity = MAX_EXPIRIES,
                    !.unserved = Ids(timer_list)] \in Frame
    <3>1. MAX_EXPIRIES \in 0 .. MAX_EXPIRIES
      BY SizesAssumption
    <3>2. Top \in Frame
      BY <1>1, <1>11 DEF RoundStart, At
    <3> QED  BY <1>0, <2>1, <3>1, <3>2 DEF Frame, Pcs
  <2>3. frames' \in Seq(Frame)
    BY <1>0, <1>11, <2>2, GotoFacts DEF RoundStart, At
  <2> QED  BY <1>0, <1>11, <2>3 DEF RoundStart, TypeOK
<1>12. CASE Expire
  <2> DEFINE t == Last(timer_list)
  <2>1. frames # <<>> /\ timer_list # <<>> /\ Top.sanity > 0
    BY <1>12 DEF Expire, At, MayExpire
  <2>2. /\ timer_list' \in Seq(Timer) /\ Len(timer_list') = Len(timer_list) - 1
        /\ t \in Timer
    BY <1>0, <1>12, <2>1, FrontFacts DEF Expire
  <2>3. timer_expiring' \in Timer
    BY <1>12, <2>1, <2>2, ExpiringType DEF Expire
  <2>4. [Top EXCEPT !.pc = "callback", !.sanity = Top.sanity - 1,
                    !.unserved = Top.unserved \ {t.id}] \in Frame
    <3>1. Top \in Frame
      BY <1>1, <2>1
    <3>2. Top.sanity - 1 \in 0 .. MAX_EXPIRIES
      BY <1>1, <2>1, SizesAssumption
    <3>3. Top.unserved \ {t.id} \in SUBSET Nat
      BY <1>1, <2>1
    <3> HIDE DEF t
    <3> QED  BY <3>1, <3>2, <3>3 DEF Frame, Pcs
  <2>5. frames' \in Seq(Frame)
    BY <1>0, <1>12, <2>1, <2>4, GotoFacts DEF Expire
  <2>6. gone' \subseteq Nat
    BY <1>0, <1>12, <2>2 DEF Expire, Timer
  <2>7. fault' \in {"none", "empty_callback", "foreign_callback"}
    BY <1>12 DEF Expire
  <2> QED  BY <1>0, <1>12, <2>2, <2>3, <2>5, <2>6, <2>7 DEF Expire, TypeOK
<1>13. CASE CallbackReturn
  <2>1. frames' \in Seq(Frame)
    <3>1. [Top EXCEPT !.pc = "round"] \in Frame
      BY <1>1, <1>13 DEF CallbackReturn, At, Frame, Pcs
    <3> QED  BY <1>0, <1>13, <3>1, GotoFacts DEF CallbackReturn, At
  <2> QED  BY <1>0, <1>13, <2>1 DEF CallbackReturn, TypeOK
<1>14. CASE Requeue
  <2>1. frames' \in Seq(Frame)
    <3>1. [Top EXCEPT !.pc = "round"] \in Frame
      BY <1>1, <1>14 DEF Requeue, At, Frame, Pcs
    <3> QED  BY <1>0, <1>14, <3>1, GotoFacts DEF Requeue, At
  <2>2. timer_list' \in Seq(Timer) /\ Len(timer_list') = Len(timer_list) + 1
    BY <1>0, <1>14, PushFacts DEF Requeue
  <2> QED  BY <1>0, <1>14, <2>1, <2>2 DEF Requeue, TypeOK
<1>15. CASE RequeueOverrun
  BY <1>0, <1>15 DEF RequeueOverrun, TypeOK
<1>16. CASE RoundEnd
  <2>1. frames' \in Seq(Frame)
    BY <1>0, <1>1, <1>16, GotoFacts, FreshType DEF RoundEnd, At, Pcs
  <2> QED  BY <1>0, <1>16, <2>1, UnusedType DEF RoundEnd, TypeOK
<1>17. CASE Poll
  <2>1. PICK left \in Timeouts(Last(timer_list).target) :
           Goto([Top EXCEPT !.pc = "poll", !.left = left])
    BY <1>17 DEF Poll
  <2>2. left \in Int
    <3>1. Last(timer_list) \in Timer
      BY <1>0, <1>17, FrontFacts DEF Poll
    <3>2. Last(timer_list).target \in Int \cup {NaN}
      BY <3>1 DEF Timer, Double
    <3>3. ASSUME NEW w \in Int PROVE (w \div Ms) * Ms \in Int
      BY SizesAssumption
    <3> QED  BY <1>0, <2>1, <3>2, <3>3, SizesAssumption, DelaysAssumption
             DEF Timeouts, MinWait, Forever
  <2>3. [Top EXCEPT !.pc = "poll", !.left = left] \in Frame
    BY <1>1, <1>17, <2>2 DEF Poll, At, Frame, Pcs
  <2>4. frames' \in Seq(Frame)
    BY <1>0, <1>17, <2>1, <2>3, GotoFacts DEF Poll, At
  <2> QED  BY <1>0, <1>17, <2>4 DEF Poll, TypeOK
<1>18. CASE PollReturn \/ PollInterrupted
  <2>1. frames' \in Seq(Frame)
    BY <1>0, <1>1, <1>18, GotoFacts, FreshType
       DEF PollReturn, PollInterrupted, At, Pcs
  <2> QED  BY <1>0, <1>18, <2>1 DEF PollReturn, PollInterrupted, TypeOK
<1>19. CASE LoopExit
  <2>1. frames' \in Seq(Frame)
    BY <1>0, <1>1, <1>19, GotoFacts, LeaveFacts, FreshType
       DEF LoopExit, At, Pcs
  <2> QED  BY <1>0, <1>19, <2>1 DEF LoopExit, TypeOK
<1>20. CASE Tick
  <2>1. frames' \in Seq(Frame)
    <3>1. CASE At("poll") /\ Top.left > 0
      <4>1. frames # <<>> /\ Goto([Top EXCEPT !.left = Top.left - 1])
        BY <1>0, <1>20, <3>1, TopFacts DEF Tick, Goto, At
      <4>2. [Top EXCEPT !.left = Top.left - 1] \in Frame
        BY <1>1, <4>1 DEF Frame
      <4> QED  BY <1>0, <4>1, <4>2, GotoFacts
    <3>2. CASE ~ (At("poll") /\ Top.left > 0)
      BY <1>0, <1>20, <3>2 DEF Tick
    <3> QED  BY <3>1, <3>2
  <2> QED  BY <1>0, <1>20, <2>1 DEF Tick, TypeOK
<1>21. CASE StepBack
  BY <1>0, <1>21 DEF StepBack, TypeOK
<1>22. CASE Lost \/ UNCHANGED vars
  BY <1>22 DEF Lost, vars, TypeOK
<1> QED  BY <1>2, <1>3, <1>4, <1>5, <1>6, <1>7, <1>8, <1>9, <1>10, <1>11, <1>12,
            <1>13, <1>14, <1>15, <1>16, <1>17, <1>18, <1>19, <1>20, <1>21, <1>22
         DEF Next, SetTimeout, SetInterval, DelayGiven, ClearTimer

\* Every reachable state of the event loop is well typed: in particular the
\* list never counts more timers than it has slots, short of the overrun the
\* code itself reports.
THEOREM TypeCorrect == Spec => []TypeOK
BY TypeInit, TypeStep, PTL DEF Spec
----------------------------------------------------------------------------
(* Control: callbacks do not nest unless they reach eval.                  *)

InRound == frames # <<>> /\ Top.pc = "round"

\* Every activation below the innermost is suspended in its script.
ScriptsBelow == \A i \in 1 .. Len(frames) - 1 : frames[i].pc = "script"

\* A step that leaves the timers alone, and neither ends a round nor starts a
\* callback.
Quiet ==
    /\ UNCHANGED <<timers, gone>>
    /\ CallbackRuns' => CallbackRuns
    /\ InRound => InRound'

\* A script or dispatch arms a timer.
Arms ==
    /\ \E c \in Contexts, delay \in Delays \cup {0}, oneshot \in BOOLEAN :
          AddTimer(c, delay, oneshot)
    /\ ~ InRound
    /\ CallbackRuns' => CallbackRuns

TimerStep ==
    \/ Quiet
    \/ Arms
    \/ \E id \in 0 .. MaxId : DeleteExpiring(id) \/ DeleteListed(id)
    \/ Expire
    \/ Requeue
    \/ RoundEnd

\* Pushing an activation: the one below is in its script.
LEMMA EnterControl ==
    ASSUME TypeOK, ScriptsBelow, ~ CallbackReenters, PerlRuns,
           NEW f \in Frame, f.pc \in {"script", "loop"}, Enter(f)
    PROVE  ScriptsBelow' /\ ~ CallbackRuns' /\ ~ InRound' /\ ~ InRound
<1>1. /\ frames' \in Seq(Frame) /\ Len(frames') = Len(frames) + 1
      /\ frames' # <<>> /\ Last(frames') = f
      /\ \A i \in 1 .. Len(frames) : frames'[i] = frames[i]
  BY EnterFacts DEF TypeOK
<1>2. frames # <<>> => Top.pc = "script" /\ Top = frames[Len(frames)]
  BY TopFacts DEF PerlRuns, At, Top, TypeOK
<1>3. Len(frames) \in Nat /\ (frames = <<>> => Len(frames) = 0)
  BY LenProperties, EmptySeq DEF TypeOK
<1>4. ScriptsBelow'
  BY <1>1, <1>2, <1>3 DEF ScriptsBelow
<1> QED  BY <1>1, <1>2, <1>4 DEF CallbackRuns, InRound, Top

\* Replacing the innermost activation.
LEMMA GotoControl ==
    ASSUME TypeOK, TypeOK', ScriptsBelow, frames # <<>>, NEW f, Goto(f)
    PROVE  ScriptsBelow' /\ frames' # <<>> /\ Top' = f
<1>1. /\ Len(frames) \in Nat \ {0} /\ DOMAIN frames = 1 .. Len(frames)
      /\ Len(frames') \in Nat /\ DOMAIN frames' = 1 .. Len(frames')
  BY TopFacts, LenProperties DEF TypeOK
<1>2. Len(frames') = Len(frames)
  BY <1>1 DEF Goto
<1>3. /\ frames'[Len(frames')] = f
      /\ \A i \in 1 .. Len(frames) - 1 : frames'[i] = frames[i]
  <2>1. frames' = [frames EXCEPT ![Len(frames)] = f]
    BY DEF Goto
  <2>2. Len(frames) \in DOMAIN frames
    BY <1>1
  <2>3. frames'[Len(frames)] = f
    BY <2>1, <2>2
  <2>4. ASSUME NEW i \in 1 .. Len(frames) - 1 PROVE frames'[i] = frames[i]
    <3>1. i \in 1 .. Len(frames) /\ i # Len(frames)
      <4>1. Len(frames) \in Int
        BY <1>1
      <4> QED  BY <4>1
    <3>2. ASSUME NEW j \in DOMAIN frames, j # Len(frames)
          PROVE  [frames EXCEPT ![Len(frames)] = f][j] = frames[j]
      BY <3>2
    <3> QED  BY <1>1, <2>1, <3>1, <3>2
  <2> QED  BY <1>2, <2>3, <2>4
<1>4. frames' # <<>>
  <2>1. Len(<<>>) = 0
    BY EmptySeq
  <2> QED  BY <1>1, <1>2, <2>1
<1> QED  BY <1>2, <1>3, <1>4 DEF ScriptsBelow, Top, Last

\* Popping the innermost activation uncovers a script.
LEMMA LeaveControl ==
    ASSUME TypeOK, ScriptsBelow, frames # <<>>, Leave
    PROVE  ScriptsBelow' /\ ~ CallbackRuns' /\ ~ InRound'
<1>1. /\ frames' \in Seq(Frame) /\ Len(frames') = Len(frames) - 1
      /\ \A i \in 1 .. Len(frames) - 1 : frames'[i] = frames[i]
      /\ Len(frames) \in Nat \ {0}
  BY LeaveFacts, TopFacts DEF TypeOK
<1>2. ScriptsBelow'
  BY <1>1 DEF ScriptsBelow
<1>3. ASSUME frames' # <<>> PROVE Last(frames').pc = "script"
  <2>1. Len(frames') \in 1 .. Len(frames) - 1 /\ Last(frames') = frames'[Len(frames')]
    BY <1>1, <1>3, EmptySeq DEF Last
  <2> QED  BY <1>1, <2>1 DEF ScriptsBelow
<1> QED  BY <1>2, <1>3 DEF CallbackRuns, InRound, Top

\* The steps of the event loop, by what they do to the timers.
LEMMA TimerSteps ==
    ASSUME TypeOK, TypeOK', ScriptsBelow, ~ CallbackReenters, [Next]_vars
    PROVE  ScriptsBelow' /\ TimerStep
<1>1. ASSUME frames # <<>>
      PROVE  Top \in Frame /\ Top.ctx \in Contexts /\ Top.again \in BOOLEAN
  BY <1>1, TopFacts DEF TypeOK, Frame
<1>2. ASSUME NEW c \in Contexts,
             Eval(c) \/ Dispatch(c) \/ DispatchMalformed(c)
      PROVE  ScriptsBelow' /\ TimerStep
  <2>1. PICK f \in Frame : PerlRuns /\ Enter(f) /\ f.pc \in {"script", "loop"}
    <3>1. \A pc \in {"script", "loop"}, again \in BOOLEAN :
             /\ Fresh(c, pc, again) \in Frame
             /\ Fresh(c, pc, again).pc = pc
      BY FreshType DEF Pcs, Fresh
    <3> QED  BY <1>2, <3>1 DEF Eval, Dispatch, DispatchMalformed
  <2>2. ScriptsBelow' /\ ~ CallbackRuns' /\ ~ InRound
    BY <2>1, EnterControl
  <2>3. Quiet \/ Arms
    BY <1>2, <2>2 DEF Eval, Dispatch, DispatchMalformed, Quiet, Arms
  <2> QED  BY <2>2, <2>3 DEF TimerStep
<1>3. CASE ScriptThrow \/ Die
  <2>1. frames # <<>> /\ ~ InRound /\ Leave
    BY <1>3 DEF ScriptThrow, Die, InJavaScript, At, InRound, Top
  <2>2. ScriptsBelow' /\ ~ CallbackRuns'
    BY <2>1, LeaveControl
  <2> QED  BY <1>3, <2>1, <2>2 DEF ScriptThrow, Die, TimerStep, Quiet
<1>4. CASE ScriptReturn \/ PollReturn \/ PollInterrupted
  <2>1. /\ frames # <<>> /\ ~ InRound
        /\ \E again \in BOOLEAN : Goto(Fresh(Top.ctx, "loop", again))
    BY <1>1, <1>4
       DEF ScriptReturn, PollReturn, PollInterrupted, At, InRound, Top
  <2>2. PICK again \in BOOLEAN : Goto(Fresh(Top.ctx, "loop", again))
    BY <2>1
  <2>3. Fresh(Top.ctx, "loop", again) \in Frame
    BY <1>1, <2>1, FreshType DEF Pcs
  <2>4. ScriptsBelow' /\ Top' = Fresh(Top.ctx, "loop", again)
    BY <2>1, <2>2, <2>3, GotoControl
  <2>5. ~ CallbackRuns'
    BY <2>4 DEF CallbackRuns, Fresh
  <2> QED  BY <1>4, <2>1, <2>4, <2>5
           DEF ScriptReturn, PollReturn, PollInterrupted, TimerStep, Quiet
<1>5. ASSUME NEW delay \in Delays \cup {0}, NEW oneshot \in BOOLEAN,
             CreateTimer(delay, oneshot)
      PROVE  ScriptsBelow' /\ TimerStep
  <2>1. frames' = frames /\ frames # <<>> /\ ~ InRound
    BY <1>5 DEF CreateTimer, InJavaScript, At, InRound, Top
  <2>2. Arms
    BY <1>1, <1>5, <2>1 DEF CreateTimer, Arms, CallbackRuns, Top
  <2> QED  BY <2>1, <2>2 DEF ScriptsBelow, TimerStep
<1>6. ASSUME NEW id \in 0 .. MaxId, DeleteExpiring(id) \/ DeleteListed(id)
      PROVE  ScriptsBelow' /\ TimerStep
  BY <1>6 DEF DeleteExpiring, DeleteListed, ScriptsBelow, TimerStep
<1>7. CASE CreateTimerAborts \/ RequeueOverrun \/ StepBack \/ Lost \/ UNCHANGED vars
  <2>1. UNCHANGED <<timers, gone, frames>>
    BY <1>7 DEF CreateTimerAborts, RequeueOverrun, StepBack, Lost, vars
  <2> QED  BY <2>1 DEF ScriptsBelow, TimerStep, Quiet, CallbackRuns, InRound, Top
<1>8. ASSUME NEW f, Goto(f), frames # <<>>
      PROVE  ScriptsBelow' /\ frames' # <<>> /\ Top' = f
  BY <1>8, GotoControl
<1>9. ASSUME NEW f, Goto(f), frames # <<>>, ~ InRound, f.pc # "callback",
             UNCHANGED <<timers, gone>>
      PROVE  ScriptsBelow' /\ TimerStep
  BY <1>8, <1>9 DEF TimerStep, Quiet, CallbackRuns
<1>10. CASE RoundStart
  <2> DEFINE f == [Top EXCEPT !.pc = "round", !.now = clock,
                    !.sanity = MAX_EXPIRIES, !.unserved = Ids(timer_list)]
  <2>1. /\ frames # <<>> /\ ~ InRound /\ Goto(f)
        /\ UNCHANGED <<timers, gone>>
    BY <1>10 DEF RoundStart, At, InRound, Top
  <2>2. f.pc = "round"
    BY <1>1, <2>1 DEF Frame
  <2> HIDE DEF f
  <2> QED  BY <1>9, <2>1, <2>2
<1>11. CASE Expire \/ Requeue \/ RoundEnd
  <2>1. PICK f : Goto(f) /\ frames # <<>>
    BY <1>11 DEF Expire, Requeue, RoundEnd, At
  <2> QED  BY <1>8, <1>11, <2>1 DEF TimerStep
<1>12. CASE CallbackReturn
  <2> DEFINE f == [Top EXCEPT !.pc = "round"]
  <2>1. /\ frames # <<>> /\ ~ InRound /\ Goto(f)
        /\ UNCHANGED <<timers, gone>>
    BY <1>12 DEF CallbackReturn, At, InRound, Top
  <2>2. f.pc = "round"
    BY <1>1, <2>1 DEF Frame
  <2> HIDE DEF f
  <2> QED  BY <1>9, <2>1, <2>2
<1>13. CASE Poll
  <2>1. PICK left : Goto([Top EXCEPT !.pc = "poll", !.left = left])
    BY <1>13 DEF Poll
  <2> DEFINE f == [Top EXCEPT !.pc = "poll", !.left = left]
  <2>2. frames # <<>> /\ ~ InRound /\ UNCHANGED <<timers, gone>>
    BY <1>13 DEF Poll, At, InRound, Top
  <2>3. f.pc = "poll" /\ Goto(f)
    BY <1>1, <2>1, <2>2 DEF Frame
  <2> HIDE DEF f
  <2> QED  BY <1>9, <2>2, <2>3
<1>14. CASE LoopExit
  <2>1. frames # <<>> /\ ~ InRound /\ UNCHANGED <<timers, gone>>
    BY <1>14 DEF LoopExit, At, InRound, Top
  <2>2. CASE Leave
    BY <2>1, <2>2, LeaveControl DEF TimerStep, Quiet
  <2>3. CASE Goto(Fresh(Top.ctx, "loop", FALSE))
    BY <1>9, <2>1, <2>3 DEF Fresh
  <2> QED  BY <1>14, <2>2, <2>3 DEF LoopExit
<1>15. CASE Tick
  <2>1. CASE At("poll") /\ Top.left > 0
    <3> DEFINE f == [Top EXCEPT !.left = Top.left - 1]
    <3>1. frames # <<>> /\ ~ InRound /\ UNCHANGED <<timers, gone>>
      BY <1>15, <2>1 DEF Tick, At, InRound, Top
    <3>2. Goto(f) /\ f.pc = "poll"
      BY <1>1, <1>15, <2>1, <3>1, TopFacts DEF Tick, At, Goto, Top, Frame, TypeOK
    <3> HIDE DEF f
    <3> QED  BY <1>9, <3>1, <3>2
  <2>2. CASE ~ (At("poll") /\ Top.left > 0)
    <3>1. UNCHANGED <<timers, gone, frames>>
      BY <1>15, <2>2 DEF Tick
    <3> QED  BY <3>1
             DEF ScriptsBelow, TimerStep, Quiet, CallbackRuns, InRound, Top
  <2> QED  BY <2>1, <2>2
<1> QED  BY <1>2, <1>3, <1>4, <1>5, <1>6, <1>7, <1>10, <1>11, <1>12, <1>13,
            <1>14, <1>15 DEF Next, SetTimeout, SetInterval, DelayGiven, ClearTimer
----------------------------------------------------------------------------
(* The list stays sorted, as long as no delay is NaN.                      *)

NumericDelays == NaN \notin Delays

IsNumeric(t) == t.target \in Int /\ t.delay \in Int

\* No target and no delay is NaN.
Numeric ==
    /\ \A i \in 1 .. Len(timer_list) : IsNumeric(timer_list[i])
    /\ IsNumeric(timer_expiring)

SortedInv == TypeOK /\ Numeric /\ Sorted

\* Between numbers, LE is the order of the integers.
LEMMA LEIsOrder ==
    ASSUME NEW a \in Int, NEW b \in Int
    PROVE  (LE(a, b) <=> a <= b) /\ (GT(a, b) <=> a > b)
BY DelaysAssumption DEF LE, GT

\* Insertion by PushAndBubble keeps the list sorted and its targets numeric.
LEMMA SortedPush ==
    ASSUME SortedInv, NEW t \in Timer, IsNumeric(t), PushAndBubble(t)
    PROVE  /\ Sorted'
           /\ \A i \in 1 .. Len(timer_list') : IsNumeric(timer_list'[i])
<1> DEFINE s == timer_list
<1>1. s \in Seq(Timer) /\ Len(s) \in Nat /\ DOMAIN s = 1 .. Len(s)
  BY LenProperties DEF SortedInv, TypeOK
<1>2. PICK p \in 1 .. Len(s) + 1 :
         /\ BubbleStop(s, t, p)
         /\ \A i \in 1 .. Len(s) + 1 :
              s'[i] = IF i < p THEN s[i] ELSE IF i = p THEN t ELSE s[i - 1]
  BY <1>1, PushFacts
<1>3. s' \in Seq(Timer) /\ Len(s') = Len(s) + 1 /\ DOMAIN s' = 1 .. Len(s) + 1
  BY <1>1, PushFacts, LenProperties
<1>4. /\ \A i \in 1 .. Len(s) : s[i].target \in Int /\ s[i].delay \in Int
      /\ t.target \in Int /\ t.delay \in Int
  BY DEF SortedInv, Numeric, IsNumeric
<1>5. \A i, j \in 1 .. Len(s) : i < j => s[j].target <= s[i].target
  BY <1>1, <1>4, LEIsOrder DEF SortedInv, Sorted
<1>6. /\ p > 1 => t.target <= s[p - 1].target
      /\ \A j \in p .. Len(s) : s[j].target <= t.target
  BY <1>1, <1>2, <1>4, LEIsOrder DEF BubbleStop
<1>7. ASSUME NEW i \in 1 .. Len(s) + 1, NEW j \in 1 .. Len(s) + 1, i < j
      PROVE  /\ s'[i].target \in Int /\ s'[j].target \in Int
             /\ s'[j].target <= s'[i].target
  <2>1. CASE j < p
    <3>1. /\ s'[i] = s[i] /\ s'[j] = s[j]
          /\ i \in 1 .. Len(s) /\ j \in 1 .. Len(s)
      BY <1>1, <1>2, <1>7, <2>1
    <3> QED  BY <1>4, <1>5, <1>7, <3>1
  <2>2. CASE j = p
    <3>1. /\ s'[i] = s[i] /\ s'[j] = t /\ p > 1
          /\ i \in 1 .. Len(s) /\ p - 1 \in 1 .. Len(s) /\ i <= p - 1
      BY <1>1, <1>2, <1>7, <2>2
    <3>2. s[p - 1].target <= s[i].target
      BY <1>4, <1>5, <3>1
    <3> QED  BY <1>4, <1>6, <3>1, <3>2
  <2>3. CASE j > p
    <3>1. s'[j] = s[j - 1] /\ j - 1 \in 1 .. Len(s) /\ j - 1 \in p .. Len(s)
      BY <1>1, <1>2, <1>7, <2>3
    <3>2. CASE i < p
      <4>1. s'[i] = s[i] /\ i \in 1 .. Len(s) /\ i < j - 1
        BY <1>1, <1>2, <1>7, <2>3, <3>2
      <4> QED  BY <1>4, <1>5, <3>1, <4>1
    <3>3. CASE i = p
      <4>1. s'[i] = t
        BY <1>2, <3>3
      <4> QED  BY <1>4, <1>6, <3>1, <4>1
    <3>4. CASE i > p
      <4>1. s'[i] = s[i - 1] /\ i - 1 \in 1 .. Len(s) /\ i - 1 < j - 1
        BY <1>1, <1>2, <1>7, <3>4
      <4> QED  BY <1>4, <1>5, <3>1, <4>1
    <3> QED  BY <1>1, <1>7, <3>2, <3>3, <3>4
  <2> QED  BY <1>1, <1>7, <2>1, <2>2, <2>3
<1>8. Sorted'
  BY <1>3, <1>7, LEIsOrder DEF Sorted
<1>9. ASSUME NEW i \in 1 .. Len(s) + 1 PROVE IsNumeric(s'[i])
  <2>1. s'[i] = t \/ \E k \in 1 .. Len(s) : s'[i] = s[k]
    <3>1. CASE i < p
      BY <1>1, <1>2, <3>1
    <3>2. CASE i = p
      BY <1>2, <3>2
    <3>3. CASE i > p
      <4>1. i - 1 \in 1 .. Len(s) /\ s'[i] = s[i - 1]
        BY <1>1, <1>2, <3>3
      <4> QED  BY <4>1
    <3> QED  BY <1>1, <3>1, <3>2, <3>3
  <2> QED  BY <1>4, <2>1 DEF IsNumeric
<1> QED  BY <1>3, <1>8, <1>9

\* An empty list is sorted.
LEMMA SortedInit == Init => SortedInv
<1> SUFFICES ASSUME Init PROVE SortedInv
  OBVIOUS
<1>1. TypeOK
  BY TypeInit
<1>2. Len(timer_list) = 0 /\ DOMAIN timer_list = {}
  BY DEF Init
<1>3. Numeric
  BY <1>2 DEF Numeric, IsNumeric, Init, Unused
<1> QED  BY <1>1, <1>2, <1>3 DEF SortedInv, Sorted

\* Only pushes and removals touch the list, and both keep its order.
LEMMA SortedStep ==
    ASSUME NumericDelays, SortedInv, [Next]_vars
    PROVE  SortedInv'
<1>1. TypeOK /\ TypeOK'
  BY TypeStep DEF SortedInv
<1>2. /\ timer_list \in Seq(Timer) /\ Len(timer_list) \in Nat
      /\ DOMAIN timer_list = 1 .. Len(timer_list)
      /\ timer_expiring \in Timer
  BY <1>1, LenProperties DEF TypeOK
<1>3. /\ \A i \in 1 .. Len(timer_list) : IsNumeric(timer_list[i])
      /\ IsNumeric(timer_expiring)
  BY DEF SortedInv, Numeric
<1>4. CASE UNCHANGED <<timer_list, timer_expiring>>
  BY <1>1, <1>4 DEF SortedInv, Numeric, IsNumeric, Sorted
<1>5. ASSUME NEW c \in Contexts, NEW delay \in Delays \cup {0},
             NEW oneshot \in BOOLEAN, AddTimer(c, delay, oneshot)
      PROVE  SortedInv'
  <2> DEFINE t == NewTimer(c, delay, oneshot)
  <2>1. t \in Timer /\ PushAndBubble(t) /\ timer_expiring' = timer_expiring
    BY <1>1, <1>5, NewTimerType DEF AddTimer
  <2>2. IsNumeric(t)
    <3>1. delay \in Int /\ clock \in Int /\ Ms \in Int /\ NaN \notin Int
      BY <1>1, DelaysAssumption, SizesAssumption DEF NumericDelays, TypeOK
    <3>2. Clamped(delay) \in Int
      BY <3>1 DEF Clamped, MinDelay
    <3>3. Plus(clock, Clamped(delay)) \in Int
      BY <3>1, <3>2 DEF Plus
    <3> QED  BY <3>2, <3>3 DEF NewTimer, IsNumeric
  <2> HIDE DEF t
  <2>3. Sorted' /\ \A i \in 1 .. Len(timer_list') : IsNumeric(timer_list'[i])
    BY <2>1, <2>2, SortedPush
  <2> QED  BY <1>1, <1>3, <2>1, <2>3 DEF SortedInv, Numeric, IsNumeric
<1>6. ASSUME NEW id, DeleteExpiring(id) PROVE SortedInv'
  <2>1. /\ timer_list' = timer_list
        /\ timer_expiring' = [timer_expiring EXCEPT !.removed = TRUE]
    BY <1>6 DEF DeleteExpiring
  <2>2. IsNumeric(timer_expiring')
    BY <1>2, <1>3, <2>1 DEF IsNumeric, Timer
  <2> QED  BY <1>1, <1>3, <2>1, <2>2 DEF SortedInv, Numeric, Sorted
<1>7. ASSUME NEW id, DeleteListed(id) PROVE SortedInv'
  <2>1. PICK k \in 1 .. Len(timer_list) : timer_list' = RemoveAt(timer_list, k)
    BY <1>2, <1>7 DEF DeleteListed
  <2>2. /\ Len(timer_list') = Len(timer_list) - 1
        /\ DOMAIN timer_list' = 1 .. Len(timer_list')
        /\ \A i \in 1 .. Len(timer_list) - 1 :
             timer_list'[i] = IF i < k THEN timer_list[i] ELSE timer_list[i + 1]
    BY <1>1, <1>2, <2>1, RemoveAtFacts, LenProperties DEF TypeOK
  <2>3. Sorted'
    <3> SUFFICES ASSUME NEW i \in 1 .. Len(timer_list) - 1,
                        NEW j \in 1 .. Len(timer_list) - 1, i < j
                 PROVE  LE(timer_list'[j].target, timer_list'[i].target)
      BY <2>2 DEF Sorted
    <3> DEFINE from(x) == IF x < k THEN x ELSE x + 1
    <3>1. /\ from(i) \in 1 .. Len(timer_list) /\ from(j) \in 1 .. Len(timer_list)
          /\ from(i) < from(j)
      BY <1>2
    <3>2. timer_list'[i] = timer_list[from(i)] /\ timer_list'[j] = timer_list[from(j)]
      BY <2>2
    <3> HIDE DEF from
    <3> QED  BY <1>2, <3>1, <3>2 DEF SortedInv, Sorted
  <2>4. ASSUME NEW i \in 1 .. Len(timer_list') PROVE IsNumeric(timer_list'[i])
    <3>1. /\ i \in 1 .. Len(timer_list) - 1
          /\ i \in 1 .. Len(timer_list) /\ i + 1 \in 1 .. Len(timer_list)
      BY <1>2, <2>2
    <3> QED  BY <1>3, <2>2, <3>1
  <2>5. timer_expiring' = timer_expiring
    BY <1>7 DEF DeleteListed
  <2> QED  BY <1>1, <1>3, <2>3, <2>4, <2>5 DEF SortedInv, Numeric, IsNumeric
<1>8. CASE Expire
  <2>1. frames # <<>> /\ timer_list # <<>> /\ timer_list' = Front(timer_list)
    BY <1>8 DEF Expire, At, MayExpire
  <2>2. /\ Len(timer_list') = Len(timer_list) - 1
        /\ DOMAIN timer_list' = 1 .. Len(timer_list) - 1
        /\ \A i \in 1 .. Len(timer_list) - 1 : timer_list'[i] = timer_list[i]
        /\ Len(timer_list) \in 1 .. Len(timer_list)
        /\ Last(timer_list) = timer_list[Len(timer_list)]
        /\ Last(timer_list) \in Timer
    <3>1. /\ Len(Front(timer_list)) = Len(timer_list) - 1
          /\ \A i \in 1 .. Len(timer_list) - 1 : Front(timer_list)[i] = timer_list[i]
          /\ Len(timer_list) \in Nat \ {0}
          /\ Last(timer_list) = timer_list[Len(timer_list)]
          /\ Last(timer_list) \in Timer
      BY <1>2, <2>1, FrontFacts
    <3>2. DOMAIN timer_list' = 1 .. Len(timer_list')
      BY <1>1, LenProperties DEF TypeOK
    <3> QED  BY <2>1, <3>1, <3>2
  <2>3. Sorted'
    BY <1>2, <2>2 DEF SortedInv, Sorted
  <2>4. IsNumeric(timer_expiring')
    <3>1. timer_expiring' = Expiring(Last(timer_list)) /\ IsNumeric(Last(timer_list))
      BY <1>3, <1>8, <2>2 DEF Expire
    <3>2. Top.now \in Int
      BY <1>1, <2>1, TopFacts DEF TypeOK, Frame
    <3>3. Plus(Top.now, Last(timer_list).delay) \in Int
      BY <3>1, <3>2, DelaysAssumption DEF Plus, IsNumeric
    <3> QED  BY <2>2, <3>1, <3>3 DEF Expiring, IsNumeric, Timer
  <2>5. \A i \in 1 .. Len(timer_list') : IsNumeric(timer_list'[i])
    BY <1>2, <1>3, <2>2
  <2> QED  BY <1>1, <2>3, <2>4, <2>5 DEF SortedInv, Numeric
<1>9. CASE Requeue
  <2>1. PushAndBubble(timer_expiring) /\ timer_expiring' = timer_expiring
    BY <1>9 DEF Requeue
  <2>2. Sorted' /\ \A i \in 1 .. Len(timer_list') : IsNumeric(timer_list'[i])
    BY <1>2, <1>3, <2>1, SortedPush
  <2> QED  BY <1>1, <1>3, <2>1, <2>2 DEF SortedInv, Numeric, IsNumeric
<1>10. CASE RoundEnd
  <2>1. timer_list' = timer_list /\ timer_expiring' = Unused
    BY <1>10 DEF RoundEnd
  <2> QED  BY <1>1, <1>3, <2>1 DEF SortedInv, Numeric, IsNumeric, Sorted, Unused
<1>11. \/ UNCHANGED <<timer_list, timer_expiring>>
       \/ \E c \in Contexts, delay \in Delays \cup {0}, oneshot \in BOOLEAN :
             AddTimer(c, delay, oneshot)
       \/ \E id : DeleteExpiring(id) \/ DeleteListed(id)
       \/ Expire \/ Requeue \/ RoundEnd
  <2>1. ASSUME NEW delay \in Delays \cup {0}, NEW oneshot \in BOOLEAN,
               CreateTimer(delay, oneshot)
        PROVE  \E c \in Contexts, d \in Delays \cup {0}, o \in BOOLEAN :
                 AddTimer(c, d, o)
    <3>1. Top.ctx \in Contexts
      BY <1>1, <2>1, TopFacts DEF CreateTimer, InJavaScript, At, TypeOK, Frame
    <3> QED  BY <2>1, <3>1 DEF CreateTimer
  <2>2. ASSUME NEW c \in Contexts, Dispatch(c)
        PROVE  AddTimer(c, 0, TRUE)
    BY <2>2 DEF Dispatch
  <2> QED  BY <2>1, <2>2 DEF Next, SetTimeout, SetInterval, DelayGiven, ClearTimer, vars, Eval, DispatchMalformed, ScriptReturn,
             ScriptThrow, Die, CreateTimerAborts, RoundStart, CallbackReturn,
             RequeueOverrun, Poll, PollReturn, PollInterrupted, LoopExit, Tick,
             StepBack, Lost
<1> QED  BY <1>4, <1>5, <1>6, <1>7, <1>8, <1>9, <1>10, <1>11

\* The list is sorted in every reachable state, callbacks that reach eval, subs
\* that die and clocks that go back included, unless a delay is NaN.
THEOREM ListSorted == NumericDelays => (Spec => []Sorted)
<1> SUFFICES ASSUME NumericDelays PROVE Spec => []Sorted
  OBVIOUS
<1>1. SortedInv /\ [Next]_vars => SortedInv'
  BY SortedStep
<1>2. SortedInv => Sorted
  BY DEF SortedInv
<1> QED  BY SortedInit, <1>1, <1>2, PTL DEF Spec
----------------------------------------------------------------------------
(* Identity: no timer is listed twice, revived, empty or lost, as long as   *)
(* callbacks do not reach eval.                                             *)

DistinctIds ==
    \A i, j \in DOMAIN timer_list : timer_list[i].id = timer_list[j].id => i = j

\* What a listed timer is: created, neither cleared nor run, with a function.
Waiting(t) ==
    /\ t.id \in 1 .. timer_next_id - 1
    /\ t.id \notin gone
    /\ ~ t.removed
    /\ t.v8_func \in Contexts

AllWaiting == \A i \in 1 .. Len(timer_list) : Waiting(timer_list[i])

\* timer_expiring is a copy of a listed timer only between the callback of an
\* interval and the next step of the round, when no script runs.
ExpiringApart == InRound \/ timer_expiring.id \notin Ids(timer_list)

\* What the timer whose callback runs is.
RunningOne ==
    CallbackRuns =>
        /\ timer_expiring.id \in 1 .. timer_next_id - 1
        /\ timer_expiring.v8_func \in Contexts
        /\ timer_expiring.removed <=> timer_expiring.id \in gone

IdInv ==
    /\ TypeOK
    /\ ScriptsBelow
    /\ DistinctIds
    /\ AllWaiting
    /\ ExpiringApart
    /\ RunningOne
    /\ gone \subseteq 1 .. timer_next_id - 1
    /\ timer_expiring.id < timer_next_id
    /\ NoEmptyCallback

\* The ids after an insertion.
LEMMA IdsPush ==
    ASSUME TypeOK, NEW t \in Timer, PushAndBubble(t)
    PROVE  /\ Ids(timer_list') = Ids(timer_list) \cup {t.id}
           /\ \A i \in 1 .. Len(timer_list') :
                timer_list'[i] = t \/ \E k \in 1 .. Len(timer_list) :
                                         timer_list'[i] = timer_list[k]
           /\ DistinctIds /\ t.id \notin Ids(timer_list) => DistinctIds'
<1> DEFINE s == timer_list
<1>1. s \in Seq(Timer) /\ Len(s) \in Nat /\ DOMAIN s = 1 .. Len(s)
  BY LenProperties DEF TypeOK
<1>2. PICK p \in 1 .. Len(s) + 1 :
         \A i \in 1 .. Len(s) + 1 :
              s'[i] = IF i < p THEN s[i] ELSE IF i = p THEN t ELSE s[i - 1]
  BY <1>1, PushFacts
<1>3. s' \in Seq(Timer) /\ Len(s') = Len(s) + 1 /\ DOMAIN s' = 1 .. Len(s) + 1
  BY <1>1, PushFacts, LenProperties
<1> HIDE DEF s
<1> DEFINE from(i) == IF i < p THEN i ELSE i - 1
<1>4. ASSUME NEW i \in 1 .. Len(s) + 1
      PROVE  \/ i = p /\ s'[i] = t
             \/ i # p /\ from(i) \in 1 .. Len(s) /\ s'[i] = s[from(i)]
  <2>1. CASE i < p
    BY <1>1, <1>2, <2>1
  <2>2. CASE i = p
    BY <1>2, <2>2
  <2>3. CASE i > p
    BY <1>1, <1>2, <2>3
  <2> QED  BY <1>1, <2>1, <2>2, <2>3
<1>5. ASSUME NEW k \in 1 .. Len(s)
      PROVE  \E i \in 1 .. Len(s) + 1 : s'[i] = s[k]
  <2>1. CASE k < p
    <3>1. k \in 1 .. Len(s) + 1 /\ s'[k] = s[k]
      BY <1>1, <1>2, <2>1
    <3> QED  BY <3>1
  <2>2. CASE k >= p
    <3>1. k + 1 \in 1 .. Len(s) + 1 /\ s'[k + 1] = s[k]
      BY <1>1, <1>2, <2>2
    <3> QED  BY <3>1
  <2> QED  BY <1>1, <2>1, <2>2
<1>6. \A i \in 1 .. Len(s) + 1, j \in 1 .. Len(s) + 1 :
         i # p /\ j # p /\ from(i) = from(j) => i = j
  BY <1>1
<1> HIDE DEF from
<1>7. Ids(s') = Ids(s) \cup {t.id}
  <2>1. \A x : x \in Ids(s') => x \in Ids(s) \cup {t.id}
    BY <1>1, <1>3, <1>4 DEF Ids
  <2>2. \A x : x \in Ids(s) => x \in Ids(s')
    BY <1>1, <1>3, <1>5 DEF Ids
  <2>3. t.id \in Ids(s')
    <3>1. s'[p] = t
      BY <1>2
    <3>2. p \in DOMAIN s'
      BY <1>3
    <3> QED  BY <3>1, <3>2 DEF Ids
  <2> QED  BY <2>1, <2>2, <2>3
<1>8. ASSUME DistinctIds, t.id \notin Ids(s) PROVE DistinctIds'
  <2> SUFFICES ASSUME NEW i \in 1 .. Len(s) + 1, NEW j \in 1 .. Len(s) + 1,
                      s'[i].id = s'[j].id
               PROVE  i = j
    BY <1>3 DEF DistinctIds, s
  <2>1. \A k \in 1 .. Len(s) : s[k].id # t.id
    BY <1>1, <1>8 DEF Ids
  <2>2. \A k, l \in 1 .. Len(s) : s[k].id = s[l].id => k = l
    BY <1>1, <1>8 DEF DistinctIds, s
  <2>3. CASE i = p \/ j = p
    BY <1>4, <2>1, <2>3
  <2>4. CASE i # p /\ j # p
    <3>1. /\ from(i) \in 1 .. Len(s) /\ s'[i] = s[from(i)]
          /\ from(j) \in 1 .. Len(s) /\ s'[j] = s[from(j)]
      BY <1>4, <2>4
    <3>2. from(i) = from(j)
      BY <2>2, <3>1
    <3> QED  BY <1>6, <2>4, <3>2
  <2> QED  BY <2>3, <2>4
<1> QED  BY <1>3, <1>4, <1>7, <1>8 DEF s

\* The ids after a removal.
LEMMA IdsRemove ==
    ASSUME TypeOK, DistinctIds, NEW k \in 1 .. Len(timer_list),
           timer_list' = RemoveAt(timer_list, k)
    PROVE  /\ Ids(timer_list') = Ids(timer_list) \ {timer_list[k].id}
           /\ \A i \in 1 .. Len(timer_list') :
                \E l \in 1 .. Len(timer_list) : timer_list'[i] = timer_list[l]
           /\ DistinctIds'
<1> DEFINE s == timer_list
           from(i) == IF i < k THEN i ELSE i + 1
<1>1. s \in Seq(Timer) /\ Len(s) \in Nat /\ DOMAIN s = 1 .. Len(s)
  BY LenProperties DEF TypeOK
<1>2. /\ s' \in Seq(Timer) /\ Len(s') = Len(s) - 1
      /\ \A i \in 1 .. Len(s) - 1 :
           s'[i] = IF i < k THEN s[i] ELSE s[i + 1]
  BY <1>1, RemoveAtFacts
<1>3. DOMAIN s' = 1 .. Len(s) - 1
  BY <1>2, LenProperties
<1>4. \A i, j \in 1 .. Len(s) : s[i].id = s[j].id => i = j
  BY <1>1 DEF DistinctIds
<1> HIDE DEF s
<1>5. ASSUME NEW i \in 1 .. Len(s) - 1
      PROVE  /\ from(i) \in 1 .. Len(s) /\ from(i) # k
             /\ s'[i] = s[from(i)]
  <2>1. from(i) \in 1 .. Len(s) /\ from(i) # k
    BY <1>1 DEF s
  <2> QED  BY <1>2, <2>1
<1>6. ASSUME NEW l \in 1 .. Len(s), l # k
      PROVE  \E i \in 1 .. Len(s) - 1 : s'[i] = s[l]
  <2>1. k \in 1 .. Len(s)
    BY DEF s
  <2>2. CASE l < k
    <3>1. l \in 1 .. Len(s) - 1 /\ s'[l] = s[l]
      BY <1>1, <1>2, <2>1, <2>2
    <3> QED  BY <3>1
  <2>3. CASE l > k
    <3>1. l - 1 \in 1 .. Len(s) - 1 /\ s'[l - 1] = s[l]
      BY <1>1, <1>2, <2>1, <2>3
    <3> QED  BY <3>1
  <2> QED  BY <1>1, <1>6, <2>1, <2>2, <2>3
<1>7. \A i, j \in 1 .. Len(s) - 1 : from(i) = from(j) => i = j
  BY <1>1 DEF s
<1> HIDE DEF from
<1>8. DistinctIds'
  <2> SUFFICES ASSUME NEW i \in 1 .. Len(s) - 1, NEW j \in 1 .. Len(s) - 1,
                      s'[i].id = s'[j].id
               PROVE  i = j
    BY <1>3 DEF DistinctIds, s
  <2>1. from(i) = from(j)
    BY <1>4, <1>5
  <2> QED  BY <1>7, <2>1
<1>9. Ids(s') = Ids(s) \ {s[k].id}
  <2>1. k \in 1 .. Len(s)
    BY DEF s
  <2>2. \A x : x \in Ids(s') => x \in Ids(s) /\ x # s[k].id
    BY <1>1, <1>3, <1>4, <1>5, <2>1 DEF Ids
  <2>3. \A x : x \in Ids(s) /\ x # s[k].id => x \in Ids(s')
    BY <1>1, <1>3, <1>6 DEF Ids
  <2> QED  BY <2>2, <2>3
<1> QED  BY <1>2, <1>5, <1>8, <1>9 DEF s

\* Taking the last timer is removing it.
LEMMA FrontRemoves ==
    ASSUME NEW S, NEW s \in Seq(S), s # <<>>
    PROVE  Front(s) = RemoveAt(s, Len(s))
<1>1. /\ Front(s) \in Seq(S) /\ Len(Front(s)) = Len(s) - 1
      /\ \A i \in 1 .. Len(s) - 1 : Front(s)[i] = s[i]
      /\ Len(s) \in Nat \ {0}
  BY FrontFacts
<1>2. Len(s) \in 1 .. Len(s)
  BY <1>1
<1>3. /\ RemoveAt(s, Len(s)) \in Seq(S) /\ Len(RemoveAt(s, Len(s))) = Len(s) - 1
      /\ \A i \in 1 .. Len(s) - 1 : RemoveAt(s, Len(s))[i] = s[i]
  <2>1. \A i \in 1 .. Len(s) - 1 : i < Len(s)
    BY <1>1
  <2> QED  BY <1>2, <2>1, RemoveAtFacts
<1> QED  BY <1>1, <1>3, SeqEqual

\* With no timer and no activation, nothing can share an id.
LEMMA IdInit == Init => IdInv
<1> SUFFICES ASSUME Init PROVE IdInv
  OBVIOUS
<1>1. TypeOK
  BY TypeInit
<1>2. /\ Len(timer_list) = 0 /\ DOMAIN timer_list = {} /\ frames = <<>>
      /\ Len(frames) = 0 /\ timer_expiring.id = 0 /\ timer_next_id = 1
      /\ gone = {} /\ fault = "none"
  BY DEF Init, Unused
<1>3. Ids(timer_list) = {}
  BY <1>2 DEF Ids
<1> QED  BY <1>1, <1>2, <1>3 DEF IdInv, ScriptsBelow, DistinctIds, AllWaiting,
            ExpiringApart, RunningOne, CallbackRuns, NoEmptyCallback

\* Only Expire can find an empty function.
LEMMA FaultStep ==
    ASSUME NoEmptyCallback, [Next]_vars, ~ Expire
    PROVE  NoEmptyCallback'
BY DEF NoEmptyCallback, Next, SetTimeout, SetInterval, ClearTimer, vars, Eval, Dispatch, DispatchMalformed,
       ScriptReturn, ScriptThrow, Die, CreateTimer, CreateTimerAborts,
       DeleteExpiring, DeleteListed, RoundStart, CallbackReturn, Requeue,
       RequeueOverrun, RoundEnd, Poll, PollReturn, PollInterrupted, LoopExit,
       Tick, StepBack, Lost

\* Every action keeps identity: ids are given out once, and a timer leaves the list
\* and the slot when it is gone.
LEMMA IdStep ==
    ASSUME ~ CallbackReenters, IdInv, [Next]_vars
    PROVE  IdInv'
<1>1. TypeOK /\ TypeOK' /\ ScriptsBelow' /\ TimerStep
  BY TypeStep, TimerSteps DEF IdInv
<1>2. /\ timer_list \in Seq(Timer) /\ Len(timer_list) \in Nat
      /\ DOMAIN timer_list = 1 .. Len(timer_list)
      /\ timer_list' \in Seq(Timer)
      /\ DOMAIN timer_list' = 1 .. Len(timer_list')
      /\ timer_expiring \in Timer /\ timer_expiring.id \in Nat
      /\ timer_next_id \in Nat \ {0}
  BY <1>1, LenProperties DEF TypeOK, Timer
<1>3. /\ DistinctIds /\ AllWaiting /\ ExpiringApart /\ RunningOne
      /\ gone \subseteq 1 .. timer_next_id - 1
      /\ timer_expiring.id < timer_next_id
  BY DEF IdInv
<1>4. ~ (InRound /\ CallbackRuns)
  BY DEF InRound, CallbackRuns
<1>5. CASE Quiet
  <2>1. ~ Expire
    <3>1. ASSUME Expire PROVE FALSE
      <4>1. timer_list # <<>> /\ timer_list' = Front(timer_list)
        BY <3>1 DEF Expire, MayExpire
      <4>2. Len(timer_list') = Len(timer_list) - 1
        BY <1>2, <4>1, FrontFacts
      <4> QED  BY <1>2, <1>5, <4>2 DEF Quiet
    <3> QED  BY <3>1
  <2>2. NoEmptyCallback'
    BY <2>1, FaultStep DEF IdInv
  <2> QED  BY <1>1, <1>3, <1>5, <2>2
           DEF Quiet, IdInv, DistinctIds, AllWaiting, Waiting, ExpiringApart,
               RunningOne
<1>6. CASE Arms
  <2>1. PICK c \in Contexts, delay \in Delays \cup {0}, oneshot \in BOOLEAN :
           AddTimer(c, delay, oneshot)
    BY <1>6 DEF Arms
  <2> DEFINE t == NewTimer(c, delay, oneshot)
  <2>2. /\ t \in Timer /\ PushAndBubble(t)
        /\ timer_next_id' = timer_next_id + 1
        /\ timer_expiring' = timer_expiring /\ gone' = gone
    BY <1>1, <2>1, NewTimerType DEF AddTimer
  <2>3. t.id = timer_next_id /\ ~ t.removed /\ t.v8_func = c
    BY DEF NewTimer
  <2> HIDE DEF t
  <2>4. \A x \in Ids(timer_list) : x \in 1 .. timer_next_id - 1
    BY <1>2, <1>3 DEF Ids, AllWaiting, Waiting
  <2>5. /\ Ids(timer_list') = Ids(timer_list) \cup {timer_next_id}
        /\ \A i \in 1 .. Len(timer_list') :
             timer_list'[i] = t \/ \E k \in 1 .. Len(timer_list) :
                                      timer_list'[i] = timer_list[k]
        /\ DistinctIds'
    <3>1. timer_next_id \notin Ids(timer_list)
      BY <1>2, <2>4
    <3> QED  BY <1>1, <1>3, <2>2, <2>3, <3>1, IdsPush
  <2>7. \A k \in 1 .. Len(timer_list) : Waiting(timer_list[k])
    BY <1>3 DEF AllWaiting
  <2>8. AllWaiting'
    <3> SUFFICES ASSUME NEW i \in 1 .. Len(timer_list')
                 PROVE  Waiting(timer_list[i])'
      BY DEF AllWaiting
    <3>1. CASE timer_list'[i] = t
      BY <1>2, <1>3, <2>2, <2>3, <3>1 DEF Waiting
    <3>2. ASSUME NEW k \in 1 .. Len(timer_list), timer_list'[i] = timer_list[k]
          PROVE  Waiting(timer_list[i])'
      BY <1>2, <2>2, <2>7, <3>2 DEF Waiting
    <3> QED  BY <2>5, <3>1, <3>2
  <2>9. ExpiringApart'
    BY <1>2, <1>3, <1>6, <2>2, <2>5 DEF ExpiringApart, Arms
  <2>10. RunningOne'
    BY <1>2, <1>3, <1>6, <2>2 DEF RunningOne, Arms
  <2>11. ~ Expire
    BY <1>2, <2>2 DEF Expire
  <2>12. NoEmptyCallback'
    BY <2>11, FaultStep DEF IdInv
  <2> QED  BY <1>1, <1>2, <1>3, <2>2, <2>5, <2>8, <2>9, <2>10, <2>12 DEF IdInv
<1>7. ASSUME NEW id \in 0 .. MaxId, DeleteExpiring(id) PROVE IdInv'
  <2>1. /\ timer_expiring.id = id
        /\ timer_expiring' = [timer_expiring EXCEPT !.removed = TRUE]
        /\ gone' = gone \cup ({id} \ {0})
        /\ UNCHANGED <<timer_list, timer_next_id, frames, fault>>
    BY <1>7 DEF DeleteExpiring
  <2>2. ~ InRound
    BY <1>7 DEF DeleteExpiring, InJavaScript, At, InRound, Top
  <2>3. id \notin Ids(timer_list)
    BY <1>3, <2>1, <2>2 DEF ExpiringApart
  <2>4. /\ timer_expiring'.id = id /\ timer_expiring'.removed
        /\ timer_expiring'.v8_func = timer_expiring.v8_func
    BY <1>2, <2>1 DEF Timer
  <2>5. AllWaiting'
    <3> SUFFICES ASSUME NEW i \in 1 .. Len(timer_list)
                 PROVE  Waiting(timer_list[i])'
      BY <2>1 DEF AllWaiting
    <3>1. timer_list[i].id # id /\ Waiting(timer_list[i])
      BY <1>2, <1>3, <2>3 DEF Ids, AllWaiting
    <3> QED  BY <2>1, <3>1 DEF Waiting
  <2>6. ExpiringApart'
    BY <2>1, <2>3, <2>4 DEF ExpiringApart
  <2>7. RunningOne'
    BY <1>2, <1>3, <2>1, <2>4 DEF RunningOne, CallbackRuns, Top
  <2>8. gone' \subseteq 1 .. timer_next_id' - 1 /\ timer_expiring'.id < timer_next_id'
    BY <1>2, <1>3, <2>1, <2>4
  <2> QED  BY <1>1, <1>3, <2>1, <2>5, <2>6, <2>7, <2>8
           DEF IdInv, DistinctIds, NoEmptyCallback
<1>8. ASSUME NEW id \in 0 .. MaxId, DeleteListed(id) PROVE IdInv'
  <2>1. PICK k \in 1 .. Len(timer_list) :
           timer_list[k].id = id /\ timer_list' = RemoveAt(timer_list, k)
    BY <1>2, <1>8 DEF DeleteListed
  <2>2. /\ timer_expiring.id # id
        /\ gone' = gone \cup ({id} \ {0})
        /\ UNCHANGED <<timer_expiring, timer_next_id, frames, fault>>
    BY <1>8 DEF DeleteListed
  <2>3. /\ Ids(timer_list') = Ids(timer_list) \ {id}
        /\ \A i \in 1 .. Len(timer_list') :
             \E l \in 1 .. Len(timer_list) : timer_list'[i] = timer_list[l]
        /\ DistinctIds'
    BY <1>1, <1>3, <2>1, IdsRemove
  <2>4. id \in 1 .. timer_next_id - 1
    BY <1>3, <2>1 DEF AllWaiting, Waiting
  <2>5. AllWaiting'
    <3> SUFFICES ASSUME NEW i \in 1 .. Len(timer_list')
                 PROVE  Waiting(timer_list[i])'
      BY DEF AllWaiting
    <3>1. PICK l \in 1 .. Len(timer_list) : timer_list'[i] = timer_list[l]
      BY <2>3
    <3>2. timer_list'[i].id \in Ids(timer_list')
      BY <1>2 DEF Ids
    <3>3. timer_list[l].id # id /\ Waiting(timer_list[l])
      BY <1>3, <2>3, <3>1, <3>2 DEF AllWaiting
    <3> QED  BY <2>2, <3>1, <3>3 DEF Waiting
  <2>6. ExpiringApart'
    BY <1>3, <2>2, <2>3 DEF ExpiringApart, InRound, Top
  <2>7. RunningOne'
    BY <1>3, <2>2 DEF RunningOne, CallbackRuns, Top
  <2>8. gone' \subseteq 1 .. timer_next_id' - 1
    BY <1>2, <1>3, <2>2, <2>4
  <2> QED  BY <1>1, <1>3, <2>2, <2>3, <2>5, <2>6, <2>7, <2>8
           DEF IdInv, NoEmptyCallback
<1>9. CASE Expire
  <2> DEFINE t == Last(timer_list)
             n == Len(timer_list)
  <2>1. /\ frames # <<>> /\ timer_list # <<>> /\ timer_list' = Front(timer_list)
        /\ timer_expiring' = Expiring(t)
        /\ gone' = (IF t.oneshot THEN gone \cup {t.id} ELSE gone)
        /\ timer_next_id' = timer_next_id
        /\ \E f : Goto(f)
    BY <1>9 DEF Expire, At, MayExpire
  <2>2. /\ n \in 1 .. n /\ t = timer_list[n] /\ t \in Timer
        /\ timer_list' = RemoveAt(timer_list, n)
    BY <1>2, <2>1, FrontFacts, FrontRemoves
  <2>3. /\ Ids(timer_list') = Ids(timer_list) \ {t.id}
        /\ \A i \in 1 .. Len(timer_list') :
             \E l \in 1 .. Len(timer_list) : timer_list'[i] = timer_list[l]
        /\ DistinctIds'
    BY <1>1, <1>3, <2>2, IdsRemove
  <2>4. Waiting(t)
    BY <1>3, <2>2 DEF AllWaiting
  <2>5. /\ timer_expiring'.id = t.id /\ timer_expiring'.v8_func = t.v8_func
        /\ timer_expiring'.removed = t.oneshot
    BY <2>1, <2>2, <2>4 DEF Expiring, Timer, Waiting
  <2> HIDE DEF t, n
  <2>6. AllWaiting'
    <3> SUFFICES ASSUME NEW i \in 1 .. Len(timer_list')
                 PROVE  Waiting(timer_list[i])'
      BY DEF AllWaiting
    <3>1. PICK l \in 1 .. Len(timer_list) : timer_list'[i] = timer_list[l]
      BY <2>3
    <3>2. timer_list'[i].id \in Ids(timer_list')
      BY <1>2 DEF Ids
    <3>3. timer_list[l].id # t.id /\ Waiting(timer_list[l])
      BY <1>3, <2>3, <3>1, <3>2 DEF AllWaiting
    <3> QED  BY <2>1, <3>1, <3>3 DEF Waiting
  <2>7. ExpiringApart'
    BY <2>3, <2>5 DEF ExpiringApart
  <2>8. RunningOne'
    <3>1. timer_expiring'.removed <=> timer_expiring'.id \in gone'
      BY <2>1, <2>2, <2>4, <2>5 DEF Waiting, Timer
    <3> QED  BY <2>1, <2>4, <2>5, <3>1 DEF RunningOne, Waiting
  <2>9. gone' \subseteq 1 .. timer_next_id' - 1 /\ timer_expiring'.id < timer_next_id'
    <3>1. t.id \in 1 .. timer_next_id - 1
      BY <2>4 DEF Waiting
    <3>2. gone' \subseteq gone \cup {t.id}
      BY <2>1
    <3>3. timer_next_id' = timer_next_id /\ timer_expiring'.id = t.id
      BY <2>1, <2>5
    <3>4. gone' \subseteq 1 .. timer_next_id - 1
      BY <1>3, <3>1, <3>2
    <3>5. t.id < timer_next_id
      BY <1>2, <3>1
    <3> QED  BY <3>3, <3>4, <3>5
  <2>10. NoEmptyCallback'
    <3>1. t.v8_func # NoFunc
      BY <2>4, ContextsAssumption DEF Waiting
    <3>2. fault' = CASE t.v8_func = Top.ctx -> "none"
                     [] t.v8_func = NoFunc  -> "empty_callback"
                     [] OTHER               -> "foreign_callback"
      BY <1>9 DEF Expire, t
    <3> QED  BY <3>1, <3>2 DEF NoEmptyCallback
  <2> QED  BY <1>1, <2>3, <2>6, <2>7, <2>8, <2>9, <2>10 DEF IdInv
<1>10. CASE Requeue
  <2>1. /\ CallbackRuns /\ ~ timer_expiring.removed
        /\ PushAndBubble(timer_expiring)
        /\ UNCHANGED <<timer_expiring, timer_next_id, gone, fault>>
        /\ frames # <<>> /\ Goto([Top EXCEPT !.pc = "round"])
    BY <1>10 DEF Requeue, At, CallbackRuns, Top
  <2>2. timer_expiring.id \notin Ids(timer_list) /\ Waiting(timer_expiring)
    BY <1>3, <1>4, <2>1 DEF ExpiringApart, RunningOne, Waiting
  <2>3. /\ Ids(timer_list') = Ids(timer_list) \cup {timer_expiring.id}
        /\ \A i \in 1 .. Len(timer_list') :
             \/ timer_list'[i] = timer_expiring
             \/ \E k \in 1 .. Len(timer_list) : timer_list'[i] = timer_list[k]
        /\ DistinctIds'
    BY <1>1, <1>2, <1>3, <2>1, <2>2, IdsPush
  <2>4. Top' = [Top EXCEPT !.pc = "round"] /\ frames' # <<>>
    BY <1>1, <2>1, GotoControl DEF IdInv
  <2>5. InRound' /\ ~ CallbackRuns'
    <3>1. Top \in Frame
      BY <1>1, <2>1, TopFacts DEF TypeOK
    <3> QED  BY <2>4, <3>1 DEF InRound, CallbackRuns, Frame
  <2>6. AllWaiting'
    BY <1>3, <2>1, <2>2, <2>3 DEF AllWaiting, Waiting
  <2> QED  BY <1>1, <1>3, <2>1, <2>3, <2>5, <2>6
           DEF IdInv, ExpiringApart, RunningOne, NoEmptyCallback
<1>11. CASE RoundEnd
  <2>1. /\ timer_expiring' = Unused
        /\ UNCHANGED <<timer_list, timer_next_id, gone, fault>>
        /\ frames # <<>> /\ Goto(Fresh(Top.ctx, "wait", Top.again))
    BY <1>11 DEF RoundEnd, At
  <2>2. Top' = Fresh(Top.ctx, "wait", Top.again)
    BY <1>1, <2>1, GotoControl DEF IdInv
  <2>3. ~ CallbackRuns'
    BY <2>2 DEF CallbackRuns, Fresh
  <2>4. timer_expiring'.id = 0 /\ 0 \notin Ids(timer_list)
    BY <1>2, <1>3, <2>1 DEF Unused, Ids, AllWaiting, Waiting
  <2> QED  BY <1>1, <1>2, <1>3, <2>1, <2>3, <2>4
           DEF IdInv, ExpiringApart, RunningOne, AllWaiting, Waiting,
               DistinctIds, NoEmptyCallback
<1> QED  BY <1>1, <1>5, <1>6, <1>7, <1>8, <1>9, <1>10, <1>11 DEF TimerStep

\* A cleared timer and a one-shot that ran never come back, whatever the
\* callbacks of a round clear or arm, subs that die included.
THEOREM NoTimerRevived == ~ CallbackReenters => (Spec => []NoZombie)
<1> SUFFICES ASSUME ~ CallbackReenters PROVE Spec => []NoZombie
  OBVIOUS
<1>1. IdInv /\ [Next]_vars => IdInv'
  BY IdStep
<1>2. IdInv => NoZombie
  <2> SUFFICES ASSUME IdInv PROVE NoZombie
    OBVIOUS
  <2>1. DOMAIN timer_list = 1 .. Len(timer_list)
    BY LenProperties DEF IdInv, TypeOK
  <2>2. Ids(timer_list) \cap gone = {}
    BY <2>1 DEF IdInv, AllWaiting, Waiting, Ids
  <2>3. CallbackRuns => timer_expiring.id \notin Ids(timer_list)
    BY DEF IdInv, ExpiringApart, InRound, CallbackRuns
  <2> QED  BY <2>2, <2>3 DEF IdInv, DistinctIds, RunningOne, NoZombie
<1> QED  BY IdInit, <1>1, <1>2, PTL DEF Spec

\* The loop never calls an empty function, as long as callbacks do not reach
\* eval (ReenteredCallback.cfg shows that it does when they can).
THEOREM NoEmptyFunction == ~ CallbackReenters => (Spec => []NoEmptyCallback)
<1> SUFFICES ASSUME ~ CallbackReenters PROVE Spec => []NoEmptyCallback
  OBVIOUS
<1>1. IdInv /\ [Next]_vars => IdInv'
  BY IdStep
<1>2. IdInv => NoEmptyCallback
  BY DEF IdInv
<1> QED  BY IdInit, <1>1, <1>2, PTL DEF Spec

KeepInv == IdInv /\ NoLostTimer

\* A callback that is running goes on, or ends by its return, unless a Perl sub
\* it called dies.
LEMMA CallbackKept ==
    ASSUME ~ CallbackReenters, ~ PerlMayDie, IdInv, [Next]_vars, CallbackRuns
    PROVE  CallbackRuns' \/ CallbackReturn \/ Requeue
<1>1. /\ frames # <<>> /\ Top.pc = "callback" /\ TypeOK /\ ScriptsBelow /\ TypeOK'
  BY TypeStep DEF CallbackRuns, IdInv
<1>2. \A pc \in Pcs : At(pc) => pc = "callback"
  BY <1>1 DEF At, Top
<1>3. ~ PerlRuns
  BY <1>1, <1>2 DEF PerlRuns, Pcs
<1>4. /\ ~ At("script") /\ ~ At("loop") /\ ~ At("round") /\ ~ At("wait")
      /\ ~ At("poll")
  BY <1>2 DEF Pcs
<1>5. frames' = frames \/ CallbackReturn \/ Requeue
  BY <1>3, <1>4 DEF Next, SetTimeout, SetInterval, DelayGiven, ClearTimer, vars, Eval, Dispatch, DispatchMalformed, ScriptReturn,
     ScriptThrow, Die, CreateTimer, CreateTimerAborts, DeleteExpiring,
     DeleteListed, RoundStart, Expire, RequeueOverrun, RoundEnd, Poll,
     PollReturn, PollInterrupted, LoopExit, Tick, StepBack, Lost
<1> QED  BY <1>1, <1>5 DEF CallbackRuns, Top

\* No action loses a timer that is armed, as long as no callback reaches eval and no
\* sub dies.
LEMMA KeepStep ==
    ASSUME ~ CallbackReenters, ~ PerlMayDie, KeepInv, [Next]_vars
    PROVE  KeepInv'
<1>1. /\ IdInv /\ IdInv' /\ TypeOK /\ TypeOK' /\ ScriptsBelow /\ TimerStep
  BY IdStep, TypeStep, TimerSteps DEF KeepInv, IdInv
<1>2. /\ timer_list \in Seq(Timer) /\ timer_expiring \in Timer
      /\ timer_next_id \in Nat \ {0}
  BY <1>1 DEF TypeOK
<1> SUFFICES ASSUME NEW id \in 1 .. timer_next_id' - 1
             PROVE  \/ id \in gone' \/ id \in Ids(timer_list')
                    \/ (CallbackRuns' /\ id = timer_expiring'.id)
  BY <1>1 DEF KeepInv, NoLostTimer
<1>3. id \in 1 .. timer_next_id - 1 =>
         \/ id \in gone \/ id \in Ids(timer_list)
         \/ CallbackRuns /\ id = timer_expiring.id
  BY DEF KeepInv, NoLostTimer
<1>4. CallbackRuns => CallbackRuns' \/ CallbackReturn \/ Requeue
  BY <1>1, CallbackKept
<1>5. ASSUME CallbackRuns, CallbackReturn PROVE timer_expiring.id \in gone
  BY <1>1, <1>5 DEF CallbackReturn, IdInv, RunningOne
<1>6. CASE Quiet
  <2>1. ASSUME CallbackRuns, Requeue PROVE FALSE
    <3>1. Len(timer_list') = Len(timer_list) + 1 /\ timer_list' = timer_list
      BY <1>2, <1>6, <2>1, PushFacts DEF Requeue, Quiet
    <3> QED  BY <1>2, <3>1, LenProperties
  <2> QED  BY <1>3, <1>4, <1>5, <1>6, <2>1 DEF Quiet
<1>7. CASE Arms
  <2>1. PICK c \in Contexts, delay \in Delays \cup {0}, oneshot \in BOOLEAN :
           AddTimer(c, delay, oneshot)
    BY <1>7 DEF Arms
  <2> DEFINE t == NewTimer(c, delay, oneshot)
  <2>2. /\ t \in Timer /\ PushAndBubble(t)
        /\ timer_next_id' = timer_next_id + 1
        /\ timer_expiring' = timer_expiring /\ gone' = gone
    BY <1>1, <2>1, NewTimerType DEF AddTimer
  <2>3. t.id = timer_next_id
    BY DEF NewTimer
  <2> HIDE DEF t
  <2>4. Ids(timer_list') = Ids(timer_list) \cup {timer_next_id}
    BY <1>1, <2>2, <2>3, IdsPush
  <2>5. ~ CallbackReturn /\ ~ Requeue
    BY <1>2, <2>2 DEF CallbackReturn, Requeue
  <2>6. id = timer_next_id \/ id \in 1 .. timer_next_id - 1
    BY <1>2, <2>2
  <2> QED  BY <1>3, <1>4, <2>2, <2>4, <2>5, <2>6
<1>8. ASSUME NEW d \in 0 .. MaxId, DeleteExpiring(d)
      PROVE  \/ id \in gone' \/ id \in Ids(timer_list')
             \/ (CallbackRuns' /\ id = timer_expiring'.id)
  <2>1. /\ timer_expiring' = [timer_expiring EXCEPT !.removed = TRUE]
        /\ gone \subseteq gone'
        /\ UNCHANGED <<timer_list, timer_next_id, frames>>
    BY <1>8 DEF DeleteExpiring
  <2>2. timer_expiring'.id = timer_expiring.id
    BY <1>2, <2>1 DEF Timer
  <2> QED  BY <1>3, <2>1, <2>2 DEF CallbackRuns, Top
<1>9. ASSUME NEW d \in 0 .. MaxId, DeleteListed(d)
      PROVE  \/ id \in gone' \/ id \in Ids(timer_list')
             \/ (CallbackRuns' /\ id = timer_expiring'.id)
  <2>1. PICK k \in 1 .. Len(timer_list) :
           timer_list[k].id = d /\ timer_list' = RemoveAt(timer_list, k)
    BY <1>2, <1>9, LenProperties DEF DeleteListed
  <2>2. Ids(timer_list') = Ids(timer_list) \ {d}
    BY <1>1, <2>1, IdsRemove DEF IdInv
  <2>3. /\ gone' = gone \cup ({d} \ {0})
        /\ UNCHANGED <<timer_expiring, timer_next_id, frames>>
    BY <1>9 DEF DeleteListed
  <2>4. id # 0 /\ id \in 1 .. timer_next_id - 1
    BY <2>3
  <2> QED  BY <1>3, <2>2, <2>3, <2>4 DEF CallbackRuns, Top
<1>10. CASE Expire
  <2> DEFINE t == Last(timer_list)
  <2>1. /\ timer_list # <<>> /\ timer_list' = Front(timer_list)
        /\ timer_expiring' = Expiring(t) /\ gone \subseteq gone'
        /\ timer_next_id' = timer_next_id
        /\ frames # <<>> /\ ~ CallbackRuns
    BY <1>10 DEF Expire, At, MayExpire, CallbackRuns, Top
  <2>2. PICK f : Goto(f) /\ f.pc = "callback"
    <3>1. Top \in Frame
      BY <1>1, <2>1, TopFacts DEF TypeOK
    <3> DEFINE g == [Top EXCEPT !.pc = "callback", !.sanity = Top.sanity - 1,
                                !.unserved = Top.unserved \ {t.id}]
    <3>2. Goto(g)
      BY <1>10 DEF Expire
    <3>3. g.pc = "callback"
      BY <3>1 DEF Frame
    <3> HIDE DEF g
    <3> QED  BY <3>2, <3>3
  <2>3. CallbackRuns'
    BY <1>1, <2>1, <2>2, GotoControl DEF CallbackRuns
  <2>4. /\ Len(timer_list) \in 1 .. Len(timer_list) /\ t \in Timer
        /\ t = timer_list[Len(timer_list)]
        /\ timer_list' = RemoveAt(timer_list, Len(timer_list))
    BY <1>2, <2>1, FrontFacts, FrontRemoves
  <2>5. Ids(timer_list') = Ids(timer_list) \ {t.id}
    BY <1>1, <2>4, IdsRemove DEF IdInv
  <2>6. timer_expiring'.id = t.id
    BY <2>1, <2>4 DEF Expiring, Timer
  <2> QED  BY <1>3, <2>1, <2>3, <2>5, <2>6
<1>11. CASE Requeue
  <2>1. Ids(timer_list') = Ids(timer_list) \cup {timer_expiring.id}
    BY <1>1, <1>2, <1>11, IdsPush DEF Requeue
  <2> QED  BY <1>3, <1>11, <2>1 DEF Requeue
<1>12. CASE RoundEnd
  <2>1. ~ CallbackRuns
    BY <1>12 DEF RoundEnd, At, CallbackRuns, Top
  <2> QED  BY <1>3, <1>12, <2>1 DEF RoundEnd
<1> QED  BY <1>1, <1>6, <1>7, <1>8, <1>9, <1>10, <1>11, <1>12 DEF TimerStep

\* No timer is lost, as long as callbacks do not reach eval and no Perl sub
\* dies (DyingCallback.cfg shows the interval that a dying sub loses).
THEOREM NoTimerLost ==
    ~ CallbackReenters /\ ~ PerlMayDie => (Spec => []NoLostTimer)
<1> SUFFICES ASSUME ~ CallbackReenters, ~ PerlMayDie
             PROVE  Spec => []NoLostTimer
  OBVIOUS
<1>1. Init => KeepInv
  <2>1. Init => NoLostTimer
    BY DEF Init, NoLostTimer
  <2> QED  BY <2>1, IdInit DEF KeepInv
<1>2. KeepInv /\ [Next]_vars => KeepInv'
  BY KeepStep
<1>3. KeepInv => NoLostTimer
  BY DEF KeepInv
<1> QED  BY <1>1, <1>2, <1>3, PTL DEF Spec
----------------------------------------------------------------------------
(* Rounds.                                                                 *)

\* A round that stops before its sanity limit has run every timer that was due
\* when it began.
THEOREM RoundsComplete == NumericDelays => (Spec => RoundComplete)
<1> SUFFICES ASSUME NumericDelays PROVE Spec => RoundComplete
  OBVIOUS
<1>1. SortedInv /\ [Next]_vars => SortedInv'
  BY SortedStep
<1>2. ASSUME SortedInv, RoundEnd, Top.sanity > 0, NEW i \in DOMAIN timer_list
      PROVE  GT(timer_list[i].target, Top.now)
  <2>1. /\ timer_list \in Seq(Timer) /\ Len(timer_list) \in Nat
        /\ DOMAIN timer_list = 1 .. Len(timer_list)
    BY <1>2, LenProperties DEF SortedInv, TypeOK
  <2>2. i \in 1 .. Len(timer_list) /\ Len(timer_list) \in 1 .. Len(timer_list)
        /\ timer_list # <<>>
    BY <1>2, <2>1, EmptySeq
  <2>3. GT(timer_list[Len(timer_list)].target, Top.now)
    BY <1>2, <2>2 DEF RoundEnd, MayExpire, Last
  <2>4. /\ timer_list[i].target \in Int
        /\ timer_list[Len(timer_list)].target \in Int /\ Top.now \in Int
    BY <1>2, <2>2, TopFacts
       DEF SortedInv, Numeric, IsNumeric, TypeOK, RoundEnd, At, Frame
  <2>5. i # Len(timer_list) =>
           LE(timer_list[Len(timer_list)].target, timer_list[i].target)
    BY <1>2, <2>1, <2>2 DEF SortedInv, Sorted
  <2> QED  BY <2>3, <2>4, <2>5, LEIsOrder
<1>3. SortedInv /\ [Next]_vars =>
         [RoundEnd /\ Top.sanity > 0 =>
             \A i \in DOMAIN timer_list : GT(timer_list[i].target, Top.now)]_vars
  BY <1>2
<1> QED  BY SortedInit, <1>1, <1>3, PTL DEF Spec, RoundComplete

\* A time rounded down to whole milliseconds.
LEMMA WholeMs ==
    ASSUME NEW m \in Nat \ {0}, NEW w \in Int, w >= m
    PROVE  /\ (w \div m) * m \in Int
           /\ m <= (w \div m) * m
           /\ (w \div m) * m <= w
<1> DEFINE q == w \div m
           r == w % m
<1>1. q \in Int /\ r \in 0 .. m - 1 /\ w = m * q + r
  OBVIOUS
<1> HIDE DEF q, r
<1>2. q >= 1
  <2> SUFFICES ASSUME q <= 0 PROVE FALSE
    BY <1>1
  <2>1. m * q <= 0
    BY <1>1
  <2> QED  BY <1>1, <2>1
<1>3. q * m = m * q /\ m * q >= m /\ m * q \in Int
  BY <1>1, <1>2
<1>4. q * m \in Int /\ m <= q * m /\ q * m <= w
  BY <1>1, <1>3
<1> QED  BY <1>4 DEF q

\* The time poll() is given for a target that is a number.
LEMMA TimeoutFits ==
    ASSUME NEW target \in Int, NEW left \in Timeouts(target), clock \in Nat,
           target # NaN
    PROVE  left \in Int /\ left >= Ms /\ (left <= Ms \/ clock + left <= target)
<1> DEFINE diff == target - clock
           wait == IF diff < MinWait THEN MinWait
                   ELSE IF diff > MAX_WAIT THEN MAX_WAIT ELSE diff
<1>1. Ms \in Nat \ {0} /\ MAX_WAIT \in Nat /\ MAX_WAIT >= Ms /\ MinWait = Ms
  BY SizesAssumption DEF MinWait
<1>2. diff \in Int
  OBVIOUS
<1>3. wait \in Int /\ wait >= Ms
  BY <1>1, <1>2
<1>4. left = (wait \div Ms) * Ms
  BY DEF Timeouts
<1>5. left \in Int /\ Ms <= left /\ left <= wait
  BY <1>1, <1>3, <1>4, WholeMs
<1>6. wait <= Ms \/ wait <= diff
  BY <1>1, <1>2
<1> HIDE DEF wait
<1>7. left <= Ms \/ left <= diff
  BY <1>1, <1>2, <1>3, <1>5, <1>6
<1>8. clock \in Int /\ Ms \in Int
  BY <1>1
<1> QED  BY <1>5, <1>7, <1>8

\* poll() waits a millisecond at least, and past no target by more than that.
THEOREM NeverOversleeps == NumericDelays => (Spec => NoOversleep)
<1> SUFFICES ASSUME NumericDelays PROVE Spec => NoOversleep
  OBVIOUS
<1>1. SortedInv /\ [Next]_vars => SortedInv'
  BY SortedStep
<1>2. ASSUME SortedInv, Poll
      PROVE  LET left == Last(frames').left
             IN  /\ left >= MinWait
                 /\ \A i \in DOMAIN timer_list :
                       \/ left <= MinWait
                       \/ clock + left <= timer_list[i].target
  <2> DEFINE last == timer_list[Len(timer_list)].target
  <2>1. /\ timer_list \in Seq(Timer) /\ timer_list # <<>>
        /\ frames \in Seq(Frame) /\ frames # <<>> /\ clock \in Nat
    BY <1>2 DEF SortedInv, TypeOK, Poll, At
  <2>2. /\ Len(timer_list) \in 1 .. Len(timer_list)
        /\ DOMAIN timer_list = 1 .. Len(timer_list)
    BY <2>1, EmptySeq, LenProperties
  <2>3. last \in Int /\ last # NaN
    BY <1>2, <2>2, DelaysAssumption DEF SortedInv, Numeric, IsNumeric
  <2>4. PICK left \in Timeouts(last) :
           Goto([Top EXCEPT !.pc = "poll", !.left = left])
    BY <1>2 DEF Poll, Last
  <2>5. left \in Int /\ left >= Ms /\ (left <= Ms \/ clock + left <= last)
    BY <2>1, <2>3, TimeoutFits
  <2>6. Last(frames').left = left
    <3>1. Top \in Frame
      BY <2>1, TopFacts
    <3>2. [Top EXCEPT !.pc = "poll", !.left = left] \in Frame
      BY <2>5, <3>1 DEF Frame, Pcs
    <3>3. Last(frames') = [Top EXCEPT !.pc = "poll", !.left = left]
      BY <2>1, <2>4, <3>2, GotoFacts
    <3> QED  BY <3>1, <3>3 DEF Frame
  <2>7. ASSUME NEW i \in DOMAIN timer_list
        PROVE  left <= Ms \/ clock + left <= timer_list[i].target
    <3>1. timer_list[i].target \in Int
      BY <1>2, <2>2, <2>7 DEF SortedInv, Numeric, IsNumeric
    <3>2. i # Len(timer_list) => LE(last, timer_list[i].target)
      BY <1>2, <2>2, <2>7 DEF SortedInv, Sorted
    <3>3. last <= timer_list[i].target
      BY <2>3, <3>1, <3>2 DEF LE
    <3>4. clock \in Int
      BY <2>1
    <3> HIDE DEF last
    <3> QED  BY <2>3, <2>5, <3>1, <3>3, <3>4
  <2> QED  BY <2>5, <2>6, <2>7 DEF MinWait
<1>3. SortedInv /\ [Next]_vars =>
         [Poll => LET left == Last(frames').left
                  IN  /\ left >= MinWait
                      /\ \A i \in DOMAIN timer_list :
                            \/ left <= MinWait
                            \/ clock + left <= timer_list[i].target]_vars
  BY <1>2
<1> QED  BY SortedInit, <1>1, <1>3, PTL DEF Spec, NoOversleep

\* The listed timers, and the one whose callback runs, have a delay.
PositiveDelays ==
    /\ \A i \in 1 .. Len(timer_list) : timer_list[i].delay >= 1
    /\ CallbackRuns => timer_expiring.delay >= 1

\* During a round the clock is not behind the reading the round goes by, a
\* listed timer that is due by it was listed when the round began and has not
\* run since, and the interval whose callback runs is not due any more.
RoundInv ==
    InRound \/ CallbackRuns =>
        /\ Top.now <= clock
        /\ \A i \in 1 .. Len(timer_list) :
              timer_list[i].target <= Top.now => timer_list[i].id \in Top.unserved
        /\ CallbackRuns /\ ~ timer_expiring.removed =>
              timer_expiring.target > Top.now

OnceInv == IdInv /\ SortedInv /\ PositiveDelays /\ RoundInv

\* A new timer has a delay, and is due later than now.
LEMMA NewTimerLater ==
    ASSUME NumericDelays, TypeOK, NEW c \in Contexts,
           NEW delay \in Delays \cup {0}, NEW oneshot \in BOOLEAN
    PROVE  LET t == NewTimer(c, delay, oneshot)
           IN  t.delay \in Int /\ t.delay >= 1 /\ t.target \in Int /\ t.target > clock
<1>1. delay \in Int /\ clock \in Int /\ Ms \in Nat \ {0} /\ NaN \notin Int
  BY DelaysAssumption, SizesAssumption DEF NumericDelays, TypeOK
<1>2. Clamped(delay) \in Int /\ Clamped(delay) >= 1
  BY <1>1 DEF Clamped, MinDelay
<1>3. Plus(clock, Clamped(delay)) = clock + Clamped(delay)
  BY <1>1, <1>2 DEF Plus
<1> QED  BY <1>1, <1>2, <1>3 DEF NewTimer

\* The steps by which the innermost activation is neither in a round nor in a
\* callback afterwards.
LEMMA OutOfRound ==
    ASSUME ~ CallbackReenters, TypeOK, TypeOK', ScriptsBelow,
           \/ \E c \in Contexts : Eval(c) \/ Dispatch(c) \/ DispatchMalformed(c)
           \/ ScriptReturn \/ ScriptThrow \/ Die \/ RoundEnd \/ Poll
           \/ PollReturn \/ PollInterrupted \/ LoopExit
    PROVE  ~ InRound' /\ ~ CallbackRuns'
<1>1. ASSUME frames # <<>>
      PROVE  Top \in Frame /\ Top.ctx \in Contexts /\ Top.again \in BOOLEAN
  BY <1>1, TopFacts DEF TypeOK, Frame
<1>2. ASSUME NEW c \in Contexts,
             Eval(c) \/ Dispatch(c) \/ DispatchMalformed(c)
      PROVE  ~ InRound' /\ ~ CallbackRuns'
  <2>1. PICK f \in Frame : PerlRuns /\ Enter(f) /\ f.pc \in {"script", "loop"}
    <3>1. \A pc \in {"script", "loop"}, again \in BOOLEAN :
             /\ Fresh(c, pc, again) \in Frame
             /\ Fresh(c, pc, again).pc = pc
      BY FreshType DEF Pcs, Fresh
    <3> QED  BY <1>2, <3>1 DEF Eval, Dispatch, DispatchMalformed
  <2> QED  BY <2>1, EnterControl
<1>3. ASSUME frames # <<>>, Leave PROVE ~ InRound' /\ ~ CallbackRuns'
  BY <1>3, LeaveControl
<1>4. ASSUME NEW f, frames # <<>>, Goto(f), f.pc \notin {"round", "callback"}
      PROVE  ~ InRound' /\ ~ CallbackRuns'
  BY <1>4, GotoControl DEF InRound, CallbackRuns
<1>5. CASE ScriptThrow \/ Die
  BY <1>3, <1>5 DEF ScriptThrow, Die, InJavaScript, At
<1>6. CASE ScriptReturn \/ PollReturn \/ PollInterrupted \/ RoundEnd
  BY <1>4, <1>6
     DEF ScriptReturn, PollReturn, PollInterrupted, RoundEnd, At, Fresh
<1>7. CASE LoopExit
  BY <1>3, <1>4, <1>7 DEF LoopExit, At, Fresh
<1>8. CASE Poll
  <2>1. PICK left : Goto([Top EXCEPT !.pc = "poll", !.left = left])
    BY <1>8 DEF Poll
  <2> DEFINE f == [Top EXCEPT !.pc = "poll", !.left = left]
  <2>2. f.pc = "poll" /\ Goto(f) /\ frames # <<>>
    BY <1>1, <1>8, <2>1 DEF Frame, Poll, At
  <2> HIDE DEF f
  <2> QED  BY <1>4, <2>2
<1> QED  BY <1>2, <1>5, <1>6, <1>7, <1>8

\* Timers are armed with the delays that the JavaScript side has clamped.
LEMMA PositiveStep ==
    ASSUME ~ CallbackReenters, NumericDelays, IdInv, SortedInv, PositiveDelays,
           [Next]_vars
    PROVE  PositiveDelays'
<1>1. TypeOK /\ TypeOK' /\ ScriptsBelow /\ TimerStep
  BY TypeStep, TimerSteps DEF IdInv
<1>2. /\ timer_list \in Seq(Timer) /\ timer_expiring \in Timer
      /\ Len(timer_list) \in Nat
  BY <1>1, LenProperties DEF TypeOK
<1>3. CASE Quiet
  BY <1>3 DEF Quiet, PositiveDelays
<1>4. CASE Arms
  <2>1. PICK c \in Contexts, delay \in Delays \cup {0}, oneshot \in BOOLEAN :
           AddTimer(c, delay, oneshot)
    BY <1>4 DEF Arms
  <2> DEFINE t == NewTimer(c, delay, oneshot)
  <2>2. /\ t \in Timer /\ PushAndBubble(t) /\ timer_expiring' = timer_expiring
        /\ t.delay >= 1
    BY <1>1, <2>1, NewTimerType, NewTimerLater DEF AddTimer
  <2> HIDE DEF t
  <2>3. \A i \in 1 .. Len(timer_list') :
           timer_list'[i] = t \/ \E k \in 1 .. Len(timer_list) :
                                    timer_list'[i] = timer_list[k]
    BY <1>1, <2>2, IdsPush
  <2> QED  BY <1>4, <2>2, <2>3 DEF Arms, PositiveDelays
<1>5. ASSUME NEW d \in 0 .. MaxId, DeleteExpiring(d) PROVE PositiveDelays'
  <2>1. /\ timer_expiring' = [timer_expiring EXCEPT !.removed = TRUE]
        /\ UNCHANGED <<timer_list, frames>>
    BY <1>5 DEF DeleteExpiring
  <2>2. timer_expiring'.delay = timer_expiring.delay
    BY <1>2, <2>1 DEF Timer
  <2> QED  BY <2>1, <2>2 DEF PositiveDelays, CallbackRuns, Top
<1>6. ASSUME NEW d \in 0 .. MaxId, DeleteListed(d) PROVE PositiveDelays'
  <2>1. PICK k \in 1 .. Len(timer_list) : timer_list' = RemoveAt(timer_list, k)
    BY <1>2, <1>6, LenProperties DEF DeleteListed
  <2>2. \A i \in 1 .. Len(timer_list') :
           \E l \in 1 .. Len(timer_list) : timer_list'[i] = timer_list[l]
    BY <1>1, <2>1, IdsRemove DEF IdInv
  <2>3. UNCHANGED <<timer_expiring, frames>>
    BY <1>6 DEF DeleteListed
  <2> QED  BY <2>2, <2>3 DEF PositiveDelays, CallbackRuns, Top
<1>7. CASE Expire
  <2> DEFINE t == Last(timer_list)
  <2>1. /\ timer_list # <<>> /\ timer_list' = Front(timer_list)
        /\ timer_expiring' = Expiring(t)
    BY <1>7 DEF Expire, MayExpire
  <2>2. /\ Len(timer_list) \in 1 .. Len(timer_list) /\ t \in Timer
        /\ t = timer_list[Len(timer_list)]
        /\ timer_list' = RemoveAt(timer_list, Len(timer_list))
    BY <1>2, <2>1, FrontFacts, FrontRemoves
  <2>3. \A i \in 1 .. Len(timer_list') :
           \E l \in 1 .. Len(timer_list) : timer_list'[i] = timer_list[l]
    BY <1>1, <2>2, IdsRemove DEF IdInv
  <2>4. timer_expiring'.delay = t.delay
    BY <2>1, <2>2 DEF Expiring, Timer
  <2> QED  BY <2>2, <2>3, <2>4 DEF PositiveDelays
<1>8. CASE Requeue
  <2>1. /\ CallbackRuns /\ timer_expiring' = timer_expiring
        /\ PushAndBubble(timer_expiring)
    BY <1>8 DEF Requeue, At, CallbackRuns, Top
  <2>2. \A i \in 1 .. Len(timer_list') :
           \/ timer_list'[i] = timer_expiring
           \/ \E k \in 1 .. Len(timer_list) : timer_list'[i] = timer_list[k]
    BY <1>1, <1>2, <2>1, IdsPush
  <2> QED  BY <2>1, <2>2 DEF PositiveDelays
<1>9. CASE RoundEnd
  <2>1. ~ CallbackRuns'
    BY <1>1, <1>9, OutOfRound
  <2> QED  BY <1>9, <2>1 DEF RoundEnd, PositiveDelays
<1> QED  BY <1>1, <1>3, <1>4, <1>5, <1>6, <1>7, <1>8, <1>9 DEF TimerStep

\* A timer armed or armed again during a round is not due in that round, so what is due
\* was there when it began.
LEMMA RoundStep ==
    ASSUME ~ CallbackReenters, ~ ClockStepsBack, NumericDelays, OnceInv,
           [Next]_vars
    PROVE  RoundInv'
<1>1. /\ TypeOK /\ TypeOK' /\ ScriptsBelow /\ IdInv /\ SortedInv /\ SortedInv'
      /\ RoundInv /\ PositiveDelays
  BY TypeStep, SortedStep DEF OnceInv, IdInv
<1>2. /\ timer_list \in Seq(Timer) /\ timer_expiring \in Timer
      /\ Len(timer_list) \in Nat /\ DOMAIN timer_list = 1 .. Len(timer_list)
      /\ clock \in Nat
  BY <1>1, LenProperties DEF TypeOK
<1>3. /\ \A i \in 1 .. Len(timer_list) : timer_list[i].target \in Int
      /\ timer_expiring.target \in Int /\ timer_expiring.delay \in Int
  BY <1>1 DEF SortedInv, Numeric, IsNumeric
<1>4. frames # <<>> => Top \in Frame /\ Top.now \in Nat
  BY <1>1, TopFacts DEF TypeOK, Frame
<1>5. CASE \/ \E c \in Contexts : Eval(c) \/ Dispatch(c) \/ DispatchMalformed(c)
           \/ ScriptReturn \/ ScriptThrow \/ Die \/ RoundEnd \/ Poll
           \/ PollReturn \/ PollInterrupted \/ LoopExit
  BY <1>1, <1>5, OutOfRound DEF RoundInv
<1>6. CASE /\ UNCHANGED <<timer_list, timer_expiring, frames>>
           /\ clock' \in Nat /\ clock' >= clock
  BY <1>1, <1>2, <1>4, <1>6 DEF RoundInv, InRound, CallbackRuns, Top
<1>7. ASSUME NEW delay \in Delays \cup {0}, NEW oneshot \in BOOLEAN,
             CreateTimer(delay, oneshot)
      PROVE  RoundInv'
  <2> DEFINE t == NewTimer(Top.ctx, delay, oneshot)
  <2>1. /\ frames' = frames /\ frames # <<>> /\ AddTimer(Top.ctx, delay, oneshot)
        /\ clock' = clock /\ timer_expiring' = timer_expiring
    BY <1>7 DEF CreateTimer, AddTimer, InJavaScript, At
  <2>2. Top.ctx \in Contexts
    BY <1>4, <2>1 DEF Frame
  <2>3. t \in Timer /\ PushAndBubble(t) /\ t.target \in Int /\ t.target > clock
    BY <1>1, <2>1, <2>2, NewTimerType, NewTimerLater DEF AddTimer
  <2> HIDE DEF t
  <2>4. \A i \in 1 .. Len(timer_list') :
           timer_list'[i] = t \/ \E k \in 1 .. Len(timer_list) :
                                    timer_list'[i] = timer_list[k]
    BY <1>1, <2>3, IdsPush
  <2>5. Top' = Top /\ InRound' = InRound /\ CallbackRuns' = CallbackRuns
    BY <2>1 DEF Top, InRound, CallbackRuns
  <2> SUFFICES ASSUME InRound \/ CallbackRuns
               PROVE  /\ Top.now <= clock
                      /\ \A i \in 1 .. Len(timer_list') :
                            timer_list'[i].target <= Top.now =>
                               timer_list'[i].id \in Top.unserved
                      /\ CallbackRuns /\ ~ timer_expiring.removed =>
                            timer_expiring.target > Top.now
    BY <2>1, <2>5 DEF RoundInv
  <2>6. ~ (t.target <= Top.now)
    BY <1>1, <1>2, <1>4, <2>1, <2>3 DEF RoundInv
  <2> QED  BY <1>1, <2>4, <2>6 DEF RoundInv
<1>8. ASSUME NEW d \in 0 .. MaxId, DeleteExpiring(d) PROVE RoundInv'
  <2>1. /\ timer_expiring' = [timer_expiring EXCEPT !.removed = TRUE]
        /\ UNCHANGED <<timer_list, frames, clock>>
    BY <1>8 DEF DeleteExpiring
  <2>2. timer_expiring'.removed
    BY <1>2, <2>1 DEF Timer
  <2> QED  BY <1>1, <2>1, <2>2 DEF RoundInv, InRound, CallbackRuns, Top
<1>9. ASSUME NEW d \in 0 .. MaxId, DeleteListed(d) PROVE RoundInv'
  <2>1. PICK k \in 1 .. Len(timer_list) : timer_list' = RemoveAt(timer_list, k)
    BY <1>2, <1>9 DEF DeleteListed
  <2>2. \A i \in 1 .. Len(timer_list') :
           \E l \in 1 .. Len(timer_list) : timer_list'[i] = timer_list[l]
    BY <1>1, <2>1, IdsRemove DEF IdInv
  <2>3. UNCHANGED <<timer_expiring, frames, clock>>
    BY <1>9 DEF DeleteListed
  <2>4. Top' = Top /\ InRound' = InRound /\ CallbackRuns' = CallbackRuns
    BY <2>3 DEF Top, InRound, CallbackRuns
  <2> QED  BY <1>1, <2>2, <2>3, <2>4 DEF RoundInv
<1>10. CASE RoundStart
  <2> DEFINE f == [Top EXCEPT !.pc = "round", !.now = clock,
                    !.sanity = MAX_EXPIRIES, !.unserved = Ids(timer_list)]
  <2>1. frames # <<>> /\ Goto(f) /\ UNCHANGED <<timer_list, clock>>
    BY <1>10 DEF RoundStart, At
  <2>2. f.pc = "round" /\ f.now = clock /\ f.unserved = Ids(timer_list)
    BY <1>4, <2>1 DEF Frame
  <2> HIDE DEF f
  <2>3. Top' = f
    BY <1>1, <2>1, GotoControl
  <2>4. \A i \in 1 .. Len(timer_list) : timer_list[i].id \in Ids(timer_list)
    BY <1>2 DEF Ids
  <2> QED  BY <1>2, <2>1, <2>2, <2>3, <2>4 DEF RoundInv, CallbackRuns
<1>11. CASE Expire
  <2> DEFINE t == Last(timer_list)
             f == [Top EXCEPT !.pc = "callback", !.sanity = Top.sanity - 1,
                              !.unserved = Top.unserved \ {t.id}]
  <2>1. /\ timer_list # <<>> /\ timer_list' = Front(timer_list)
        /\ timer_expiring' = Expiring(t) /\ clock' = clock
        /\ frames # <<>> /\ Goto(f) /\ InRound
    BY <1>11 DEF Expire, At, MayExpire, InRound, Top
  <2>2. f.pc = "callback" /\ f.now = Top.now /\ f.unserved = Top.unserved \ {t.id}
    BY <1>4, <2>1 DEF Frame
  <2>3. /\ Len(timer_list) \in 1 .. Len(timer_list) /\ t \in Timer
        /\ t = timer_list[Len(timer_list)]
        /\ timer_list' = RemoveAt(timer_list, Len(timer_list))
    BY <1>2, <2>1, FrontFacts, FrontRemoves
  <2>4. t.delay \in Int /\ t.delay >= 1
    BY <1>1, <2>3 DEF SortedInv, Numeric, IsNumeric, PositiveDelays
  <2> HIDE DEF f
  <2>5. Top' = f
    BY <1>1, <2>1, GotoControl
  <2>6. /\ Ids(timer_list') = Ids(timer_list) \ {t.id}
        /\ \A i \in 1 .. Len(timer_list') :
             \E l \in 1 .. Len(timer_list) : timer_list'[i] = timer_list[l]
    BY <1>1, <2>3, IdsRemove DEF IdInv
  <2>7. ASSUME NEW i \in 1 .. Len(timer_list'),
               timer_list'[i].target <= Top.now
        PROVE  timer_list'[i].id \in Top.unserved \ {t.id}
    <3>1. timer_list'[i].id \in Ids(timer_list')
      <4>1. DOMAIN timer_list' = 1 .. Len(timer_list')
        BY <1>1, LenProperties DEF TypeOK
      <4> QED  BY <4>1 DEF Ids
    <3>2. timer_list'[i].id \in Top.unserved
      BY <1>1, <2>1, <2>6, <2>7 DEF RoundInv
    <3> QED  BY <2>6, <3>1, <3>2
  <2>8. ~ timer_expiring'.removed => timer_expiring'.target > Top.now
    <3>1. CASE t.oneshot
      BY <2>1, <2>3, <3>1 DEF Expiring, Timer
    <3>2. CASE ~ t.oneshot
      <4>1. timer_expiring'.target = Plus(Top.now, t.delay)
        BY <2>1, <2>3, <3>2 DEF Expiring, Timer
      <4>2. Plus(Top.now, t.delay) = Top.now + t.delay
        BY <1>4, <2>1, <2>4, DelaysAssumption DEF Plus
      <4> QED  BY <1>4, <2>1, <2>4, <4>1, <4>2
    <3> QED  BY <3>1, <3>2
  <2>9. Top.now <= clock
    BY <1>1, <2>1 DEF RoundInv
  <2> QED  BY <2>1, <2>2, <2>5, <2>7, <2>8, <2>9 DEF RoundInv
<1>12. CASE CallbackReturn \/ Requeue
  <2> DEFINE f == [Top EXCEPT !.pc = "round"]
  <2>1. frames # <<>> /\ CallbackRuns /\ Goto(f) /\ clock' = clock
    BY <1>12 DEF CallbackReturn, Requeue, At, CallbackRuns, Top
  <2>2. f.pc = "round" /\ f.now = Top.now /\ f.unserved = Top.unserved
    BY <1>4, <2>1 DEF Frame
  <2> HIDE DEF f
  <2>3. Top' = f
    BY <1>1, <2>1, GotoControl
  <2>4. \A i \in 1 .. Len(timer_list') :
           \/ timer_list'[i] = timer_expiring /\ ~ timer_expiring.removed
           \/ \E k \in 1 .. Len(timer_list) : timer_list'[i] = timer_list[k]
    <3>1. CASE CallbackReturn
      BY <3>1 DEF CallbackReturn
    <3>2. CASE Requeue
      BY <1>1, <1>2, <3>2, IdsPush DEF Requeue
    <3> QED  BY <1>12, <3>1, <3>2
  <2>5. ~ timer_expiring.removed => ~ (timer_expiring.target <= Top.now)
    BY <1>1, <1>3, <1>4, <2>1 DEF RoundInv
  <2> QED  BY <1>1, <2>1, <2>2, <2>3, <2>4, <2>5 DEF RoundInv, CallbackRuns
<1>13. CASE Tick
  <2>1. UNCHANGED <<timer_list, timer_expiring>> /\ clock' \in Nat /\ clock' >= clock
    BY <1>2, <1>13 DEF Tick
  <2>2. CASE At("poll") /\ Top.left > 0
    <3> DEFINE f == [Top EXCEPT !.left = Top.left - 1]
    <3>1. frames # <<>>
      BY <2>2 DEF At
    <3>2. Goto(f) /\ f.pc = "poll"
      BY <1>1, <1>4, <1>13, <2>2, <3>1, TopFacts
         DEF Tick, At, Goto, Top, Frame, TypeOK
    <3> HIDE DEF f
    <3>3. Top' = f
      BY <1>1, <3>1, <3>2, GotoControl
    <3> QED  BY <3>2, <3>3 DEF RoundInv, InRound, CallbackRuns
  <2>3. CASE ~ (At("poll") /\ Top.left > 0)
    BY <1>6, <1>13, <2>1, <2>3 DEF Tick
  <2> QED  BY <2>2, <2>3
<1>14. CASE CreateTimerAborts \/ RequeueOverrun \/ StepBack \/ Lost \/ UNCHANGED vars
  <2>1. /\ UNCHANGED <<timer_list, timer_expiring, frames>>
        /\ clock' \in Nat /\ clock' >= clock
    BY <1>2, <1>14 DEF CreateTimerAborts, RequeueOverrun, StepBack, Lost, vars
  <2> QED  BY <1>6, <2>1
<1> QED  BY <1>5, <1>7, <1>8, <1>9, <1>10, <1>11, <1>12, <1>13, <1>14 DEF Next, SetTimeout, SetInterval, DelayGiven, ClearTimer

\* The invariant about rounds holds at first: there is no round.
LEMMA OnceInit == Init => OnceInv
<1>1. ASSUME Init PROVE PositiveDelays /\ RoundInv
  <2>1. frames = <<>> /\ Len(timer_list) = 0
    BY <1>1 DEF Init
  <2> QED  BY <2>1 DEF PositiveDelays, RoundInv, InRound, CallbackRuns
<1> QED  BY <1>1, IdInit, SortedInit DEF OnceInv

\* Every step keeps the invariant about rounds, with order and identity.
LEMMA OnceStep ==
    ASSUME ~ CallbackReenters, ~ ClockStepsBack, NumericDelays, OnceInv,
           [Next]_vars
    PROVE  OnceInv'
BY IdStep, SortedStep, PositiveStep, RoundStep DEF OnceInv

\* The timer that a round takes is one it has not served.
LEMMA ExpireUnserved ==
    ASSUME OnceInv, Expire
    PROVE  Last(timer_list).id \in Top.unserved
<1>1. /\ timer_list \in Seq(Timer) /\ timer_list # <<>>
      /\ frames \in Seq(Frame) /\ frames # <<>> /\ InRound
      /\ ~ GT(Last(timer_list).target, Top.now)
  BY DEF OnceInv, IdInv, TypeOK, Expire, At, MayExpire, InRound, Top
<1>2. /\ Len(timer_list) \in 1 .. Len(timer_list)
      /\ Last(timer_list) = timer_list[Len(timer_list)]
  <2>1. /\ Len(timer_list) \in Nat \ {0}
        /\ Last(timer_list) = timer_list[Len(timer_list)]
    BY <1>1, FrontFacts
  <2> QED  BY <2>1
<1>3. Last(timer_list).target \in Int /\ Top.now \in Int
  BY <1>1, <1>2, TopFacts DEF OnceInv, SortedInv, Numeric, IsNumeric, Frame
<1>4. Last(timer_list).target <= Top.now
  BY <1>1, <1>3, LEIsOrder
<1> QED  BY <1>1, <1>2, <1>4 DEF OnceInv, RoundInv

\* A round runs no timer twice and none armed since it began, as long as the
\* clock does not go back, delays are numbers and callbacks do not reach eval.
THEOREM RunOncePerRound ==
    ~ CallbackReenters /\ ~ ClockStepsBack /\ NumericDelays =>
        (Spec => OncePerRound)
<1> SUFFICES ASSUME ~ CallbackReenters, ~ ClockStepsBack, NumericDelays
             PROVE  Spec => OncePerRound
  OBVIOUS
<1>1. OnceInv /\ [Next]_vars => OnceInv'
  BY OnceStep
<1>2. OnceInv /\ [Next]_vars => [Expire => Last(timer_list).id \in Top.unserved]_vars
  BY ExpireUnserved
<1> QED  BY OnceInit, <1>1, <1>2, PTL DEF Spec, OncePerRound
=============================================================================
