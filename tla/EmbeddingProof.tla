--------------------------- MODULE EmbeddingProof ---------------------------
(***************************************************************************)
(* Proofs about Embedding, for every number of objects and every value of  *)
(* the other constants.                                                    *)
(***************************************************************************)
EXTENDS Embedding, EventLoopProof

USE DEF timers, embedding

\* The activations that run in the isolate of c, by their place on the stack.
ActivationsOf(stack, c) == {j \in DOMAIN stack : stack[j].ctx = c}

Activations(c) == ActivationsOf(frames, c)

\* A step that neither pushes nor pops: every activation stays in its object.
SameContexts ==
    /\ Len(frames') = Len(frames)
    /\ \A i \in 1 .. Len(frames) : frames'[i].ctx = frames[i].ctx

\* There are finitely many activations, and none when the set is empty.
LEMMA ActivationsFinite ==
    ASSUME NEW c, NEW stack \in Seq(Frame)
    PROVE  /\ IsFiniteSet(ActivationsOf(stack, c))
           /\ Cardinality(ActivationsOf(stack, c)) \in Nat
           /\ Cardinality(ActivationsOf(stack, c)) = 0 <=> ActivationsOf(stack, c) = {}
<1>1. DOMAIN stack = 1 .. Len(stack) /\ Len(stack) \in Nat
  BY LenProperties
<1>2. IsFiniteSet(1 .. Len(stack))
  BY <1>1, FS_Interval
<1>3. ActivationsOf(stack, c) \subseteq 1 .. Len(stack)
  BY <1>1 DEF ActivationsOf
<1>4. IsFiniteSet(ActivationsOf(stack, c))
  BY <1>2, <1>3, FS_Subset
<1> QED  BY <1>4, FS_CardinalityType, FS_EmptySet

\* Pushing an activation adds it to those of its object.
LEMMA ActivationsPush ==
    ASSUME frames \in Seq(Frame), NEW f \in Frame, Enter(f), NEW c
    PROVE  /\ f.ctx = c => Cardinality(Activations(c)') = Cardinality(Activations(c)) + 1
           /\ f.ctx # c => Activations(c)' = Activations(c)
<1>1. /\ frames' \in Seq(Frame) /\ Len(frames') = Len(frames) + 1
      /\ Last(frames') = f
      /\ \A i \in 1 .. Len(frames) : frames'[i] = frames[i]
  BY EnterFacts
<1>2. /\ Len(frames) \in Nat /\ DOMAIN frames = 1 .. Len(frames)
      /\ DOMAIN frames' = 1 .. Len(frames) + 1 /\ frames'[Len(frames) + 1] = f
  BY <1>1, LenProperties DEF Last
<1>3. CASE f.ctx = c
  <2>1. Activations(c)' = Activations(c) \cup {Len(frames) + 1}
    BY <1>1, <1>2, <1>3 DEF Activations, ActivationsOf
  <2>2. Len(frames) + 1 \notin Activations(c)
    BY <1>2 DEF Activations, ActivationsOf
  <2>3. IsFiniteSet(Activations(c))
    BY ActivationsFinite DEF Activations
  <2> QED  BY <1>3, <2>1, <2>2, <2>3, FS_AddElement
<1>4. CASE f.ctx # c
  <2>1. Activations(c)' = Activations(c)
    BY <1>1, <1>2, <1>4 DEF Activations, ActivationsOf
  <2> QED  BY <1>4, <2>1
<1> QED  BY <1>3, <1>4

\* Popping one takes it from those of its object.
LEMMA ActivationsPop ==
    ASSUME frames \in Seq(Frame), frames # <<>>, Leave, NEW c
    PROVE  /\ Activations(c)' \subseteq Activations(c)
           /\ Top.ctx = c => Cardinality(Activations(c)') = Cardinality(Activations(c)) - 1
           /\ Top.ctx # c => Activations(c)' = Activations(c)
           /\ (\A i \in 1 .. Len(frames) - 1 : frames[i].ctx # c) => Activations(c)' = {}
<1>1. /\ frames' \in Seq(Frame) /\ Len(frames') = Len(frames) - 1
      /\ \A i \in 1 .. Len(frames) - 1 : frames'[i] = frames[i]
  BY LeaveFacts
<1>2. /\ Len(frames) \in Nat \ {0} /\ DOMAIN frames = 1 .. Len(frames)
      /\ DOMAIN frames' = 1 .. Len(frames) - 1 /\ Top = frames[Len(frames)]
  BY <1>1, LenProperties, TopFacts
<1>3. Activations(c)' = Activations(c) \ {Len(frames)}
  BY <1>1, <1>2 DEF Activations, ActivationsOf
<1>4. ASSUME Top.ctx = c
      PROVE  Cardinality(Activations(c)') = Cardinality(Activations(c)) - 1
  <2>1. Len(frames) \in Activations(c)
    BY <1>2, <1>4 DEF Activations, ActivationsOf
  <2>2. IsFiniteSet(Activations(c))
    BY ActivationsFinite DEF Activations
  <2> QED  BY <1>3, <2>1, <2>2, FS_RemoveElement
<1>5. ASSUME Top.ctx # c PROVE Activations(c)' = Activations(c)
  BY <1>2, <1>3, <1>5 DEF Activations, ActivationsOf
<1>6. ASSUME \A i \in 1 .. Len(frames) - 1 : frames[i].ctx # c
      PROVE  Activations(c)' = {}
  BY <1>1, <1>2, <1>6 DEF Activations, ActivationsOf
<1> QED  BY <1>3, <1>4, <1>5, <1>6

\* The others keep them.
LEMMA ActivationsSame ==
    ASSUME frames \in Seq(Frame), frames' \in Seq(Frame), SameContexts, NEW c
    PROVE  Activations(c)' = Activations(c)
<1>1. DOMAIN frames = 1 .. Len(frames) /\ DOMAIN frames' = 1 .. Len(frames)
  BY LenProperties DEF SameContexts
<1> QED  BY <1>1 DEF Activations, ActivationsOf, SameContexts

\* Replacing the innermost activation by one of the same object.
LEMMA GotoSame ==
    ASSUME frames \in Seq(Frame), frames' \in Seq(Frame), frames # <<>>,
           NEW f, f.ctx = Top.ctx, Goto(f)
    PROVE  SameContexts /\ frames' # <<>> /\ Top' = f
<1>1. /\ Len(frames) \in Nat \ {0} /\ DOMAIN frames = 1 .. Len(frames)
      /\ Len(frames') \in Nat /\ DOMAIN frames' = 1 .. Len(frames')
      /\ Top = frames[Len(frames)]
  BY TopFacts, LenProperties
<1>2. Len(frames') = Len(frames)
  BY <1>1 DEF Goto
<1>3. /\ frames'[Len(frames)] = f
      /\ \A i \in 1 .. Len(frames) : i # Len(frames) => frames'[i] = frames[i]
  <2>1. frames' = [frames EXCEPT ![Len(frames)] = f]
    BY DEF Goto
  <2>2. Len(frames) \in DOMAIN frames
    BY <1>1
  <2>3. frames'[Len(frames)] = f
    BY <2>1, <2>2
  <2>4. ASSUME NEW i \in 1 .. Len(frames), i # Len(frames)
        PROVE  frames'[i] = frames[i]
    <3>1. ASSUME NEW j \in DOMAIN frames, j # Len(frames)
          PROVE  [frames EXCEPT ![Len(frames)] = f][j] = frames[j]
      BY <3>1
    <3> QED  BY <1>1, <2>1, <2>4, <3>1
  <2> QED  BY <2>3, <2>4
<1>4. frames' # <<>>
  <2>1. Len(<<>>) = 0
    BY EmptySeq
  <2> QED  BY <1>1, <1>2, <2>1
<1> QED  BY <1>1, <1>2, <1>3, <1>4 DEF SameContexts, Top, Last
----------------------------------------------------------------------------
(* Types, and the isolate that is never disposed under an activation.      *)

EmbeddingTypes ==
    /\ isolates \in 0 .. MaxIsolates
    /\ isolate \in [Contexts -> 0 .. isolates]
    /\ setup \in [Contexts -> {"none", "new", "reset", "done", "half"}]
    /\ entered \in [Contexts -> 0 .. MaxEntered]
    /\ born \in Seq(1 .. isolates)

\* The isolate of c is there for its activations, and entered once for each.
Sheltered(c) ==
    /\ Activations(c) # {} => Lives(c)
    /\ Cardinality(Activations(c)) <= entered[c]

AllSheltered == fault = "none" => \A c \in Contexts : Sheltered(c)

UnderInv == TypeOK /\ EmbeddingTypes /\ AllSheltered

\* What the property says of every activation is what AllSheltered says of
\* every object.
LEMMA ShelteredFrames == UnderInv => NotUnderfoot
<1> SUFFICES ASSUME UnderInv, fault = "none", NEW i \in DOMAIN frames
             PROVE  /\ Lives(frames[i].ctx)
                    /\ entered[frames[i].ctx] >= Cardinality(Activations(frames[i].ctx))
  BY DEF NotUnderfoot, Activations, ActivationsOf
<1>1. frames \in Seq(Frame) /\ frames[i] \in Frame
  BY LenProperties, ElementOfSeq DEF UnderInv, TypeOK
<1> DEFINE c == frames[i].ctx
<1>2. c \in Contexts
  BY <1>1 DEF Frame
<1>3. i \in Activations(c)
  BY DEF Activations, ActivationsOf
<1> HIDE DEF c
<1>4. Sheltered(c)
  BY <1>2 DEF UnderInv, AllSheltered
<1>5. entered[c] \in Nat /\ Cardinality(Activations(c)) \in Nat
  BY <1>1, <1>2, ActivationsFinite, EmbeddingAssumption
     DEF UnderInv, EmbeddingTypes, Activations
<1>6. Lives(c) /\ entered[c] >= Cardinality(Activations(c))
  BY <1>3, <1>4, <1>5 DEF Sheltered
<1> QED  BY <1>6 DEF c

\* A sequence over a set is one over every larger set.
LEMMA SeqMonotone ==
    ASSUME NEW S, NEW T, S \subseteq T, NEW s \in Seq(S)
    PROVE  s \in Seq(T)
<1>1. /\ Len(s) \in Nat /\ s \in [1 .. Len(s) -> S]
  BY LenProperties
<1>2. s \in [1 .. Len(s) -> T]
  BY <1>1
<1> QED  BY <1>1, <1>2, SeqDef

\* The process is lost to a step that changes nothing else.
Aborts ==
    /\ fault = "none" /\ fault' = "abort"
    /\ UNCHANGED <<timers, clock, frames, gone, embedding>>

\* The isolate to be disposed is in use, or V8 checks what JavaScript threw.
LEMMA AbortSteps ==
    ASSUME AccessAborts \/ \E c \in Contexts : DisposeInUse(c)
    PROVE  Aborts
BY DEF AccessAborts, DisposeInUse, PerlRuns, At, Aborts

\* Every step is one of the event loop, sets an object up, or aborts.
LEMMA LoopSteps ==
    ASSUME [EmbeddingNext]_embeddedVars
    PROVE  \/ [Next]_vars
           \/ \E c \in Contexts : New(c) \/ Reset(c)
           \/ Aborts
<1>1. ASSUME NEW c \in Contexts, Call(c) \/ Access(c) PROVE [Next]_vars
  <2>1. CASE Call(c)
    BY <2>1 DEF Call, Next
  <2>2. CASE Access(c)
    BY <2>2 DEF Access, Eval, Next
  <2> QED  BY <1>1, <2>1, <2>2
<1>2. CASE Finish
  BY <1>2 DEF Finish, Next
<1>3. CASE Throw \/ AccessReturn
  BY <1>3 DEF Throw, AccessReturn, ScriptThrow, Next
<1>4. CASE Jump \/ JumpOutOfNew \/ JumpOutOfReset
  BY <1>4 DEF Jump, JumpOutOfNew, JumpOutOfReset, Next
<1>5. CASE Script
  BY <1>5 DEF Script, Next
<1>6. CASE Run
  BY <1>6 DEF Run, Next
<1>7. ASSUME NEW c \in Contexts, Destroy(c) PROVE [Next]_vars
  BY <1>7 DEF Destroy
<1>8. CASE UNCHANGED embeddedVars
  BY <1>8 DEF embeddedVars
<1> QED  BY <1>1, <1>2, <1>3, <1>4, <1>5, <1>6, <1>7, <1>8, AbortSteps DEF EmbeddingNext

\* The event loop stays well typed.
LEMMA LoopTypeStep ==
    ASSUME TypeOK, [EmbeddingNext]_embeddedVars
    PROVE  TypeOK'
<1>1. CASE [Next]_vars
  BY <1>1, TypeStep
<1>2. ASSUME NEW c \in Contexts, New(c) \/ Reset(c) PROVE TypeOK'
  <2>1. Enter(Fresh(c, "loop", TRUE)) /\ UNCHANGED <<timers, clock, fault, gone>>
    BY <1>2 DEF New, Reset, SetUp
  <2>2. frames' \in Seq(Frame)
    BY <2>1, EnterFacts, FreshType DEF TypeOK, Pcs
  <2> QED  BY <2>1, <2>2 DEF TypeOK
<1>3. CASE Aborts
  BY <1>3 DEF Aborts, TypeOK
<1> QED  BY <1>1, <1>2, <1>3, LoopSteps

\* Once the process is lost it stays lost, and before that every action
\* finds it alive.
LEMMA AliveBefore ==
    ASSUME [EmbeddingNext]_embeddedVars, fault # "none"
    PROVE  UNCHANGED embeddedVars
<1>1. /\ ~ PerlRuns /\ ~ InJavaScript
      /\ \A pc : ~ At(pc)
  BY DEF PerlRuns, InJavaScript, At
<1>2. ASSUME NEW c \in Contexts,
             Call(c) \/ Access(c) \/ New(c) \/ Reset(c) \/ Destroy(c) \/ DisposeInUse(c)
      PROVE  FALSE
  BY <1>1, <1>2 DEF Call, Access, New, Reset, Destroy, DisposeInUse, Eval, Dispatch,
     DispatchMalformed
<1>3. CASE \/ Finish \/ Throw \/ AccessReturn \/ AccessAborts
           \/ Jump \/ JumpOutOfNew \/ JumpOutOfReset
  BY <1>1, <1>3 DEF Finish, Throw, AccessReturn, AccessAborts, Jump, JumpOutOfNew,
     JumpOutOfReset, LoopExit, ScriptThrow, Die
<1>4. CASE Script
  BY <1>1, <1>4 DEF Script, SetTimeout, SetInterval, CreateTimer
<1>5. CASE Run
  <2>1. Lost
    BY <1>1, <1>5 DEF Run, ClearTimer, DeleteExpiring, DeleteListed, ScriptReturn,
       CreateTimerAborts, RoundStart, Expire, CallbackReturn, Requeue,
       RequeueOverrun, RoundEnd, Poll, PollReturn, PollInterrupted, Tick, StepBack
  <2> QED  BY <1>5, <2>1 DEF Run, Lost, embeddedVars
<1> QED  BY <1>2, <1>3, <1>4, <1>5 DEF EmbeddingNext

\* The isolate of the innermost activation exists and is entered.
LEMMA TopSheltered ==
    ASSUME UnderInv, fault = "none", frames # <<>>
    PROVE  /\ Top.ctx \in Contexts
           /\ isolate[Top.ctx] \in 1 .. isolates /\ Lives(Top.ctx)
           /\ entered[Top.ctx] \in 1 .. MaxEntered
           /\ Cardinality(Activations(Top.ctx)) \in Nat \ {0}
<1>1. /\ frames \in Seq(Frame) /\ Top \in Frame /\ Len(frames) \in DOMAIN frames
      /\ Top = frames[Len(frames)]
  BY TopFacts, LenProperties DEF UnderInv, TypeOK
<1>2. Top.ctx \in Contexts
  BY <1>1 DEF Frame
<1>3. Activations(Top.ctx) # {}
  BY <1>1 DEF Activations, ActivationsOf
<1>4. Cardinality(Activations(Top.ctx)) \in Nat \ {0}
  BY <1>1, <1>3, ActivationsFinite DEF Activations
<1>5. Sheltered(Top.ctx)
  BY <1>2 DEF UnderInv, AllSheltered
<1>6. /\ entered[Top.ctx] \in 0 .. MaxEntered /\ MaxEntered \in Nat
      /\ isolate[Top.ctx] \in 0 .. isolates /\ isolates \in Nat
  BY <1>2, EmbeddingAssumption DEF UnderInv, EmbeddingTypes
<1>7. isolate[Top.ctx] # 0
  BY <1>3, <1>5 DEF Sheltered, Lives
<1>8. Cardinality(Activations(Top.ctx)) <= entered[Top.ctx]
  BY <1>5 DEF Sheltered
<1> QED  BY <1>2, <1>4, <1>6, <1>7, <1>8 DEF Lives

\* A timer that is armed is born in an isolate.
LEMMA RegisterType ==
    ASSUME EmbeddingTypes, NEW c \in Contexts, Lives(c), Register(c)
    PROVE  born' \in Seq(1 .. isolates)
<1>1. isolate[c] \in 1 .. isolates
  BY EmbeddingAssumption DEF EmbeddingTypes, Lives
<1>2. born \in Seq(1 .. isolates)
  BY DEF EmbeddingTypes
<1>3. Append(born, isolate[c]) \in Seq(1 .. isolates)
  BY <1>1, <1>2, AppendProperties
<1> QED  BY <1>2, <1>3 DEF Register

\* The steps that push an activation: which object's it is, and that its
\* isolate is entered once more.
LEMMA PushSteps ==
    ASSUME NEW c \in Contexts, Call(c) \/ Access(c)
    PROVE  /\ fault = "none" /\ fault' = "none" /\ PerlRuns
           /\ \E f \in Frame : f.ctx = c /\ f.pc \in {"script", "loop"} /\ Enter(f)
<1>1. \A pc \in {"script", "loop"}, again \in BOOLEAN :
         /\ Fresh(c, pc, again) \in Frame
         /\ Fresh(c, pc, again).pc = pc /\ Fresh(c, pc, again).ctx = c
  BY FreshType DEF Pcs, Fresh
<1>2. CASE Eval(c)
  BY <1>1, <1>2 DEF Eval, PerlRuns
<1>3. CASE Dispatch(c)
  BY <1>1, <1>3 DEF Dispatch, PerlRuns
<1>4. CASE DispatchMalformed(c)
  BY <1>1, <1>4 DEF DispatchMalformed, PerlRuns
<1>5. CASE Access(c)
  BY <1>1, <1>5 DEF Access, PerlRuns
<1> QED  BY <1>2, <1>3, <1>4, <1>5 DEF Call

\* The innermost activation goes on, and starts no script.
RunsOn ==
    /\ SameContexts
    /\ frames # <<>> /\ Top.pc # "script" => frames' # <<>> /\ Top'.pc # "script"

\* The steps of Run neither push nor pop, and start no script.
LEMMA RunSame ==
    ASSUME TypeOK, TypeOK', Run
    PROVE  RunsOn
<1>1. frames \in Seq(Frame) /\ frames' \in Seq(Frame)
  BY DEF TypeOK
<1>2. ASSUME frames' = frames PROVE RunsOn
  BY <1>2 DEF RunsOn, SameContexts, Top
<1>3. ASSUME frames # <<>>, NEW f, f.ctx = Top.ctx, f.pc # "script" \/ f.pc = Top.pc,
             Goto(f)
      PROVE  RunsOn
  BY <1>1, <1>3, GotoSame DEF RunsOn
<1>4. ASSUME frames # <<>>
      PROVE  Top \in Frame
  BY <1>1, <1>4, TopFacts
<1>5. CASE \/ \E id \in 0 .. MaxId : ClearTimer(id)
           \/ CreateTimerAborts \/ RequeueOverrun \/ StepBack \/ Lost
  BY <1>2, <1>5 DEF ClearTimer, DeleteExpiring, DeleteListed, CreateTimerAborts,
     RequeueOverrun, StepBack, Lost, vars
<1>6. CASE ScriptReturn \/ PollReturn \/ PollInterrupted \/ RoundEnd
  <2>1. /\ frames # <<>>
        /\ \E pc \in {"loop", "wait"}, again \in {Top.again, FALSE} :
              Goto(Fresh(Top.ctx, pc, again))
    BY <1>6 DEF ScriptReturn, PollReturn, PollInterrupted, RoundEnd, At
  <2>2. \A pc \in {"loop", "wait"}, again \in {Top.again, FALSE} :
           /\ Fresh(Top.ctx, pc, again).ctx = Top.ctx
           /\ Fresh(Top.ctx, pc, again).pc # "script"
    BY DEF Fresh
  <2> QED  BY <1>3, <2>1, <2>2
<1>7. CASE RoundStart
  <2> DEFINE f == [Top EXCEPT !.pc = "round", !.now = clock,
                    !.sanity = MAX_EXPIRIES, !.unserved = Ids(timer_list)]
  <2>1. frames # <<>> /\ Goto(f)
    BY <1>7 DEF RoundStart, At
  <2>2. f.ctx = Top.ctx /\ f.pc = "round"
    BY <1>4, <2>1 DEF Frame
  <2> HIDE DEF f
  <2> QED  BY <1>3, <2>1, <2>2
<1>8. CASE Expire
  <2> DEFINE f == [Top EXCEPT !.pc = "callback", !.sanity = Top.sanity - 1,
                              !.unserved = Top.unserved \ {Last(timer_list).id}]
  <2>1. frames # <<>> /\ Goto(f)
    BY <1>8 DEF Expire, At
  <2>2. f.ctx = Top.ctx /\ f.pc = "callback"
    BY <1>4, <2>1 DEF Frame
  <2> HIDE DEF f
  <2> QED  BY <1>3, <2>1, <2>2
<1>9. CASE CallbackReturn \/ Requeue
  <2> DEFINE f == [Top EXCEPT !.pc = "round"]
  <2>1. frames # <<>> /\ Goto(f)
    BY <1>9 DEF CallbackReturn, Requeue, At
  <2>2. f.ctx = Top.ctx /\ f.pc = "round"
    BY <1>4, <2>1 DEF Frame
  <2> HIDE DEF f
  <2> QED  BY <1>3, <2>1, <2>2
<1>10. CASE Poll
  <2>1. PICK left : Goto([Top EXCEPT !.pc = "poll", !.left = left])
    BY <1>10 DEF Poll
  <2> DEFINE f == [Top EXCEPT !.pc = "poll", !.left = left]
  <2>2. frames # <<>> /\ Goto(f)
    BY <1>10, <2>1 DEF Poll, At
  <2>3. f.ctx = Top.ctx /\ f.pc = "poll"
    BY <1>4, <2>2 DEF Frame
  <2> HIDE DEF f
  <2> QED  BY <1>3, <2>2, <2>3
<1>11. CASE Tick
  <2>1. CASE At("poll") /\ Top.left > 0
    <3> DEFINE f == [Top EXCEPT !.left = Top.left - 1]
    <3>1. frames # <<>>
      BY <2>1 DEF At
    <3>2. Goto(f)
      BY <1>1, <1>11, <2>1, <3>1, TopFacts DEF Tick, Goto
    <3>3. f.ctx = Top.ctx /\ f.pc = Top.pc
      BY <1>4, <3>1 DEF Frame
    <3> HIDE DEF f
    <3> QED  BY <1>3, <3>1, <3>2, <3>3
  <2>2. CASE ~ (At("poll") /\ Top.left > 0)
    BY <1>2, <1>11, <2>2 DEF Tick
  <2> QED  BY <2>1, <2>2
<1> QED  BY <1>5, <1>6, <1>7, <1>8, <1>9, <1>10, <1>11 DEF Run

\* The loop is entered once more for dispatch, or its activation ends.
LEMMA ExitFrames ==
    ASSUME TypeOK, TypeOK', LoopExit
    PROVE  /\ frames # <<>> /\ fault = "none" /\ fault' = "none"
           /\ timer_list = <<>> /\ UNCHANGED <<timers, clock, gone>>
           /\ Top.pc = "wait"
           /\ \/ Leave /\ Len(frames') < Len(frames)
              \/ /\ SameContexts /\ ~ (Len(frames') < Len(frames))
                 /\ frames' # <<>> /\ Top'.pc = "loop" /\ Top'.ctx = Top.ctx
<1>1. frames \in Seq(Frame) /\ frames' \in Seq(Frame)
  BY DEF TypeOK
<1>2. /\ frames # <<>> /\ fault = "none" /\ fault' = "none" /\ timer_list = <<>>
      /\ UNCHANGED <<timers, clock, gone>> /\ Top.pc = "wait"
  BY DEF LoopExit, At, Top
<1>3. Len(frames) \in Nat \ {0}
  BY <1>1, <1>2, TopFacts
<1>4. ASSUME Leave PROVE Len(frames') < Len(frames)
  BY <1>1, <1>2, <1>3, <1>4, LeaveFacts
<1>5. ASSUME Goto(Fresh(Top.ctx, "loop", FALSE))
      PROVE  /\ SameContexts /\ ~ (Len(frames') < Len(frames))
             /\ frames' # <<>> /\ Top'.pc = "loop" /\ Top'.ctx = Top.ctx
  <2>1. Fresh(Top.ctx, "loop", FALSE).ctx = Top.ctx /\ Fresh(Top.ctx, "loop", FALSE).pc = "loop"
    BY DEF Fresh
  <2>2. SameContexts /\ frames' # <<>> /\ Top' = Fresh(Top.ctx, "loop", FALSE)
    BY <1>1, <1>2, <1>5, <2>1, GotoSame
  <2>3. ~ (Len(frames') < Len(frames))
    BY <1>3, <2>2 DEF SameContexts
  <2>4. Top'.pc = "loop" /\ Top'.ctx = Top.ctx
    BY <2>1, <2>2
  <2> QED  BY <2>2, <2>3, <2>4
<1> QED  BY <1>2, <1>4, <1>5 DEF LoopExit

\* An activation that ends leaves what the others need.
LEMMA PopSheltered ==
    ASSUME UnderInv, fault = "none", frames # <<>>, Leave, isolate' = isolate,
           \/ entered' = entered
           \/ entered' = [entered EXCEPT ![Top.ctx] = entered[Top.ctx] - 1]
    PROVE  AllSheltered' /\ entered' \in [Contexts -> 0 .. MaxEntered]
<1>1. frames \in Seq(Frame)
  BY DEF UnderInv, TypeOK
<1>2. /\ Top.ctx \in Contexts /\ entered[Top.ctx] \in 1 .. MaxEntered
      /\ MaxEntered \in Nat /\ entered \in [Contexts -> 0 .. MaxEntered]
  BY TopSheltered, EmbeddingAssumption DEF UnderInv, EmbeddingTypes
<1>3. entered' \in [Contexts -> 0 .. MaxEntered]
  <2>1. entered[Top.ctx] - 1 \in 0 .. MaxEntered
    BY <1>2
  <2> QED  BY <1>2, <2>1
<1>4. ASSUME NEW c \in Contexts PROVE Sheltered(c)'
  <2>1. /\ Activations(c)' \subseteq Activations(c)
        /\ Top.ctx = c => Cardinality(Activations(c)') = Cardinality(Activations(c)) - 1
        /\ Top.ctx # c => Activations(c)' = Activations(c)
    BY <1>1, ActivationsPop
  <2>2. Sheltered(c)
    BY DEF UnderInv, AllSheltered
  <2>3. Cardinality(Activations(c)) \in Nat /\ entered[c] \in Nat
    BY <1>1, <1>2, ActivationsFinite DEF Activations
  <2>4. /\ Top.ctx = c => entered'[c] \in {entered[c], entered[c] - 1}
        /\ Top.ctx # c => entered'[c] = entered[c]
    BY <1>2
  <2>5. Cardinality(Activations(c)') <= entered'[c]
    BY <2>1, <2>2, <2>3, <2>4 DEF Sheltered
  <2> QED  BY <2>1, <2>2, <2>5 DEF Sheltered, Lives
<1> QED  BY <1>3, <1>4 DEF AllSheltered

\* A step that neither pushes nor pops, and leaves the isolates alone.
LEMMA SameSheltered ==
    ASSUME UnderInv, TypeOK', SameContexts, fault = "none",
           UNCHANGED <<isolate, entered>>
    PROVE  AllSheltered'
<1>1. frames \in Seq(Frame) /\ frames' \in Seq(Frame)
  BY DEF UnderInv, TypeOK
<1>2. ASSUME NEW c \in Contexts PROVE Sheltered(c)'
  <2>1. Activations(c)' = Activations(c)
    BY <1>1, ActivationsSame
  <2>2. Sheltered(c)
    BY DEF UnderInv, AllSheltered
  <2> QED  BY <2>1, <2>2 DEF Sheltered, Lives
<1> QED  BY <1>2 DEF AllSheltered

\* A new isolate is entered once, by the activation that sets its object up.
LEMMA SetUpSheltered ==
    ASSUME UnderInv, NEW c \in Contexts, New(c) \/ Reset(c)
    PROVE  EmbeddingTypes' /\ AllSheltered'
<1>1. /\ fault = "none" /\ SetUp(c) /\ Enter(Fresh(c, "loop", TRUE))
      /\ frames \in Seq(Frame)
      /\ Fresh(c, "loop", TRUE) \in Frame /\ Fresh(c, "loop", TRUE).ctx = c
  <2>1. Fresh(c, "loop", TRUE) \in Frame /\ Fresh(c, "loop", TRUE).ctx = c
    BY FreshType DEF Pcs, Fresh
  <2> QED  BY <2>1 DEF New, Reset, SetUp, PerlRuns, UnderInv, TypeOK
<1>2. Activations(c) = {}
  <2>1. Sheltered(c) /\ entered[c] \in Nat
    BY <1>1, EmbeddingAssumption DEF UnderInv, AllSheltered, EmbeddingTypes
  <2>2. CASE New(c)
    BY <2>1, <2>2 DEF New, Sheltered
  <2>3. CASE Reset(c)
    <3>1. entered[c] = 0 /\ Cardinality(Activations(c)) \in Nat
      BY <1>1, <2>3, ActivationsFinite DEF Reset, Activations
    <3>2. Cardinality(Activations(c)) = 0
      BY <2>1, <3>1 DEF Sheltered
    <3> QED  BY <1>1, <3>2, ActivationsFinite DEF Activations
  <2> QED  BY <2>2, <2>3
<1>3. /\ isolates' = isolates + 1 /\ isolates' \in 0 .. MaxIsolates
      /\ isolates \in Nat
      /\ isolate' = [isolate EXCEPT ![c] = isolates + 1]
      /\ entered' = [entered EXCEPT ![c] = 1] /\ born' = born
      /\ setup' \in {[setup EXCEPT ![c] = "new"], [setup EXCEPT ![c] = "reset"]}
  <2>1. /\ isolates < MaxIsolates /\ isolates' = isolates + 1
        /\ isolate' = [isolate EXCEPT ![c] = isolates + 1]
        /\ entered' = [entered EXCEPT ![c] = 1] /\ born' = born
    BY <1>1 DEF SetUp
  <2>2. setup' \in {[setup EXCEPT ![c] = "new"], [setup EXCEPT ![c] = "reset"]}
    BY DEF New, Reset
  <2>3. isolates \in 0 .. MaxIsolates /\ MaxIsolates \in Nat
    BY EmbeddingAssumption DEF UnderInv, EmbeddingTypes
  <2>4. isolates \in Nat /\ isolates' \in 0 .. MaxIsolates
    BY <2>1, <2>3
  <2> QED  BY <2>1, <2>2, <2>4
<1>4. EmbeddingTypes'
  <2>1. /\ isolate \in [Contexts -> 0 .. isolates] /\ born \in Seq(1 .. isolates)
        /\ setup \in [Contexts -> {"none", "new", "reset", "done", "half"}]
        /\ entered \in [Contexts -> 0 .. MaxEntered] /\ 1 \in 0 .. MaxEntered
    BY EmbeddingAssumption DEF UnderInv, EmbeddingTypes
  <2>2. isolate' \in [Contexts -> 0 .. isolates']
    <3>1. isolate \in [Contexts -> 0 .. isolates']
      BY <1>3, <2>1
    <3>2. isolates + 1 \in 0 .. isolates'
      BY <1>3
    <3> QED  BY <1>3, <3>1, <3>2
  <2>3. born' \in Seq(1 .. isolates')
    <3>1. 1 .. isolates \subseteq 1 .. isolates'
      BY <1>3
    <3> QED  BY <1>3, <2>1, <3>1, SeqMonotone
  <2>4. setup' \in [Contexts -> {"none", "new", "reset", "done", "half"}]
    BY <1>3, <2>1
  <2>5. entered' \in [Contexts -> 0 .. MaxEntered]
    BY <1>3, <2>1
  <2> QED  BY <1>3, <2>2, <2>3, <2>4, <2>5 DEF EmbeddingTypes
<1>5. ASSUME NEW d \in Contexts PROVE Sheltered(d)'
  <2>1. isolate \in [Contexts -> 0 .. isolates] /\ entered \in [Contexts -> 0 .. MaxEntered]
    BY DEF UnderInv, EmbeddingTypes
  <2>2. CASE d = c
    <3>1. Cardinality(Activations(d)) = 0
      BY <1>1, <1>2, <2>2, ActivationsFinite DEF Activations
    <3>2. Cardinality(Activations(d)') = 1
      <4>1. Cardinality(Activations(d)') = Cardinality(Activations(d)) + 1
        BY <1>1, <2>2, ActivationsPush
      <4> QED  BY <3>1, <4>1
    <3>3. entered'[d] = 1 /\ isolate'[d] = isolates + 1
      BY <1>3, <2>1, <2>2
    <3> QED  BY <1>3, <3>2, <3>3 DEF Sheltered, Lives
  <2>3. CASE d # c
    <3>1. Activations(d)' = Activations(d)
      BY <1>1, <2>3, ActivationsPush
    <3>2. entered'[d] = entered[d] /\ isolate'[d] = isolate[d]
      BY <1>3, <2>1, <2>3
    <3>3. Sheltered(d)
      BY <1>1 DEF UnderInv, AllSheltered
    <3> QED  BY <3>1, <3>2, <3>3 DEF Sheltered, Lives
  <2> QED  BY <2>2, <2>3
<1> QED  BY <1>4, <1>5 DEF AllSheltered

\* No object has an isolate at first, so there is nothing to shelter.
LEMMA UnderInit == EmbeddingInit => UnderInv
<1> SUFFICES ASSUME EmbeddingInit PROVE UnderInv
  OBVIOUS
<1>1. TypeOK /\ frames = <<>> /\ fault = "none"
  BY TypeInit DEF EmbeddingInit, Init
<1>2. /\ isolates = 0 /\ isolate = [c \in Contexts |-> 0]
      /\ setup = [c \in Contexts |-> "none"]
      /\ entered = [c \in Contexts |-> 0] /\ born = <<>>
  BY DEF EmbeddingInit
<1>3. EmbeddingTypes
  <2>1. 0 \in 0 .. 0 /\ 0 \in 0 .. MaxIsolates /\ 0 \in 0 .. MaxEntered
    BY EmbeddingAssumption
  <2>2. born \in Seq(1 .. isolates)
    BY <1>2, EmptySeq
  <2> QED  BY <1>2, <2>1, <2>2 DEF EmbeddingTypes
<1>4. ASSUME NEW c \in Contexts PROVE Sheltered(c)
  <2>1. DOMAIN frames = {} /\ frames \in Seq(Frame)
    BY <1>1, EmptySeq DEF TypeOK
  <2>2. Activations(c) = {} /\ entered[c] = 0
    BY <1>2, <2>1 DEF Activations, ActivationsOf
  <2>3. Cardinality(Activations(c)) = 0
    BY <2>1, <2>2, ActivationsFinite DEF Activations
  <2> QED  BY <2>2, <2>3 DEF Sheltered
<1> QED  BY <1>1, <1>3, <1>4 DEF UnderInv, AllSheltered

\* A method call pushes an activation and enters the isolate.
LEMMA CallSheltered ==
    ASSUME UnderInv, NEW c \in Contexts, Call(c) \/ Access(c)
    PROVE  EmbeddingTypes' /\ AllSheltered'
<1>1. fault = "none" /\ frames \in Seq(Frame)
  BY PushSteps DEF UnderInv, TypeOK
<1>2. PICK f \in Frame : f.ctx = c /\ Enter(f)
  BY PushSteps
<1>3. /\ Lives(c) /\ entered[c] < MaxEntered
      /\ Register(c) \/ born' = born
      /\ entered' = [entered EXCEPT ![c] = entered[c] + 1]
      /\ UNCHANGED <<isolate, isolates, setup>>
  BY DEF Call, Access, EnterScope, Held
<1>4. entered \in [Contexts -> 0 .. MaxEntered] /\ MaxEntered \in Nat
  BY EmbeddingAssumption DEF UnderInv, EmbeddingTypes
<1>5. EmbeddingTypes'
  <2>1. entered[c] + 1 \in 0 .. MaxEntered
    BY <1>3, <1>4
  <2>2. entered' \in [Contexts -> 0 .. MaxEntered]
    BY <1>3, <1>4, <2>1
  <2>3. born' \in Seq(1 .. isolates)
    BY <1>3, RegisterType DEF UnderInv, EmbeddingTypes
  <2> QED  BY <1>3, <2>2, <2>3 DEF UnderInv, EmbeddingTypes
<1>6. ASSUME NEW d \in Contexts PROVE Sheltered(d)'
  <2>1. Sheltered(d) /\ Cardinality(Activations(d)) \in Nat /\ entered[d] \in Nat
    BY <1>1, <1>4, ActivationsFinite DEF UnderInv, AllSheltered, Activations
  <2>2. CASE d = c
    <3>1. Cardinality(Activations(d)') = Cardinality(Activations(d)) + 1
      BY <1>1, <1>2, <2>2, ActivationsPush
    <3>2. entered'[d] = entered[d] + 1 /\ isolate' = isolate
      BY <1>3, <1>4, <2>2
    <3>3. Cardinality(Activations(d)') <= entered'[d]
      BY <2>1, <3>1, <3>2 DEF Sheltered
    <3> QED  BY <1>3, <2>2, <3>2, <3>3 DEF Sheltered, Lives
  <2>3. CASE d # c
    <3>1. Activations(d)' = Activations(d)
      BY <1>1, <1>2, <2>3, ActivationsPush
    <3>2. entered'[d] = entered[d] /\ isolate' = isolate
      BY <1>3, <1>4, <2>3
    <3> QED  BY <2>1, <3>1, <3>2 DEF Sheltered, Lives
  <2> QED  BY <2>2, <2>3
<1> QED  BY <1>5, <1>6 DEF AllSheltered

\* Entering and leaving come in pairs except when a croak leaves the count too high,
\* and an isolate is only disposed when no one is in it.
LEMMA UnderStep ==
    ASSUME UnderInv, [EmbeddingNext]_embeddedVars
    PROVE  UnderInv'
<1>1. TypeOK /\ TypeOK' /\ frames \in Seq(Frame)
  BY LoopTypeStep DEF UnderInv, TypeOK
<1>2. /\ isolates \in 0 .. MaxIsolates
      /\ isolate \in [Contexts -> 0 .. isolates]
      /\ setup \in [Contexts -> {"none", "new", "reset", "done", "half"}]
      /\ entered \in [Contexts -> 0 .. MaxEntered]
      /\ born \in Seq(1 .. isolates)
      /\ MaxEntered \in Nat /\ MaxIsolates \in Nat
  BY EmbeddingAssumption DEF UnderInv, EmbeddingTypes
<1>3. ASSUME NEW c \in Contexts, Call(c) \/ Access(c) \/ New(c) \/ Reset(c)
      PROVE  UnderInv'
  BY <1>1, <1>3, CallSheltered, SetUpSheltered DEF UnderInv
<1>4. ASSUME frames # <<>>, fault = "none", Leave, isolate' = isolate,
             \/ entered' = entered
             \/ entered' = [entered EXCEPT ![Top.ctx] = entered[Top.ctx] - 1],
             UNCHANGED <<isolates, born>>,
             setup' \in [Contexts -> {"none", "new", "reset", "done", "half"}]
      PROVE  UnderInv'
  <2>1. AllSheltered' /\ entered' \in [Contexts -> 0 .. MaxEntered]
    BY <1>4, PopSheltered
  <2> QED  BY <1>1, <1>2, <1>4, <2>1 DEF UnderInv, EmbeddingTypes
<1>5. CASE Finish
  <2>1. /\ LoopExit /\ ExitScope /\ Registered
        /\ UNCHANGED <<isolate, isolates, born>>
    BY <1>5 DEF Finish
  <2>2. setup' \in [Contexts -> {"none", "new", "reset", "done", "half"}]
    BY <1>2, <2>1 DEF Registered
  <2>3. CASE Leave /\ Len(frames') < Len(frames)
    <3>1. frames # <<>> /\ fault = "none"
      BY <1>1, <2>1, ExitFrames
    <3>2. entered' = [entered EXCEPT ![Top.ctx] = entered[Top.ctx] - 1]
      BY <2>1, <2>3 DEF ExitScope
    <3> QED  BY <1>4, <2>1, <2>2, <2>3, <3>1, <3>2
  <2>4. CASE SameContexts /\ ~ (Len(frames') < Len(frames))
    <3>1. fault = "none" /\ entered' = entered
      BY <1>1, <2>1, <2>4, ExitFrames DEF ExitScope
    <3>2. AllSheltered'
      BY <1>1, <2>1, <2>4, <3>1, SameSheltered
    <3> QED  BY <1>1, <1>2, <2>1, <2>2, <3>1, <3>2 DEF UnderInv, EmbeddingTypes
  <2> QED  BY <1>1, <2>1, <2>3, <2>4, ExitFrames
<1>6. CASE Throw \/ AccessReturn
  <2>1. /\ frames # <<>> /\ fault = "none" /\ Leave /\ isolate' = isolate
        /\ UNCHANGED <<isolates, born, setup>> /\ ExitScope
    BY <1>6 DEF Throw, AccessReturn, ScriptThrow, At
  <2> QED  BY <1>2, <1>4, <2>1 DEF ExitScope
<1>7. CASE Jump
  <2>1. /\ frames # <<>> /\ fault = "none" /\ Leave
        /\ UNCHANGED <<isolate, isolates, born, setup, entered>>
    BY <1>7 DEF Jump, Die, InJavaScript, At
  <2> QED  BY <1>2, <1>4, <2>1
<1>8. CASE JumpOutOfNew
  <2>1. /\ frames # <<>> /\ fault = "none" /\ Leave /\ SetsUp
        /\ isolate' = [isolate EXCEPT ![Top.ctx] = 0]
        /\ entered' = [entered EXCEPT ![Top.ctx] = 0]
        /\ setup' = [setup EXCEPT ![Top.ctx] = "none"]
        /\ UNCHANGED <<isolates, born>>
    BY <1>8 DEF JumpOutOfNew, Die, InJavaScript, At
  <2>2. EmbeddingTypes'
    <3>1. 0 \in 0 .. isolates /\ 0 \in 0 .. MaxEntered
      BY <1>2
    <3>2. isolate' \in [Contexts -> 0 .. isolates]
      BY <1>2, <2>1, <3>1
    <3>3. entered' \in [Contexts -> 0 .. MaxEntered]
      BY <1>2, <2>1, <3>1
    <3>4. setup' \in [Contexts -> {"none", "new", "reset", "done", "half"}]
      BY <1>2, <2>1
    <3> QED  BY <1>2, <2>1, <3>2, <3>3, <3>4 DEF EmbeddingTypes
  <2>3. ASSUME NEW c \in Contexts PROVE Sheltered(c)'
    <3>1. Sheltered(c)
      BY <2>1 DEF UnderInv, AllSheltered
    <3>2. CASE c = Top.ctx
      <4>1. Activations(c)' = {}
        BY <1>1, <2>1, <3>2, ActivationsPop DEF SetsUp
      <4>2. Cardinality(Activations(c)') = 0
        BY <1>1, <4>1, FS_EmptySet
      <4>3. entered'[c] = 0
        BY <1>2, <2>1, <3>2
      <4> QED  BY <4>1, <4>2, <4>3 DEF Sheltered
    <3>3. CASE c # Top.ctx
      <4>1. Activations(c)' = Activations(c)
        BY <1>1, <2>1, <3>3, ActivationsPop
      <4>2. entered'[c] = entered[c] /\ isolate'[c] = isolate[c]
        BY <1>2, <2>1, <3>3
      <4> QED  BY <3>1, <4>1, <4>2 DEF Sheltered, Lives
    <3> QED  BY <3>2, <3>3
  <2> QED  BY <1>1, <2>2, <2>3 DEF UnderInv, AllSheltered
<1>9. CASE JumpOutOfReset
  <2>1. /\ frames # <<>> /\ fault = "none" /\ Leave
        /\ setup' = [setup EXCEPT ![Top.ctx] = "half"]
        /\ UNCHANGED <<isolate, isolates, born, entered>>
    BY <1>9 DEF JumpOutOfReset, Die, InJavaScript, At
  <2>2. setup' \in [Contexts -> {"none", "new", "reset", "done", "half"}]
    BY <1>2, <2>1
  <2> QED  BY <1>2, <1>4, <2>1, <2>2
<1>10. CASE Script
  <2>1. /\ fault = "none" /\ frames # <<>> /\ frames' = frames /\ Register(Top.ctx)
        /\ UNCHANGED <<isolate, isolates, setup, entered>>
    BY <1>10 DEF Script, SetTimeout, SetInterval, CreateTimer, InJavaScript, At
  <2>2. SameContexts
    BY <2>1 DEF SameContexts
  <2>3. AllSheltered'
    BY <1>1, <2>1, <2>2, SameSheltered
  <2>4. born' \in Seq(1 .. isolates)
    BY <2>1, TopSheltered, RegisterType DEF UnderInv
  <2> QED  BY <1>1, <1>2, <2>1, <2>3, <2>4 DEF UnderInv, EmbeddingTypes
<1>11. CASE Run
  <2>1. UNCHANGED embedding
    BY <1>11 DEF Run
  <2>2. EmbeddingTypes'
    BY <2>1 DEF UnderInv, EmbeddingTypes
  <2>3. CASE fault = "none"
    <3>1. AllSheltered'
      BY <1>1, <1>11, <2>1, <2>3, RunSame, SameSheltered DEF RunsOn
    <3> QED  BY <1>1, <2>2, <3>1 DEF UnderInv
  <2>4. CASE fault # "none"
    <3>1. fault' = fault
      BY <2>4, AliveBefore DEF embeddedVars, vars
    <3> QED  BY <1>1, <2>2, <2>4, <3>1 DEF UnderInv, AllSheltered
  <2> QED  BY <2>3, <2>4
<1>12. ASSUME NEW c \in Contexts, Destroy(c) PROVE UnderInv'
  <2>1. /\ fault = "none" /\ entered[c] = 0
        /\ isolate' = [isolate EXCEPT ![c] = 0]
        /\ setup' = [setup EXCEPT ![c] = "none"]
        /\ frames' = frames /\ UNCHANGED <<isolates, entered, born>>
    BY <1>12 DEF Destroy, PerlRuns, vars
  <2>2. EmbeddingTypes'
    <3>1. 0 \in 0 .. isolates
      BY <1>2
    <3>2. isolate' \in [Contexts -> 0 .. isolates]
      BY <1>2, <2>1, <3>1
    <3>3. setup' \in [Contexts -> {"none", "new", "reset", "done", "half"}]
      BY <1>2, <2>1
    <3> QED  BY <1>2, <2>1, <3>2, <3>3 DEF EmbeddingTypes
  <2>3. ASSUME NEW d \in Contexts PROVE Sheltered(d)'
    <3>1. Sheltered(d) /\ Activations(d)' = Activations(d)
      BY <2>1 DEF UnderInv, AllSheltered, Activations
    <3>2. d # c => isolate'[d] = isolate[d]
      BY <1>2, <2>1
    <3>3. ASSUME d = c PROVE Activations(d) = {}
      <4>1. Cardinality(Activations(d)) \in Nat /\ Cardinality(Activations(d)) <= 0
        BY <1>1, <2>1, <3>1, <3>3, ActivationsFinite DEF Sheltered, Activations
      <4>2. Cardinality(Activations(d)) = 0
        BY <4>1
      <4> QED  BY <1>1, <4>2, ActivationsFinite DEF Activations
    <3> QED  BY <2>1, <3>1, <3>2, <3>3 DEF Sheltered, Lives
  <2> QED  BY <1>1, <2>2, <2>3 DEF UnderInv, AllSheltered
<1>13. CASE Aborts
  BY <1>1, <1>13 DEF Aborts, UnderInv, EmbeddingTypes, AllSheltered
<1>14. CASE UNCHANGED embeddedVars
  BY <1>1, <1>14 DEF embeddedVars, vars, UnderInv, EmbeddingTypes, AllSheltered,
     Sheltered, Activations, Lives
<1> QED  BY <1>3, <1>5, <1>6, <1>7, <1>8, <1>9, <1>10, <1>11, <1>12, <1>13, <1>14,
            AbortSteps DEF EmbeddingNext

\* reset and DESTROY never dispose an isolate while an activation of pl_eval
\* is in it, and every activation holds an entry of its own: for any nesting of
\* methods through Perl subs, callbacks that reach eval and subs that die
\* included.
THEOREM NeverUnderfoot == EmbeddingSpec => []NotUnderfoot
BY UnderInit, UnderStep, ShelteredFrames, PTL DEF EmbeddingSpec
----------------------------------------------------------------------------
(* Whose isolate a timer was armed in, as long as callbacks do not reach    *)
(* eval.                                                                    *)

\* A timer was abandoned, or its object has an activation and still has the
\* isolate the timer was armed in.
Attached(t) ==
    \/ t.id \in abandoned
    \/ Activations(t.v8_func) # {} /\ born[t.id] = isolate[t.v8_func]

AllAttached ==
    /\ \A i \in 1 .. Len(timer_list) : Attached(timer_list[i])
    /\ CallbackRuns => Attached(timer_expiring)

\* A callback runs in its own object, or the process is lost.
OwnCallback == fault = "none" /\ CallbackRuns => timer_expiring.v8_func = Top.ctx

UnderSetUp(c) == setup[c] \in {"new", "reset"}

\* The set_up of an object is the innermost activation, and its only one.
SetUpOnTop ==
    \A c \in Contexts : UnderSetUp(c) =>
        /\ frames # <<>> /\ Top.ctx = c /\ Top.pc # "script"
        /\ \A i \in 1 .. Len(frames) - 1 : frames[i].ctx # c

\* No timer was armed in the isolate of an object under construction, unless
\* some timer was abandoned.
NewIsolateQuiet ==
    \A c \in Contexts : UnderSetUp(c) =>
        abandoned # {} \/ \A k \in 1 .. Len(born) : born[k] # isolate[c]

HalfAbandoned == (\E c \in Contexts : setup[c] = "half") => abandoned # {}

\* Every timer ever armed has its isolate on record.
OneBirthEach == Len(born) = timer_next_id - 1

History ==
    /\ OneBirthEach
    /\ abandoned \subseteq 1 .. Len(born)
    /\ AllAttached
    /\ OwnCallback
    /\ SetUpOnTop
    /\ NewIsolateQuiet
    /\ HalfAbandoned

EmbeddingInv == IdInv /\ UnderInv /\ History

\* What the invariants say of the variables.
LEMMA HistoryFacts ==
    ASSUME EmbeddingInv
    PROVE  /\ TypeOK /\ ScriptsBelow /\ EmbeddingTypes
           /\ timer_list \in Seq(Timer) /\ Len(timer_list) \in Nat
           /\ DOMAIN timer_list = 1 .. Len(timer_list)
           /\ timer_expiring \in Timer /\ timer_next_id \in Nat \ {0}
           /\ frames \in Seq(Frame) /\ Len(frames) \in Nat
           /\ born \in Seq(1 .. isolates) /\ Len(born) \in Nat
           /\ isolates \in Nat
           /\ 1 .. Len(born) = 1 .. timer_next_id - 1
           /\ Ids(timer_list) \subseteq 1 .. Len(born)
           /\ \A i \in 1 .. Len(timer_list) : timer_list[i].id \in 1 .. Len(born)
           /\ CallbackRuns => timer_expiring.id \in 1 .. Len(born)
<1>1. TypeOK /\ ScriptsBelow /\ EmbeddingTypes /\ IdInv /\ OneBirthEach
  BY DEF EmbeddingInv, IdInv, UnderInv, History
<1>2. /\ timer_list \in Seq(Timer) /\ Len(timer_list) \in Nat
      /\ DOMAIN timer_list = 1 .. Len(timer_list)
      /\ timer_expiring \in Timer /\ timer_next_id \in Nat \ {0}
      /\ frames \in Seq(Frame) /\ Len(frames) \in Nat
  BY <1>1, LenProperties DEF TypeOK
<1>3. born \in Seq(1 .. isolates) /\ Len(born) \in Nat /\ isolates \in Nat
  BY <1>1, LenProperties, EmbeddingAssumption DEF EmbeddingTypes
<1>4. 1 .. Len(born) = 1 .. timer_next_id - 1
  BY <1>1 DEF OneBirthEach
<1>5. \A i \in 1 .. Len(timer_list) : timer_list[i].id \in 1 .. Len(born)
  BY <1>1, <1>4 DEF IdInv, AllWaiting, Waiting
<1>6. Ids(timer_list) \subseteq 1 .. Len(born)
  BY <1>2, <1>5 DEF Ids
<1>7. CallbackRuns => timer_expiring.id \in 1 .. Len(born)
  BY <1>1, <1>4 DEF IdInv, RunningOne
<1> QED  BY <1>1, <1>2, <1>3, <1>4, <1>5, <1>6, <1>7

\* Births are only added.
LEMMA RegisterFacts ==
    ASSUME EmbeddingTypes, NEW c \in Contexts, Lives(c), Register(c),
           timer_next_id' # timer_next_id
    PROVE  /\ Len(born') = Len(born) + 1 /\ born'[Len(born) + 1] = isolate[c]
           /\ \A k \in 1 .. Len(born) : born'[k] = born[k]
<1>1. isolate[c] \in 1 .. isolates /\ born \in Seq(1 .. isolates)
  BY EmbeddingAssumption DEF EmbeddingTypes, Lives
<1>2. born' = Append(born, isolate[c])
  BY DEF Register
<1> QED  BY <1>1, <1>2, AppendProperties

\* What keeps a timer attached.
LEMMA AttachedStays ==
    ASSUME NEW t, Attached(t), abandoned \subseteq abandoned',
           born'[t.id] = born[t.id],
           Activations(t.v8_func) # {} =>
               Activations(t.v8_func)' # {} /\ isolate'[t.v8_func] = isolate[t.v8_func]
    PROVE  Attached(t)'
BY DEF Attached

\* The invariant of the objects when the timers that are listed are those that
\* were, and the innermost activation runs no callback.
LEMMA AttachedSame ==
    ASSUME EmbeddingInv, timer_list' = timer_list, born' = born,
           abandoned \subseteq abandoned', ~ CallbackRuns',
           \A c \in Contexts \cup {NoFunc} : Activations(c) # {} =>
               Activations(c)' # {} /\ isolate'[c] = isolate[c]
    PROVE  AllAttached'
<1>1. \A i \in 1 .. Len(timer_list) :
         Attached(timer_list[i]) /\ timer_list[i].v8_func \in Contexts \cup {NoFunc}
  <2>1. \A i \in 1 .. Len(timer_list) : timer_list[i] \in Timer
    BY HistoryFacts, ElementOfSeq
  <2> QED  BY <2>1 DEF EmbeddingInv, History, AllAttached, Timer
<1>2. ASSUME NEW i \in 1 .. Len(timer_list) PROVE Attached(timer_list[i])'
  <2> DEFINE t == timer_list[i]
  <2>1. Attached(t)
    BY <1>1
  <2>2. Activations(t.v8_func) # {} =>
            Activations(t.v8_func)' # {} /\ isolate'[t.v8_func] = isolate[t.v8_func]
    BY <1>1
  <2>3. PICK u : u = t
    OBVIOUS
  <2>4. Attached(u)'
    BY <2>1, <2>2, <2>3, AttachedStays
  <2> QED  BY <2>3, <2>4
<1> QED  BY <1>2 DEF AllAttached

\* What is known of the timers stays known when objects are created and reset.
LEMMA IdStepEmbedding ==
    ASSUME ~ CallbackReenters, IdInv, [EmbeddingNext]_embeddedVars
    PROVE  IdInv'
<1>1. CASE [Next]_vars
  BY <1>1, IdStep
<1>2. ASSUME NEW c \in Contexts, New(c) \/ Reset(c) PROVE IdInv'
  <2>1. /\ TypeOK /\ TypeOK' /\ ScriptsBelow
    BY LoopTypeStep DEF IdInv
  <2>2. /\ PerlRuns /\ Enter(Fresh(c, "loop", TRUE))
        /\ UNCHANGED <<timers, clock, fault, gone>>
    BY <1>2 DEF New, Reset, SetUp
  <2>3. Fresh(c, "loop", TRUE) \in Frame /\ Fresh(c, "loop", TRUE).pc = "loop"
    BY FreshType DEF Pcs, Fresh
  <2>4. ScriptsBelow' /\ ~ CallbackRuns' /\ ~ InRound' /\ ~ InRound
    BY <2>1, <2>2, <2>3, EnterControl
  <2> QED  BY <2>1, <2>2, <2>4 DEF IdInv, DistinctIds, AllWaiting, Waiting,
           ExpiringApart, RunningOne, NoEmptyCallback
<1>3. CASE Aborts
  <2>1. TypeOK'
    BY LoopTypeStep DEF IdInv
  <2> QED  BY <1>3, <2>1 DEF Aborts, IdInv, ScriptsBelow, DistinctIds, AllWaiting,
           Waiting, ExpiringApart, RunningOne, NoEmptyCallback, CallbackRuns, InRound, Top
<1> QED  BY <1>1, <1>2, <1>3, LoopSteps

\* Perl only runs in a script, so no set_up is under way then.
LEMMA PerlRunsQuiet ==
    ASSUME ~ CallbackReenters, EmbeddingInv, PerlRuns
    PROVE  /\ \A c \in Contexts : ~ UnderSetUp(c)
           /\ ~ CallbackRuns
<1>1. frames # <<>> => Top.pc = "script"
  BY DEF PerlRuns, At, Top
<1> QED  BY <1>1 DEF EmbeddingInv, History, SetUpOnTop, CallbackRuns

\* When JavaScript runs in an object under construction, it is in a callback
\* that was left over: some timer was abandoned.
LEMMA SetUpCallback ==
    ASSUME EmbeddingInv, NEW c \in Contexts, UnderSetUp(c), CallbackRuns,
           timer_expiring.v8_func = Top.ctx
    PROVE  abandoned # {}
<1>1. SetUpOnTop /\ NewIsolateQuiet /\ Attached(timer_expiring)
  BY DEF EmbeddingInv, History, AllAttached
<1>2. timer_expiring.v8_func = c
  BY <1>1 DEF SetUpOnTop
<1>3. timer_expiring.id \in 1 .. Len(born)
  BY HistoryFacts
<1> QED  BY <1>1, <1>2, <1>3 DEF NewIsolateQuiet, Attached

\* Code that runs while an object is being set up is a callback the object's own
\* loop did not expect: some activation abandoned a timer.
LEMMA InJavaScriptQuiet ==
    ASSUME EmbeddingInv, NEW c \in Contexts, UnderSetUp(c), InJavaScript
    PROVE  abandoned # {}
<1>1. fault = "none" /\ frames # <<>> /\ Top.pc \in {"script", "callback"}
  BY DEF InJavaScript, At, Top
<1>2. Top.pc # "script"
  BY DEF EmbeddingInv, History, SetUpOnTop
<1>3. CallbackRuns /\ timer_expiring.v8_func = Top.ctx
  BY <1>1, <1>2 DEF CallbackRuns, EmbeddingInv, History, OwnCallback
<1> QED  BY <1>3, SetUpCallback

\* The timers after a step of Run: those that were listed, the one whose
\* callback ran, and the one whose callback runs.
LEMMA RunTimers ==
    ASSUME ~ CallbackReenters, EmbeddingInv, Run
    PROVE  /\ timer_next_id' = timer_next_id
           /\ \A i \in 1 .. Len(timer_list') :
                 \/ \E k \in 1 .. Len(timer_list) : timer_list'[i] = timer_list[k]
                 \/ CallbackRuns /\ timer_list'[i] = timer_expiring
           /\ CallbackRuns' =>
                 \E t \in Timer :
                    /\ t.id = timer_expiring'.id /\ t.v8_func = timer_expiring'.v8_func
                    /\ \/ /\ \E k \in 1 .. Len(timer_list) : t = timer_list[k]
                          /\ fault' = "none" => t.v8_func = Top.ctx
                       \/ CallbackRuns /\ t = timer_expiring /\ (fault' = "none" => fault = "none")
<1>1. /\ [Next]_vars /\ TypeOK /\ TypeOK' /\ ScriptsBelow /\ IdInv
      /\ timer_list \in Seq(Timer) /\ timer_expiring \in Timer
      /\ DOMAIN timer_list = 1 .. Len(timer_list) /\ timer_next_id \in Nat
  BY TypeStep, HistoryFacts DEF Run, Next, EmbeddingInv
<1>2. TimerStep
  BY <1>1, TimerSteps
<1>3. timer_next_id' = timer_next_id
  BY DEF Run, ClearTimer, DeleteExpiring, DeleteListed, ScriptReturn,
     CreateTimerAborts, RoundStart, Expire, CallbackReturn, Requeue,
     RequeueOverrun, RoundEnd, Poll, PollReturn, PollInterrupted, Tick, StepBack,
     Lost, vars
<1>4. fault # "none" => fault' = fault
  BY AliveBefore DEF EmbeddingNext, embeddedVars, vars
<1>5. CASE Quiet
  BY <1>1, <1>3, <1>4, <1>5 DEF Quiet
<1>6. CASE Arms
  BY <1>1, <1>3, <1>6 DEF Arms, AddTimer
<1>7. ASSUME NEW d \in 0 .. MaxId, DeleteExpiring(d)
      PROVE  /\ timer_list' = timer_list /\ CallbackRuns' = CallbackRuns
             /\ timer_expiring'.id = timer_expiring.id
             /\ timer_expiring'.v8_func = timer_expiring.v8_func
  BY <1>1, <1>7 DEF DeleteExpiring, Timer, CallbackRuns, Top
<1>8. ASSUME NEW d \in 0 .. MaxId, DeleteListed(d)
      PROVE  /\ timer_expiring' = timer_expiring /\ CallbackRuns' = CallbackRuns
             /\ \A i \in 1 .. Len(timer_list') :
                   \E k \in 1 .. Len(timer_list) : timer_list'[i] = timer_list[k]
  <2>1. PICK k \in 1 .. Len(timer_list) : timer_list' = RemoveAt(timer_list, k)
    BY <1>1, <1>8 DEF DeleteListed
  <2>2. \A i \in 1 .. Len(timer_list') :
           \E l \in 1 .. Len(timer_list) : timer_list'[i] = timer_list[l]
    BY <1>1, <2>1, IdsRemove DEF IdInv
  <2> QED  BY <1>8, <2>2 DEF DeleteListed, CallbackRuns, Top
<1>9. CASE Expire
  <2> DEFINE t == Last(timer_list)
  <2>1. /\ timer_list # <<>> /\ timer_list' = Front(timer_list)
        /\ timer_expiring' = Expiring(t) /\ ~ CallbackRuns
        /\ fault' = "none" => t.v8_func = Top.ctx
    BY <1>9 DEF Expire, MayExpire, At, CallbackRuns, Top
  <2>2. /\ Len(timer_list) \in 1 .. Len(timer_list) /\ t \in Timer
        /\ t = timer_list[Len(timer_list)]
        /\ timer_list' = RemoveAt(timer_list, Len(timer_list))
    BY <1>1, <2>1, FrontFacts, FrontRemoves
  <2>3. \A i \in 1 .. Len(timer_list') :
           \E l \in 1 .. Len(timer_list) : timer_list'[i] = timer_list[l]
    BY <1>1, <2>2, IdsRemove DEF IdInv
  <2>4. timer_expiring'.id = t.id /\ timer_expiring'.v8_func = t.v8_func
    BY <2>1, <2>2 DEF Expiring, Timer
  <2> QED  BY <1>3, <2>1, <2>2, <2>3, <2>4
<1>10. CASE Requeue
  <2>1. /\ CallbackRuns /\ PushAndBubble(timer_expiring) /\ frames # <<>>
    BY <1>10 DEF Requeue, At, CallbackRuns, Top
  <2>2. \A i \in 1 .. Len(timer_list') :
           \/ timer_list'[i] = timer_expiring
           \/ \E k \in 1 .. Len(timer_list) : timer_list'[i] = timer_list[k]
    BY <1>1, <2>1, IdsPush
  <2> DEFINE f == [Top EXCEPT !.pc = "round"]
  <2>3. Goto(f) /\ f.pc = "round"
    BY <1>1, <1>10, <2>1, TopFacts DEF Requeue, TypeOK, Frame
  <2> HIDE DEF f
  <2>4. ~ CallbackRuns'
    BY <1>1, <2>1, <2>3, GotoControl DEF CallbackRuns
  <2> QED  BY <1>3, <2>1, <2>2, <2>4
<1>11. CASE RoundEnd
  <2>1. ~ CallbackRuns' /\ timer_list' = timer_list
    BY <1>1, <1>11, OutOfRound DEF RoundEnd
  <2> QED  BY <1>3, <2>1
<1>12. ASSUME NEW d \in 0 .. MaxId, DeleteExpiring(d) \/ DeleteListed(d)
       PROVE  /\ timer_next_id' = timer_next_id
              /\ \A i \in 1 .. Len(timer_list') :
                    \E k \in 1 .. Len(timer_list) : timer_list'[i] = timer_list[k]
              /\ CallbackRuns' => CallbackRuns
              /\ timer_expiring'.id = timer_expiring.id
              /\ timer_expiring'.v8_func = timer_expiring.v8_func
  BY <1>3, <1>7, <1>8, <1>12
<1> QED  BY <1>1, <1>2, <1>4, <1>5, <1>6, <1>9, <1>10, <1>11, <1>12 DEF TimerStep

\* The steps of the event loop alone keep what the history variables say of each other.
LEMMA RunHistory ==
    ASSUME ~ CallbackReenters, EmbeddingInv, TypeOK', Run
    PROVE  History'
<1>1. /\ UNCHANGED embedding /\ timer_next_id' = timer_next_id
      /\ frames \in Seq(Frame) /\ frames' \in Seq(Frame) /\ RunsOn /\ TypeOK
      /\ SameContexts
  BY RunTimers, RunSame, HistoryFacts DEF Run, TypeOK, RunsOn
<1>2. \A c : Activations(c)' = Activations(c)
  BY <1>1, ActivationsSame
<1>3. ASSUME NEW t, Attached(t) PROVE Attached(t)'
  BY <1>1, <1>2, <1>3 DEF Attached
<1>4. History
  BY DEF EmbeddingInv
<1>5. ASSUME frames # <<>> PROVE frames' # <<>> => Top'.ctx = Top.ctx
  <2>1. /\ Top = frames[Len(frames)] /\ Len(frames) \in 1 .. Len(frames)
        /\ Len(frames') = Len(frames)
        /\ frames'[Len(frames)].ctx = frames[Len(frames)].ctx
    BY <1>1, <1>5, TopFacts DEF SameContexts
  <2> QED  BY <2>1 DEF Top, Last
<1>6. frames' # <<>> => frames # <<>>
  <2>1. Len(frames) = Len(frames')
    BY <1>1 DEF SameContexts
  <2> QED  BY <1>1, <2>1, EmptySeq
<1>7. AllAttached'
  <2>1. ASSUME NEW i \in 1 .. Len(timer_list') PROVE Attached(timer_list[i])'
    <3>1. PICK t : t = timer_list'[i] /\ Attached(t)
      BY <1>4, RunTimers DEF History, AllAttached
    <3>2. Attached(t)'
      BY <1>3, <3>1
    <3> QED  BY <3>1, <3>2
  <2>2. ASSUME CallbackRuns' PROVE Attached(timer_expiring)'
    <3>1. PICK t : /\ t.id = timer_expiring'.id /\ t.v8_func = timer_expiring'.v8_func
                   /\ Attached(t)
      BY <1>4, <2>2, RunTimers DEF History, AllAttached
    <3>2. Attached(t)'
      BY <1>3, <3>1
    <3> QED  BY <3>1, <3>2 DEF Attached
  <2> QED  BY <2>1, <2>2 DEF AllAttached
<1>8. OwnCallback'
  <2> SUFFICES ASSUME fault' = "none", CallbackRuns'
               PROVE  timer_expiring'.v8_func = Top'.ctx
    BY DEF OwnCallback
  <2>1. frames' # <<>>
    BY DEF CallbackRuns
  <2>2. timer_expiring'.v8_func = Top.ctx
    BY <1>4, RunTimers DEF History, OwnCallback
  <2> QED  BY <1>5, <1>6, <2>1, <2>2
<1>9. SetUpOnTop'
  <2> SUFFICES ASSUME NEW c \in Contexts, UnderSetUp(c)'
               PROVE  /\ frames' # <<>> /\ Top'.ctx = c /\ Top'.pc # "script"
                      /\ \A i \in 1 .. Len(frames') - 1 : frames'[i].ctx # c
    BY DEF SetUpOnTop
  <2>1. /\ frames # <<>> /\ Top.ctx = c /\ Top.pc # "script"
        /\ \A i \in 1 .. Len(frames) - 1 : frames[i].ctx # c
    BY <1>1, <1>4 DEF History, SetUpOnTop, UnderSetUp
  <2>2. frames' # <<>> /\ Top'.pc # "script"
    BY <1>1, <2>1 DEF RunsOn
  <2>3. /\ Len(frames') = Len(frames) /\ Len(frames) \in Nat
        /\ \A i \in 1 .. Len(frames) : frames'[i].ctx = frames[i].ctx
    BY <1>1, LenProperties DEF SameContexts
  <2>4. \A i \in 1 .. Len(frames) - 1 : frames'[i].ctx # c
    BY <2>1, <2>3
  <2> QED  BY <1>5, <2>1, <2>2, <2>3, <2>4
<1> QED  BY <1>1, <1>4, <1>7, <1>8, <1>9
         DEF History, OneBirthEach, NewIsolateQuiet, UnderSetUp, HalfAbandoned

\* A timer that is armed in an object with an activation is attached.
LEMMA ArmAttached ==
    ASSUME EmbeddingInv, NEW c \in Contexts, NEW delay \in Delays \cup {0},
           NEW oneshot \in BOOLEAN, AddTimer(c, delay, oneshot),
           Lives(c), Register(c), UNCHANGED <<isolate, abandoned>>,
           \A d : Activations(d) # {} => Activations(d)' # {},
           Activations(c)' # {}
    PROVE  /\ OneBirthEach'
           /\ \A k \in 1 .. Len(born) : born'[k] = born[k]
           /\ Len(born') \in Nat /\ Len(born) < Len(born')
           /\ \A i \in 1 .. Len(timer_list') : Attached(timer_list[i])'
           /\ timer_expiring' = timer_expiring
<1>0. PICK t : t = NewTimer(c, delay, oneshot)
  OBVIOUS
<1>1. /\ TypeOK /\ EmbeddingTypes /\ timer_list \in Seq(Timer)
      /\ timer_next_id \in Nat /\ Len(born) \in Nat /\ OneBirthEach
      /\ AllAttached
  BY HistoryFacts DEF EmbeddingInv, History
<1>2. /\ t \in Timer /\ PushAndBubble(t)
      /\ timer_next_id' = timer_next_id + 1 /\ timer_expiring' = timer_expiring
  BY <1>0, <1>1, NewTimerType DEF AddTimer
<1>3. t.id = timer_next_id /\ t.v8_func = c
  BY <1>0 DEF NewTimer
<1>4. /\ Len(born') = Len(born) + 1 /\ born'[Len(born) + 1] = isolate[c]
      /\ \A k \in 1 .. Len(born) : born'[k] = born[k]
  <2>1. timer_next_id' # timer_next_id
    BY <1>1, <1>2
  <2> QED  BY <1>1, <2>1, RegisterFacts
<1>5. OneBirthEach' /\ timer_next_id = Len(born) + 1
  BY <1>1, <1>2, <1>4 DEF OneBirthEach
<1>6. Attached(t)'
  BY <1>3, <1>4, <1>5 DEF Attached
<1>7. ASSUME NEW k \in 1 .. Len(timer_list), NEW u, u = timer_list[k]
      PROVE  Attached(u)'
  <2>1. Attached(u) /\ u.id \in 1 .. Len(born)
    BY <1>1, <1>7, HistoryFacts DEF AllAttached
  <2>2. born'[u.id] = born[u.id]
    BY <1>4, <2>1
  <2>3. Activations(u.v8_func) # {} =>
            Activations(u.v8_func)' # {} /\ isolate'[u.v8_func] = isolate[u.v8_func]
    OBVIOUS
  <2> QED  BY <2>1, <2>2, <2>3, AttachedStays
<1>8. ASSUME NEW i \in 1 .. Len(timer_list') PROVE Attached(timer_list[i])'
  <2>1. PICK u : u = timer_list'[i] /\ (u = t \/ \E k \in 1 .. Len(timer_list) : u = timer_list[k])
    BY <1>1, <1>2, IdsPush
  <2>2. Attached(u)'
    BY <1>6, <1>7, <2>1
  <2> QED  BY <2>1, <2>2
<1>9. Len(born') \in Nat /\ Len(born) < Len(born')
  BY <1>1, <1>4
<1> QED  BY <1>2, <1>4, <1>5, <1>8, <1>9

\* A method call.
LEMMA CallHistory ==
    ASSUME ~ CallbackReenters, EmbeddingInv, NEW c \in Contexts, Call(c) \/ Access(c)
    PROVE  History'
<1>1. /\ TypeOK /\ ScriptsBelow /\ frames \in Seq(Frame) /\ History /\ PerlRuns
      /\ fault' = fault
  BY HistoryFacts, PushSteps DEF EmbeddingInv
<1>2. PICK f \in Frame : f.ctx = c /\ f.pc \in {"script", "loop"} /\ Enter(f)
  BY PushSteps
<1>3. ~ CallbackRuns'
  BY <1>1, <1>2, EnterControl
<1>4. /\ Lives(c) /\ UNCHANGED <<isolate, isolates, setup, abandoned>>
      /\ \/ Register(c) /\ (Eval(c) \/ Dispatch(c) \/ DispatchMalformed(c))
         \/ UNCHANGED <<timers, born>>
  BY DEF Call, Access, Held
<1>5. \A d \in Contexts : ~ UnderSetUp(d)'
  BY <1>1, <1>4, PerlRunsQuiet DEF UnderSetUp
<1>6. \A d : Activations(d) # {} => Activations(d)' # {}
  <2>1. ASSUME NEW d, Activations(d) # {} PROVE Activations(d)' # {}
    <3>1. /\ frames' \in Seq(Frame) /\ Len(frames') = Len(frames) + 1
          /\ \A i \in 1 .. Len(frames) : frames'[i] = frames[i]
          /\ DOMAIN frames = 1 .. Len(frames) /\ Len(frames) \in Nat
      BY <1>1, <1>2, EnterFacts, LenProperties
    <3>2. DOMAIN frames' = 1 .. Len(frames) + 1
      BY <3>1, LenProperties
    <3> QED  BY <2>1, <3>1, <3>2 DEF Activations, ActivationsOf
  <2> QED  BY <2>1
<1>7. Activations(c)' # {}
  <2>1. /\ frames' \in Seq(Frame) /\ frames' # <<>> /\ Last(frames') = f
    BY <1>1, <1>2, EnterFacts
  <2>2. Len(frames') \in DOMAIN frames' /\ frames'[Len(frames')] = f
    BY <2>1, FrontFacts, LenProperties
  <2> QED  BY <1>2, <2>2 DEF Activations, ActivationsOf
<1>8. CASE Register(c) /\ Dispatch(c)
  <2>1. AddTimer(c, 0, TRUE) /\ 0 \in Delays \cup {0} /\ Register(c)
    BY <1>8 DEF Dispatch
  <2>2. Lives(c) /\ UNCHANGED <<isolate, abandoned>>
    BY <1>4
  <2>3. TRUE \in BOOLEAN
    OBVIOUS
  <2>4. /\ OneBirthEach'
        /\ Len(born') \in Nat /\ Len(born) < Len(born')
        /\ \A i \in 1 .. Len(timer_list') : Attached(timer_list[i])'
    BY <1>6, <1>7, <2>1, <2>2, <2>3, ArmAttached
  <2>5. abandoned' \subseteq 1 .. Len(born')
    BY <1>1, <1>4, <2>4, HistoryFacts DEF History
  <2> QED  BY <1>1, <1>3, <1>4, <1>5, <2>5, <2>4
           DEF History, AllAttached, OwnCallback, SetUpOnTop, NewIsolateQuiet, HalfAbandoned
<1>9. CASE \/ Register(c) /\ (Eval(c) \/ DispatchMalformed(c))
           \/ UNCHANGED <<timers, born>>
  <2>1. UNCHANGED timers
    BY <1>9 DEF Eval, DispatchMalformed
  <2>2. born' = born
    BY <1>9, <2>1 DEF Register
  <2>3. AllAttached'
    BY <1>3, <1>4, <1>6, <2>1, <2>2, AttachedSame
  <2> QED  BY <1>1, <1>3, <1>4, <1>5, <2>1, <2>2, <2>3
           DEF History, OneBirthEach, OwnCallback, SetUpOnTop, NewIsolateQuiet, HalfAbandoned
<1> QED  BY <1>4, <1>8, <1>9

\* A script or a callback arms a timer.
LEMMA ScriptHistory ==
    ASSUME ~ CallbackReenters, EmbeddingInv, Script
    PROVE  History'
<1>1. PICK delay \in Delays \cup {0}, oneshot \in BOOLEAN : CreateTimer(delay, oneshot)
  BY DEF Script, SetTimeout, SetInterval, DelayGiven
<1>2. /\ InJavaScript /\ AddTimer(Top.ctx, delay, oneshot) /\ UNCHANGED <<frames, fault>>
      /\ fault = "none" /\ frames # <<>> /\ History /\ UnderInv
  BY <1>1 DEF CreateTimer, InJavaScript, At, EmbeddingInv
<1>3. Top.ctx \in Contexts /\ Lives(Top.ctx) /\ Register(Top.ctx)
      /\ UNCHANGED <<isolate, isolates, setup, entered, abandoned>>
  BY <1>2, TopSheltered DEF Script
<1>4. \A d : Activations(d)' = Activations(d)
  BY <1>2 DEF Activations
<1>5. PICK c \in Contexts : c = Top.ctx
  BY <1>3
<1>6. Activations(c)' # {}
  <2>1. Len(frames) \in DOMAIN frames /\ Top = frames[Len(frames)]
    BY <1>2, TopFacts, LenProperties, HistoryFacts
  <2>2. Len(frames) \in Activations(c)
    BY <1>5, <2>1 DEF Activations, ActivationsOf
  <2> QED  BY <1>4, <2>2
<1>7. /\ OneBirthEach'
      /\ \A k \in 1 .. Len(born) : born'[k] = born[k]
      /\ Len(born') \in Nat /\ Len(born) < Len(born')
      /\ \A i \in 1 .. Len(timer_list') : Attached(timer_list[i])'
      /\ timer_expiring' = timer_expiring
  BY <1>2, <1>3, <1>5, <1>4, <1>6, ArmAttached
<1>8. abandoned' \subseteq 1 .. Len(born')
  BY <1>2, <1>3, <1>7, HistoryFacts DEF History
<1>9. CallbackRuns' = CallbackRuns /\ Top' = Top
  BY <1>2 DEF CallbackRuns, Top
<1>10. CallbackRuns' => Attached(timer_expiring)'
  <2> SUFFICES ASSUME CallbackRuns PROVE Attached(timer_expiring)'
    BY <1>9
  <2>1. Attached(timer_expiring) /\ timer_expiring.id \in 1 .. Len(born)
    BY <1>2, HistoryFacts DEF History, AllAttached
  <2> QED  BY <1>3, <1>4, <1>7, <2>1 DEF Attached
<1>11. NewIsolateQuiet'
  <2>1. ASSUME NEW d \in Contexts, UnderSetUp(d)' PROVE abandoned' # {}
    BY <1>2, <1>3, <2>1, InJavaScriptQuiet DEF UnderSetUp
  <2> QED  BY <2>1 DEF NewIsolateQuiet
<1> QED  BY <1>2, <1>3, <1>7, <1>8, <1>9, <1>10, <1>11
         DEF History, AllAttached, OwnCallback, SetUpOnTop, UnderSetUp, HalfAbandoned

\* No timer is left when a loop ends.
LEMMA FinishHistory ==
    ASSUME ~ CallbackReenters, EmbeddingInv, TypeOK', Finish
    PROVE  History'
<1>1. /\ LoopExit /\ ExitScope /\ Registered
      /\ UNCHANGED <<isolate, isolates, born, abandoned>>
      /\ TypeOK /\ ScriptsBelow /\ History
      /\ frames \in Seq(Frame) /\ Len(frames) \in Nat
  BY HistoryFacts DEF Finish, EmbeddingInv
<1>2. /\ frames # <<>> /\ timer_list = <<>> /\ UNCHANGED <<timers, clock, gone>>
      /\ Top.ctx \in Contexts
  BY <1>1, ExitFrames, TopSheltered DEF EmbeddingInv
<1>3. ~ CallbackRuns'
  <2>1. CASE Leave
    BY <1>1, <1>2, <2>1, LeaveControl
  <2>2. CASE frames' # <<>> /\ Top'.pc = "loop"
    BY <2>2 DEF CallbackRuns
  <2> QED  BY <1>1, <2>1, <2>2, ExitFrames
<1>4. AllAttached'
  <2>1. Len(timer_list') = 0
    BY <1>2, EmptySeq
  <2> QED  BY <1>3, <2>1 DEF AllAttached
<1>5. setup \in [Contexts -> {"none", "new", "reset", "done", "half"}]
  BY DEF EmbeddingInv, UnderInv, EmbeddingTypes
<1>6. ASSUME NEW c \in Contexts, UnderSetUp(c)'
      PROVE  /\ UnderSetUp(c)
             /\ frames' # <<>> /\ Top'.ctx = c /\ Top'.pc # "script"
             /\ \A i \in 1 .. Len(frames') - 1 : frames'[i].ctx # c
  <2>1. UnderSetUp(c)
    BY <1>1, <1>5, <1>6 DEF Registered, UnderSetUp
  <2>2. /\ Top.ctx = c /\ Top.pc # "script"
        /\ \A i \in 1 .. Len(frames) - 1 : frames[i].ctx # c
    BY <1>1, <2>1 DEF History, SetUpOnTop
  <2>3. CASE Leave /\ Len(frames') < Len(frames)
    <3>1. SetsUp
      BY <2>1, <2>2 DEF SetsUp, UnderSetUp
    <3>2. setup' = [setup EXCEPT ![Top.ctx] = "done"]
      BY <1>1, <2>3, <3>1 DEF Registered
    <3>3. setup'[c] = "done"
      BY <1>5, <2>2, <3>2
    <3> QED  BY <1>6, <3>3 DEF UnderSetUp
  <2>4. CASE SameContexts /\ frames' # <<>> /\ Top'.pc = "loop" /\ Top'.ctx = Top.ctx
    <3>1. Len(frames') = Len(frames)
          /\ \A i \in 1 .. Len(frames) : frames'[i].ctx = frames[i].ctx
      BY <2>4 DEF SameContexts
    <3>2. \A i \in 1 .. Len(frames) - 1 : frames'[i].ctx # c
      BY <1>1, <2>2, <3>1
    <3> QED  BY <2>1, <2>2, <2>4, <3>1, <3>2
  <2> QED  BY <1>1, <2>3, <2>4, ExitFrames
<1>7. \A c \in Contexts : setup'[c] = "half" => setup[c] = "half"
  BY <1>1, <1>5 DEF Registered
<1> QED  BY <1>1, <1>2, <1>3, <1>4, <1>6, <1>7
         DEF History, OneBirthEach, OwnCallback, SetUpOnTop, NewIsolateQuiet, HalfAbandoned

\* An activation that ends without its loop abandons the timers of the objects
\* that have no other.
LEMMA AbandonHistory ==
    ASSUME ~ CallbackReenters, EmbeddingInv, Leave, frames # <<>>, Abandon,
           UNCHANGED <<timers, fault, born, isolates>>,
           \A d \in Contexts : Activations(d)' # {} => isolate'[d] = isolate[d],
           \A c \in Contexts : UnderSetUp(c)' => FALSE,
           (\E c \in Contexts : setup'[c] = "half") => abandoned' # {}
    PROVE  History'
<1>1. /\ TypeOK /\ ScriptsBelow /\ History /\ frames \in Seq(Frame)
      /\ DOMAIN timer_list = 1 .. Len(timer_list)
  BY HistoryFacts DEF EmbeddingInv
<1>2. ~ CallbackRuns' /\ frames' \in Seq(Frame)
  BY <1>1, LeaveControl, LeaveFacts
<1>3. ASSUME NEW i \in 1 .. Len(timer_list) PROVE Attached(timer_list[i])'
  <2>1. PICK t : t = timer_list[i]
    OBVIOUS
  <2>2. Attached(t) /\ abandoned \subseteq abandoned'
    BY <1>1, <2>1 DEF History, AllAttached, Abandon
  <2>3. CASE Activations(t.v8_func)' = {}
    <3>1. \A j \in DOMAIN frames' : frames'[j].ctx # t.v8_func
      BY <2>3 DEF Activations, ActivationsOf
    <3>2. t.id \in abandoned'
      BY <1>1, <2>1, <3>1 DEF Abandon
    <3> QED  BY <2>1, <3>2 DEF Attached
  <2>4. CASE Activations(t.v8_func)' # {}
    <3>1. Activations(t.v8_func) # {}
      BY <1>1, <2>4, ActivationsPop
    <3>2. t.v8_func \in Contexts
      <4>1. PICK j \in DOMAIN frames' : frames'[j].ctx = t.v8_func
        BY <2>4 DEF Activations, ActivationsOf
      <4>2. frames'[j] \in Frame
        BY <1>2, <4>1, LenProperties, ElementOfSeq
      <4> QED  BY <4>1, <4>2 DEF Frame
    <3>3. isolate'[t.v8_func] = isolate[t.v8_func]
      BY <2>4, <3>2
    <3> QED  BY <2>1, <2>2, <2>4, <3>1, <3>3 DEF Attached
  <2> QED  BY <2>3, <2>4
<1>4. AllAttached'
  BY <1>2, <1>3 DEF AllAttached
<1>5. abandoned' \subseteq 1 .. Len(born')
  <2>1. \A i \in DOMAIN timer_list : timer_list[i].id \in 1 .. Len(born)
    BY HistoryFacts
  <2> QED  BY <1>1, <2>1 DEF Abandon, History
<1> QED  BY <1>1, <1>2, <1>4, <1>5
         DEF History, OneBirthEach, OwnCallback, SetUpOnTop, NewIsolateQuiet, HalfAbandoned

\* So do the ways out of an activation: a script that throws, a method that runs
\* no loop, and the three croaks.
LEMMA LeaveHistory ==
    ASSUME ~ CallbackReenters, EmbeddingInv,
           Throw \/ AccessReturn \/ Jump \/ JumpOutOfNew \/ JumpOutOfReset
    PROVE  History'
<1>1. /\ Leave /\ frames # <<>> /\ UNCHANGED <<timers, fault, born, isolates>>
      /\ Abandon /\ abandoned \subseteq abandoned'
      /\ Throw \/ AccessReturn \/ InJavaScript
  BY DEF Throw, AccessReturn, Jump, JumpOutOfNew, JumpOutOfReset, ScriptThrow, Die,
     InJavaScript, At, Abandon
<1>2. \A d \in Contexts : Activations(d)' # {} => isolate'[d] = isolate[d]
  <2>1. CASE isolate' = isolate
    BY <2>1
  <2>2. CASE JumpOutOfNew
    <3>1. isolate' = [isolate EXCEPT ![Top.ctx] = 0] /\ SetsUp
      BY <2>2 DEF JumpOutOfNew
    <3>2. frames \in Seq(Frame) /\ isolate \in [Contexts -> 0 .. isolates]
      BY HistoryFacts DEF EmbeddingTypes
    <3>4. \A d \in Contexts : d # Top.ctx => isolate'[d] = isolate[d]
      BY <3>1, <3>2
    <3>3. ASSUME NEW d \in Contexts, Activations(d)' # {} PROVE d # Top.ctx
      <4>1. ASSUME d = Top.ctx PROVE FALSE
        <5>1. PICK e : e = Top.ctx
          OBVIOUS
        <5>2. Activations(e)' = {}
          BY <1>1, <3>1, <3>2, <5>1, ActivationsPop DEF SetsUp
        <5> QED  BY <3>3, <4>1, <5>1, <5>2
      <4> QED  BY <4>1
    <3> QED  BY <3>3, <3>4
  <2> QED  BY <2>1, <2>2 DEF Throw, AccessReturn, Jump, JumpOutOfReset
<1>3. /\ setup \in [Contexts -> {"none", "new", "reset", "done", "half"}]
      /\ SetUpOnTop /\ HalfAbandoned
  BY DEF EmbeddingInv, UnderInv, EmbeddingTypes, History
<1>4. CASE Throw \/ AccessReturn
  <2>1. setup' = setup /\ Top.pc = "script"
    BY <1>4 DEF Throw, AccessReturn, ScriptThrow, At, Top
  <2>2. \A c \in Contexts : UnderSetUp(c)' => FALSE
    BY <1>3, <2>1 DEF UnderSetUp, SetUpOnTop
  <2>3. (\E c \in Contexts : setup'[c] = "half") => abandoned' # {}
    BY <1>1, <1>3, <2>1 DEF HalfAbandoned
  <2> QED  BY <1>1, <1>2, <2>2, <2>3, AbandonHistory
<1>5. CASE Jump
  <2>1. setup' = setup /\ ~ SetsUp
    BY <1>5 DEF Jump
  <2>2. \A c \in Contexts : UnderSetUp(c)' => FALSE
    <3>1. ASSUME NEW c \in Contexts, UnderSetUp(c) PROVE SetsUp
      BY <1>3, <3>1 DEF UnderSetUp, SetUpOnTop, SetsUp
    <3> QED  BY <2>1, <3>1 DEF UnderSetUp
  <2>3. (\E c \in Contexts : setup'[c] = "half") => abandoned' # {}
    BY <1>1, <1>3, <2>1 DEF HalfAbandoned
  <2> QED  BY <1>1, <1>2, <2>2, <2>3, AbandonHistory
<1>6. CASE JumpOutOfNew \/ JumpOutOfReset
  <2>1. PICK state \in {"none", "half"} : setup' = [setup EXCEPT ![Top.ctx] = state]
    BY <1>6 DEF JumpOutOfNew, JumpOutOfReset
  <2>2. SetsUp /\ fault = "none" /\ InJavaScript
    BY <1>6 DEF JumpOutOfNew, JumpOutOfReset, Die, InJavaScript, At
  <2>3. Top.ctx \in Contexts
    BY <1>1, <2>2, TopSheltered DEF EmbeddingInv
  <2>4. UnderSetUp(Top.ctx)
    BY <2>2 DEF SetsUp, UnderSetUp
  <2>5. ASSUME NEW c \in Contexts, UnderSetUp(c)' PROVE FALSE
    <3>1. CASE c = Top.ctx
      BY <1>3, <2>1, <2>5, <3>1 DEF UnderSetUp
    <3>2. CASE c # Top.ctx
      <4>1. UnderSetUp(c)
        BY <1>3, <2>1, <2>5, <3>2 DEF UnderSetUp
      <4> QED  BY <1>3, <3>2, <4>1 DEF SetUpOnTop
    <3> QED  BY <3>1, <3>2
  <2>6. abandoned' # {}
    <3>1. abandoned # {}
      BY <2>2, <2>3, <2>4, InJavaScriptQuiet
    <3> QED  BY <1>1, <3>1
  <2> QED  BY <1>1, <1>2, <2>5, <2>6, AbandonHistory
<1> QED  BY <1>4, <1>5, <1>6

\* An object is created or reset: no activation is in it.
LEMMA SetUpHistory ==
    ASSUME ~ CallbackReenters, EmbeddingInv, NEW c \in Contexts, New(c) \/ Reset(c)
    PROVE  History'
<1>1. /\ TypeOK /\ ScriptsBelow /\ History /\ UnderInv /\ frames \in Seq(Frame)
      /\ fault = "none" /\ PerlRuns /\ Enter(Fresh(c, "loop", TRUE))
      /\ UNCHANGED <<timers, clock, fault, gone, born, abandoned>>
      /\ isolates' = isolates + 1
      /\ isolate' = [isolate EXCEPT ![c] = isolates + 1]
      /\ setup' \in {[setup EXCEPT ![c] = "new"], [setup EXCEPT ![c] = "reset"]}
  <2>1. SetUp(c) /\ PerlRuns
        /\ setup' \in {[setup EXCEPT ![c] = "new"], [setup EXCEPT ![c] = "reset"]}
    BY DEF New, Reset
  <2> QED  BY <2>1, HistoryFacts DEF SetUp, PerlRuns, EmbeddingInv
<1>2. PICK f \in Frame : f.ctx = c /\ f.pc = "loop" /\ Enter(f)
  <2>1. Fresh(c, "loop", TRUE) \in Frame /\ Fresh(c, "loop", TRUE).ctx = c
        /\ Fresh(c, "loop", TRUE).pc = "loop"
    BY FreshType DEF Pcs, Fresh
  <2> QED  BY <1>1, <2>1
<1>3. /\ isolate \in [Contexts -> 0 .. isolates] /\ isolates \in Nat
      /\ setup \in [Contexts -> {"none", "new", "reset", "done", "half"}]
      /\ entered \in [Contexts -> 0 .. MaxEntered] /\ MaxEntered \in Nat
      /\ born \in Seq(1 .. isolates)
  BY <1>1, EmbeddingAssumption DEF UnderInv, EmbeddingTypes
<1>4. Activations(c) = {}
  <2>1. Sheltered(c) /\ entered[c] \in Nat
    BY <1>1, <1>3 DEF UnderInv, AllSheltered
  <2>2. CASE New(c)
    BY <2>1, <2>2 DEF New, Sheltered
  <2>3. CASE Reset(c)
    <3>1. entered[c] = 0 /\ Cardinality(Activations(c)) \in Nat
      BY <1>1, <2>3, ActivationsFinite DEF Reset, Activations
    <3>2. Cardinality(Activations(c)) = 0
      BY <2>1, <3>1 DEF Sheltered
    <3> QED  BY <1>1, <3>2, ActivationsFinite DEF Activations
  <2> QED  BY <2>2, <2>3
<1>5. /\ frames' \in Seq(Frame) /\ Len(frames') = Len(frames) + 1
      /\ frames' # <<>> /\ Top' = f /\ Len(frames) \in Nat
      /\ \A i \in 1 .. Len(frames) : frames'[i] = frames[i]
      /\ DOMAIN frames = 1 .. Len(frames)
  BY <1>1, <1>2, EnterFacts, LenProperties DEF Top
<1>6. ~ CallbackRuns'
  BY <1>2, <1>5 DEF CallbackRuns
<1>7. AllAttached'
  <2>1. ASSUME NEW d \in Contexts \cup {NoFunc}, Activations(d) # {}
        PROVE  Activations(d)' # {} /\ isolate'[d] = isolate[d]
    <3>1. d # c
      BY <1>4, <2>1
    <3>2. Activations(d)' = Activations(d)
      BY <1>1, <1>2, <3>1, ActivationsPush
    <3>3. isolate'[d] = isolate[d]
      BY <1>1, <1>3, <3>1
    <3> QED  BY <2>1, <3>2, <3>3
  <2> QED  BY <1>1, <1>6, <2>1, AttachedSame
<1>8. ASSUME NEW d \in Contexts, UnderSetUp(d)' PROVE d = c
  <2>1. ~ UnderSetUp(d)
    BY <1>1, PerlRunsQuiet
  <2> QED  BY <1>1, <1>3, <1>8, <2>1 DEF UnderSetUp
<1>9. SetUpOnTop'
  <2>1. \A i \in 1 .. Len(frames) : frames'[i].ctx # c
    BY <1>4, <1>5 DEF Activations, ActivationsOf
  <2>2. \A i \in 1 .. Len(frames') - 1 : frames'[i].ctx # c
    BY <1>5, <2>1
  <2> QED  BY <1>2, <1>5, <1>8, <2>2 DEF SetUpOnTop
<1>10. NewIsolateQuiet'
  <2>1. isolate'[c] = isolates + 1
    BY <1>1, <1>3
  <2>2. \A k \in 1 .. Len(born) : born[k] \in 1 .. isolates
    BY <1>3, ElementOfSeq
  <2>3. \A k \in 1 .. Len(born) : born[k] # isolates + 1
    BY <1>3, <2>2
  <2> QED  BY <1>1, <1>8, <2>1, <2>3 DEF NewIsolateQuiet
<1>11. \A d \in Contexts : setup'[d] = "half" => setup[d] = "half"
  BY <1>1, <1>3
<1> QED  BY <1>1, <1>6, <1>7, <1>9, <1>10, <1>11
         DEF History, OneBirthEach, OwnCallback, HalfAbandoned

\* An object is destroyed: no activation is in it.
LEMMA DestroyHistory ==
    ASSUME ~ CallbackReenters, EmbeddingInv, NEW c \in Contexts, Destroy(c)
    PROVE  History'
<1>1. /\ UnderInv /\ History /\ frames \in Seq(Frame) /\ fault = "none" /\ PerlRuns
      /\ entered[c] = 0 /\ UNCHANGED <<vars, isolates, entered, born, abandoned>>
      /\ isolate' = [isolate EXCEPT ![c] = 0]
      /\ setup' = [setup EXCEPT ![c] = "none"]
  BY HistoryFacts DEF Destroy, PerlRuns, EmbeddingInv
<1>2. /\ isolate \in [Contexts -> 0 .. isolates]
      /\ setup \in [Contexts -> {"none", "new", "reset", "done", "half"}]
      /\ entered \in [Contexts -> 0 .. MaxEntered] /\ MaxEntered \in Nat
  BY <1>1, EmbeddingAssumption DEF UnderInv, EmbeddingTypes
<1>3. Activations(c) = {}
  <2>1. Cardinality(Activations(c)) \in Nat /\ Cardinality(Activations(c)) <= 0
    BY <1>1, ActivationsFinite DEF UnderInv, AllSheltered, Sheltered, Activations
  <2>2. Cardinality(Activations(c)) = 0
    BY <2>1
  <2> QED  BY <1>1, <2>2, ActivationsFinite DEF Activations
<1>4. ~ CallbackRuns' /\ timer_list' = timer_list /\ \A d : Activations(d)' = Activations(d)
  BY <1>1, PerlRunsQuiet DEF CallbackRuns, Top, vars, Activations
<1>5. \A d \in Contexts : d # c => isolate'[d] = isolate[d] /\ setup'[d] = setup[d]
  BY <1>1, <1>2
<1>6. setup'[c] = "none"
  BY <1>1, <1>2
<1>7. AllAttached'
  <2>1. ASSUME NEW d \in Contexts \cup {NoFunc}, Activations(d) # {}
        PROVE  Activations(d)' # {} /\ isolate'[d] = isolate[d]
    <3>1. d # c /\ Activations(d)' = Activations(d)
      BY <1>3, <1>4, <2>1
    <3>2. isolate'[d] = isolate[d]
      BY <1>1, <1>2, <3>1
    <3> QED  BY <2>1, <3>1, <3>2
  <2> QED  BY <1>1, <1>4, <2>1, AttachedSame
<1>8. \A d \in Contexts : ~ UnderSetUp(d)'
  BY <1>1, <1>5, <1>6, PerlRunsQuiet DEF UnderSetUp
<1>9. \A d \in Contexts : setup'[d] = "half" => setup[d] = "half"
  BY <1>5, <1>6
<1> QED  BY <1>1, <1>4, <1>7, <1>8, <1>9
         DEF History, OneBirthEach, OwnCallback, SetUpOnTop, NewIsolateQuiet, HalfAbandoned, vars

\* The inductive invariant of the composition holds at first.
LEMMA EmbeddingInvInit == EmbeddingInit => EmbeddingInv
<1> SUFFICES ASSUME EmbeddingInit PROVE EmbeddingInv
  OBVIOUS
<1>1. IdInv /\ UnderInv
  BY IdInit, UnderInit DEF EmbeddingInit
<1>2. /\ Len(timer_list) = 0 /\ timer_next_id = 1 /\ frames = <<>>
      /\ born = <<>> /\ Len(born) = 0 /\ abandoned = {}
      /\ setup = [c \in Contexts |-> "none"]
  BY DEF EmbeddingInit, Init
<1>3. OneBirthEach
  BY <1>2 DEF OneBirthEach
<1>4. \A c \in Contexts : setup[c] = "none"
  BY <1>2
<1> QED  BY <1>1, <1>2, <1>3, <1>4
         DEF EmbeddingInv, History, AllAttached, CallbackRuns, OwnCallback, SetUpOnTop,
             UnderSetUp, NewIsolateQuiet, HalfAbandoned

\* Every step of the composition keeps it.
LEMMA EmbeddingInvStep ==
    ASSUME ~ CallbackReenters, EmbeddingInv, [EmbeddingNext]_embeddedVars
    PROVE  EmbeddingInv'
<1>1. IdInv' /\ UnderInv' /\ TypeOK'
  BY IdStepEmbedding, UnderStep DEF EmbeddingInv, UnderInv
<1>2. History'
  <2>1. CASE Aborts
    BY <2>1 DEF Aborts, EmbeddingInv, History, OneBirthEach, AllAttached, Attached,
       Activations, CallbackRuns, Top, OwnCallback, SetUpOnTop, UnderSetUp,
       NewIsolateQuiet, HalfAbandoned
  <2>2. CASE UNCHANGED embeddedVars
    BY <2>2 DEF embeddedVars, vars, EmbeddingInv, History, OneBirthEach, AllAttached,
       Attached, Activations, CallbackRuns, Top, OwnCallback, SetUpOnTop, UnderSetUp,
       NewIsolateQuiet, HalfAbandoned
  <2> QED  BY <1>1, <2>1, <2>2, CallHistory, SetUpHistory, DestroyHistory, FinishHistory,
           LeaveHistory, ScriptHistory, RunHistory, AbortSteps DEF EmbeddingNext
<1> QED  BY <1>1, <1>2 DEF EmbeddingInv

\* So it holds in every reachable state, which the theorems below draw on.
LEMMA EmbeddingAlways == ~ CallbackReenters => (EmbeddingSpec => []EmbeddingInv)
<1> SUFFICES ASSUME ~ CallbackReenters PROVE EmbeddingSpec => []EmbeddingInv
  OBVIOUS
<1>1. EmbeddingInv /\ [EmbeddingNext]_embeddedVars => EmbeddingInv'
  BY EmbeddingInvStep
<1> QED  BY EmbeddingInvInit, <1>1, PTL DEF EmbeddingSpec

\* The activations of methods that run no loop stay in their getter or setter.
LooplessInScript == loopless \subseteq {i \in DOMAIN frames : frames[i].pc = "script"}

\* A step of Run leaves the stack alone, or goes on with an activation that may
\* have a loop.
LEMMA RunGoesOn ==
    ASSUME Run
    PROVE  \/ frames' = frames
           \/ /\ frames # <<>> /\ (Top.pc # "script" \/ ~ Accesses)
              /\ \E f : frames' = [frames EXCEPT ![Len(frames)] = f]
<1>1. CASE \/ \E id \in 0 .. MaxId : ClearTimer(id)
           \/ CreateTimerAborts \/ RequeueOverrun \/ StepBack \/ Lost
  BY <1>1 DEF ClearTimer, DeleteExpiring, DeleteListed, CreateTimerAborts,
     RequeueOverrun, StepBack, Lost, vars
<1>2. CASE ~ Accesses /\ ScriptReturn
  BY <1>2 DEF ScriptReturn, At, Goto
<1>3. CASE PollReturn \/ PollInterrupted \/ RoundEnd \/ RoundStart \/ Poll
  BY <1>3 DEF PollReturn, PollInterrupted, RoundEnd, RoundStart, Poll, At, Goto, Top
<1>4. CASE Expire \/ CallbackReturn \/ Requeue
  BY <1>4 DEF Expire, CallbackReturn, Requeue, At, Goto, Top
<1>5. CASE Tick
  <2>1. CASE At("poll") /\ Top.left > 0
    <3>1. frames # <<>> /\ Top.pc # "script"
      BY <2>1 DEF At, Top
    <3>2. \E f : frames' = [frames EXCEPT ![Len(frames)] = f]
      BY <1>5, <2>1 DEF Tick
    <3> QED  BY <3>1, <3>2
  <2>2. CASE ~ (At("poll") /\ Top.left > 0)
    BY <1>5, <2>2 DEF Tick
  <2> QED  BY <2>1, <2>2
<1> QED  BY <1>1, <1>2, <1>3, <1>4, <1>5 DEF Run

\* Only scripts throw, loops end and activations are left; what is below stays.
LEMMA LooplessStep ==
    ASSUME TypeOK, TypeOK', LooplessInScript, [EmbeddingNext]_embeddedVars
    PROVE  LooplessInScript'
<1>1. /\ frames \in Seq(Frame) /\ frames' \in Seq(Frame)
      /\ Len(frames) \in Nat /\ DOMAIN frames = 1 .. Len(frames)
      /\ Len(frames') \in Nat /\ DOMAIN frames' = 1 .. Len(frames')
  BY LenProperties DEF TypeOK
<1>2. \A i \in loopless : i \in 1 .. Len(frames) /\ frames[i].pc = "script"
  BY <1>1 DEF LooplessInScript
<1>3. ASSUME NEW c \in Contexts, Call(c) \/ Access(c) PROVE LooplessInScript'
  <2>1. PICK f \in Frame : Enter(f) /\ (Access(c) => f.pc = "script")
    <3>1. CASE Access(c)
      BY <3>1, FreshType DEF Access, Pcs, Fresh
    <3>2. CASE Call(c) /\ ~ Access(c)
      BY <3>2, PushSteps
    <3> QED  BY <1>3, <3>1, <3>2
  <2>2. /\ Len(frames') = Len(frames) + 1 /\ frames'[Len(frames) + 1] = f
        /\ \A i \in 1 .. Len(frames) : frames'[i] = frames[i]
    BY <1>1, <2>1, EnterFacts DEF Last
  <2>3. CASE Access(c)
    <3>1. loopless' = loopless \cup {Len(frames) + 1}
      BY <2>3 DEF Access
    <3> QED  BY <1>1, <1>2, <2>1, <2>2, <2>3, <3>1 DEF LooplessInScript
  <2>4. CASE Call(c)
    <3>1. loopless' = loopless
      BY <2>4 DEF Call
    <3> QED  BY <1>1, <1>2, <2>2, <3>1 DEF LooplessInScript
  <2> QED  BY <1>3, <2>3, <2>4
<1>4. ASSUME NEW c \in Contexts, New(c) \/ Reset(c) PROVE LooplessInScript'
  <2>1. Enter(Fresh(c, "loop", TRUE)) /\ loopless' = loopless
    BY <1>4 DEF New, Reset, SetUp
  <2>2. /\ Len(frames') = Len(frames) + 1
        /\ \A i \in 1 .. Len(frames) : frames'[i] = frames[i]
    BY <1>1, <2>1, FreshType, EnterFacts DEF Pcs
  <2> QED  BY <1>1, <1>2, <2>1, <2>2 DEF LooplessInScript
<1>5. ASSUME frames # <<>>, Leave, loopless' \subseteq loopless \ {Len(frames)}
      PROVE  LooplessInScript'
  <2>1. /\ Len(frames') = Len(frames) - 1
        /\ \A i \in 1 .. Len(frames) - 1 : frames'[i] = frames[i]
    BY <1>1, <1>5, LeaveFacts
  <2>2. \A i \in loopless' : i \in 1 .. Len(frames) - 1
    BY <1>1, <1>2, <1>5
  <2> QED  BY <1>1, <1>2, <1>5, <2>1, <2>2 DEF LooplessInScript
<1>6. ASSUME frames # <<>>, Len(frames) \notin loopless, loopless' = loopless,
             NEW f, frames' = [frames EXCEPT ![Len(frames)] = f]
      PROVE  LooplessInScript'
  <2>1. DOMAIN frames' = DOMAIN frames
    BY <1>6
  <2>2. \A i \in DOMAIN frames : i # Len(frames) => frames'[i] = frames[i]
    BY <1>6
  <2> QED  BY <1>1, <1>2, <1>6, <2>1, <2>2 DEF LooplessInScript
<1>7. frames # <<>> /\ Top.pc # "script" => Len(frames) \notin loopless
  BY <1>2 DEF Top, Last
<1>8. CASE Finish
  <2>1. LoopExit /\ loopless' = loopless /\ frames # <<>> /\ Top.pc = "wait"
    BY <1>8 DEF Finish, LoopExit, At, Top
  <2>2. Leave \/ \E f : frames' = [frames EXCEPT ![Len(frames)] = f]
    BY <2>1 DEF LoopExit, Goto
  <2> QED  BY <1>5, <1>6, <1>7, <2>1, <2>2
<1>9. CASE Throw \/ AccessReturn \/ Jump \/ JumpOutOfNew \/ JumpOutOfReset
  <2>1. frames # <<>> /\ Leave /\ loopless' = loopless \ {Len(frames)}
    BY <1>9 DEF Throw, AccessReturn, Jump, JumpOutOfNew, JumpOutOfReset, ScriptThrow, Die,
       InJavaScript, At, Abandon
  <2> QED  BY <1>5, <2>1
<1>10. CASE Run
  <2>1. loopless' = loopless
    BY <1>10 DEF Run
  <2>2. CASE frames' = frames
    BY <2>1, <2>2 DEF LooplessInScript
  <2>3. CASE /\ frames # <<>> /\ (Top.pc # "script" \/ ~ Accesses)
             /\ \E f : frames' = [frames EXCEPT ![Len(frames)] = f]
    BY <1>6, <1>7, <2>1, <2>3 DEF Accesses
  <2> QED  BY <1>10, <2>2, <2>3, RunGoesOn
<1>11. ASSUME UNCHANGED <<frames, loopless>> PROVE LooplessInScript'
  BY <1>11 DEF LooplessInScript
<1>12. CASE \/ Script \/ Aborts \/ UNCHANGED embeddedVars
            \/ \E c \in Contexts : Destroy(c)
  BY <1>11, <1>12 DEF Script, SetTimeout, SetInterval, CreateTimer, Aborts, Destroy,
     embeddedVars, vars
<1> QED  BY <1>3, <1>4, <1>8, <1>9, <1>10, <1>12, AbortSteps DEF EmbeddingNext

\* Every reachable state of the objects is well typed: in particular only
\* timers that were really armed are ever abandoned.
THEOREM ObjectsTyped ==
    ~ CallbackReenters => (EmbeddingSpec => []EmbeddingTypeOK)
<1>1. EmbeddingInit => LooplessInScript
  BY DEF EmbeddingInit, LooplessInScript
<1>2. /\ EmbeddingInv /\ EmbeddingInv' /\ LooplessInScript
      /\ [EmbeddingNext]_embeddedVars
      => LooplessInScript'
  BY LooplessStep DEF EmbeddingInv, UnderInv
<1>3. EmbeddingInv /\ LooplessInScript => EmbeddingTypeOK
  BY DEF EmbeddingInv, UnderInv, EmbeddingTypes, History, EmbeddingTypeOK, LooplessInScript
<1> QED  BY <1>1, <1>2, <1>3, EmbeddingAlways, PTL DEF EmbeddingSpec

\* A callback only gets to run in an object under construction if a timer was
\* abandoned before, by a script that threw, a croak, or a method that runs
\* getters but no loop, or if Perl creates or resets the object from JavaScript;
\* and a dying one leaves an object half set up only if one was abandoned.
THEOREM SetUpIsQuiet == ~ CallbackReenters => (EmbeddingSpec => []QuietSetUp)
<1>1. EmbeddingInv => QuietSetUp
  <2> SUFFICES ASSUME EmbeddingInv PROVE QuietSetUp
    OBVIOUS
  <2>1. ASSUME CallbackRuns, setup[Top.ctx] \in {"new", "reset"}, ~ (Len(frames) > 1)
        PROVE  abandoned # {}
    <3>1. /\ frames \in Seq(Frame) /\ frames # <<>> /\ History
          /\ DOMAIN frames = 1 .. Len(frames)
      BY <2>1, HistoryFacts, LenProperties DEF CallbackRuns, EmbeddingInv
    <3>2. Top \in Frame /\ Top = frames[Len(frames)] /\ Len(frames) \in Nat \ {0}
      BY <3>1, TopFacts
    <3>3. \A i \in DOMAIN frames : frames[i] = Top
      <4>1. Len(frames) = 1
        <5>1. PICK n \in Nat \ {0} : n = Len(frames)
          BY <3>2
        <5>2. ~ (n > 1)
          BY <2>1, <5>1
        <5>3. n = 1
          BY <5>2
        <5> QED  BY <5>1, <5>3
      <4> QED  BY <3>1, <3>2, <4>1
    <3>4. Attached(timer_expiring)
      BY <2>1, <3>1 DEF History, AllAttached
    <3>5. CASE timer_expiring.id \in abandoned
      BY <3>5
    <3>6. CASE Activations(timer_expiring.v8_func) # {}
      <4>1. timer_expiring.v8_func = Top.ctx
        BY <3>3, <3>6 DEF Activations, ActivationsOf
      <4>2. Top.ctx \in Contexts /\ UnderSetUp(Top.ctx)
        BY <2>1, <3>2 DEF Frame, UnderSetUp
      <4> QED  BY <2>1, <4>1, <4>2, SetUpCallback
    <3> QED  BY <3>4, <3>5, <3>6 DEF Attached
  <2>2. (\E c \in Contexts : setup[c] = "half") => abandoned # {}
    BY DEF EmbeddingInv, History, HalfAbandoned
  <2> QED  BY <2>1, <2>2 DEF QuietSetUp
<1> QED  BY <1>1, EmbeddingAlways, PTL

\* A callback whose isolate was disposed only runs if its timer was abandoned:
\* the last activation of its object ended with no loop run to its end, as the
\* script threw, a Perl sub died, or the method was one that runs no loop.
THEOREM StaleNeedsAbandoned ==
    ~ CallbackReenters => (EmbeddingSpec => []StaleOnlyIfAbandoned)
<1>1. EmbeddingInv => StaleOnlyIfAbandoned
  BY DEF EmbeddingInv, History, AllAttached, Attached, StaleOnlyIfAbandoned, Stale
<1> QED  BY <1>1, EmbeddingAlways, PTL

\* The process is lost to a foreign callback while that callback runs.
ForeignRuns == fault = "foreign_callback" => CallbackRuns

\* Only Expire loses the process to a foreign callback.
LEMMA ForeignStep ==
    ASSUME EmbeddingInv, ForeignRuns, [EmbeddingNext]_embeddedVars
    PROVE  ForeignRuns'
<1>1. TypeOK /\ TypeOK' /\ frames \in Seq(Frame) /\ frames' \in Seq(Frame)
  BY LoopTypeStep, HistoryFacts DEF TypeOK
<1>2. CASE fault # "none"
  BY <1>2, AliveBefore DEF embeddedVars, vars, ForeignRuns, CallbackRuns, Top
<1>3. CASE fault = "none" /\ Expire
  <2> DEFINE f == [Top EXCEPT !.pc = "callback", !.sanity = Top.sanity - 1,
                              !.unserved = Top.unserved \ {Last(timer_list).id}]
  <2>1. frames # <<>> /\ Goto(f)
    BY <1>3 DEF Expire, At
  <2>2. f.ctx = Top.ctx /\ f.pc = "callback"
    BY <1>1, <2>1, TopFacts DEF Frame
  <2> HIDE DEF f
  <2>3. frames' # <<>> /\ Top' = f
    BY <1>1, <2>1, <2>2, GotoSame
  <2> QED  BY <2>2, <2>3 DEF ForeignRuns, CallbackRuns
<1>4. CASE fault = "none" /\ ~ Expire
  <2>1. fault' # "foreign_callback"
    <3>1. ASSUME NEW c \in Contexts,
                 \/ Call(c) \/ Access(c) \/ New(c) \/ Reset(c) \/ Destroy(c)
                 \/ DisposeInUse(c)
          PROVE  fault' # "foreign_callback"
      BY <1>4, <3>1 DEF Call, Access, Eval, Dispatch, DispatchMalformed, New, Reset, SetUp, Destroy,
         DisposeInUse, vars
    <3>2. CASE \/ Finish \/ Throw \/ AccessReturn \/ AccessAborts
               \/ Jump \/ JumpOutOfNew \/ JumpOutOfReset \/ Script
      BY <1>4, <3>2 DEF Finish, LoopExit, Throw, AccessReturn, AccessAborts, ScriptThrow,
         Jump, JumpOutOfNew, JumpOutOfReset, Die, Script, SetTimeout, SetInterval, CreateTimer
    <3>3. CASE Run
      BY <1>4, <3>3 DEF Run, ClearTimer, DeleteExpiring, DeleteListed, ScriptReturn,
         CreateTimerAborts, RoundStart, CallbackReturn, Requeue, RequeueOverrun,
         RoundEnd, Poll, PollReturn, PollInterrupted, Tick, StepBack, Lost, vars
    <3>4. CASE UNCHANGED embeddedVars
      BY <1>4, <3>4 DEF embeddedVars, vars
    <3> QED  BY <3>1, <3>2, <3>3, <3>4 DEF EmbeddingNext
  <2> QED  BY <2>1 DEF ForeignRuns
<1> QED  BY <1>2, <1>3, <1>4

\* A callback only runs in the isolate of another object if its timer was
\* abandoned, or if its own object has an activation further down the stack.
THEOREM ForeignNeedsNesting ==
    ~ CallbackReenters => (EmbeddingSpec => []ForeignOnlyIfNested)
<1>1. EmbeddingInit => ForeignRuns
  BY DEF EmbeddingInit, Init, ForeignRuns
<1>2. EmbeddingInv /\ ForeignRuns /\ [EmbeddingNext]_embeddedVars => ForeignRuns'
  BY ForeignStep
<1>3. EmbeddingInv /\ ForeignRuns => ForeignOnlyIfNested
  <2> SUFFICES ASSUME EmbeddingInv, ForeignRuns, fault = "foreign_callback",
                      timer_expiring.id \notin abandoned
               PROVE  \E i \in DOMAIN frames : frames[i].ctx = timer_expiring.v8_func
    BY DEF ForeignOnlyIfNested
  <2>1. Attached(timer_expiring)
    BY DEF ForeignRuns, EmbeddingInv, History, AllAttached
  <2> QED  BY <2>1 DEF Attached, Activations, ActivationsOf
<1> QED  BY <1>1, <1>2, <1>3, EmbeddingAlways, PTL DEF EmbeddingSpec
=============================================================================
