----------------------------- MODULE CallsProof -----------------------------
(***************************************************************************)
(* Proofs about Calls, SubArguments and Records, for every value of their  *)
(* constants.                                                              *)
(* The inductive invariant says how the activations are chained: each has  *)
(* its mark where the one below it left the stack pointer, its base where  *)
(* the one below it left the temporaries, and its floor where the subs     *)
(* below it left tmps_floor.                                               *)
(***************************************************************************)
EXTENDS SubArguments, RecordsProof

Scalars == [call : Nat, j : Nat]
Names == Methods \cup Targets \cup {"", "run", "dispatch"}
FrameType ==
    [id : Nat, kind : Kinds, name : Names, phase : Phases, t0 : Nat,
     mark : Nat, sp : Nat, floor : Nat, base : Nat,
     want : Nat, got : Seq(Scalars), risen : Nat]

\* What holds of an activation by itself.
FrameOK(f) ==
    /\ f.t0 = f.id /\ f.id # 0
    /\ f.kind = "console" => f.name \in Targets
    /\ f.kind = "sub" <=> f.phase \in {"arguments", "body"}
    /\ f.mark <= f.sp /\ f.sp - f.mark <= f.want /\ f.want <= MaxArgs
    /\ f.kind # "sub" => f.want = 0
    /\ f.phase = "body" =>
          /\ f.sp - f.mark = f.want /\ Len(f.got) = f.want
          /\ \A j \in f.risen + 1 .. f.want : f.got[j] = Scalar(f.id, j)

\* Where an activation on top leaves the stack pointer, the floor of the
\* temporaries and the last of the temporaries; and where a stack of i does.
LevelOf(f) == f.mark + IF f.kind \in {"method", "eval"} THEN 1 ELSE 0
FloorOf(f) == IF f.kind = "sub" THEN f.base ELSE f.floor
EndOf(f) == f.base + (f.sp - f.mark)

LevelAt(fs, i) == IF i = 0 THEN 0 ELSE LevelOf(fs[i])
SubsIn(fs, i) == {k \in 1 .. i : fs[k].kind = "sub"}
FloorAt(fs, i) == IF SubsIn(fs, i) = {} THEN 0 ELSE fs[Max(SubsIn(fs, i))].base
EndAt(fs, i) == IF i = 0 THEN 0 ELSE EndOf(fs[i])

\* The cells that i activations may use.
Reach(i) == i * (MaxArgs + 1)

\* Activation k of a stack rests on those below it.
Chained(fs, k) ==
    /\ fs[k].mark = LevelAt(fs, k - 1) /\ fs[k].mark <= Reach(k - 1)
    /\ fs[k].floor = FloorAt(fs, k - 1)
    /\ fs[k].base = EndAt(fs, k - 1)

\* Activation i is below activation k: its temporaries end where those of k
\* start, and a sub on top of it has made it note how far it was.
Below(fs, i, k) ==
    /\ EndAt(fs, i) <= fs[k].base
    /\ fs[k].kind = "sub" /\ fs[i].phase = "arguments" =>
          fs[i].risen = fs[i].sp - fs[i].mark

StackOK(fs) ==
    /\ fs \in Seq(FrameType)
    /\ \A i \in 1 .. Len(fs) : FrameOK(fs[i]) /\ Chained(fs, i)
    /\ \A k \in 1 .. Len(fs) : \A i \in 1 .. k - 1 : Below(fs, i, k)

\* Activation f may be pushed on a stack: it starts where the stack ends, and
\* if it is a sub, all those below it have noted how far they were.
Fits(fs, f) ==
    /\ f \in FrameType /\ FrameOK(f)
    /\ f.mark = LevelAt(fs, Len(fs))
    /\ f.floor = FloorAt(fs, Len(fs))
    /\ f.base = EndAt(fs, Len(fs))
    /\ f.kind = "sub" =>
          \A i \in 1 .. Len(fs) :
              fs[i].phase = "arguments" => fs[i].risen = fs[i].sp - fs[i].mark

\* The arguments of a sub that are temporaries, and those that are on the stack.
Alive(f, scalars) ==
    f.kind = "sub" =>
        \A j \in 1 .. f.sp - f.mark : scalars[f.base + j] = Scalar(f.id, j)
Written(f, cells) ==
    f.phase = "arguments" =>
        \A j \in f.risen + 1 .. f.sp - f.mark : cells[f.mark + j] = Scalar(f.id, j)

\* What the machine's own registers have to do with the activation on top.
Balanced ==
    /\ PL_stack_sp = LevelAt(frames, Len(frames))
    /\ tmps_floor = FloorAt(frames, Len(frames))
    /\ Len(temps) = EndAt(frames, Len(frames))

StackInv ==
    /\ StackOK(frames) /\ Len(frames) <= MaxDepth
    /\ made \in Nat /\ \A i \in 1 .. Len(frames) : frames[i].id <= made
    /\ plstack \in [Cells -> Scalars]
    /\ temps \in Seq(Scalars)
    /\ Balanced
    /\ \A i \in 1 .. Len(frames) :
          Alive(frames[i], temps) /\ Written(frames[i], plstack)
----------------------------------------------------------------------------
(* The chain of activations. *)

\* The types of an activation's fields.
LEMMA FrameFields ==
    ASSUME NEW f \in FrameType
    PROVE  /\ f.id \in Nat /\ f.t0 \in Nat /\ f.mark \in Nat /\ f.sp \in Nat
           /\ f.floor \in Nat /\ f.base \in Nat /\ f.want \in Nat /\ f.risen \in Nat
           /\ f.got \in Seq(Scalars) /\ f.kind \in Kinds /\ f.phase \in Phases
           /\ f.name \in Names
BY DEF FrameType

\* The temporaries of an activation that ends by t are among the first t.
LEMMA TempWithin ==
    ASSUME NEW f \in FrameType, NEW j \in 1 .. f.sp - f.mark, NEW e \in Nat,
           e = f.base + (f.sp - f.mark), NEW t \in Nat, e <= t
    PROVE  f.base + j \in 1 .. t
<1>1. f.base \in Nat /\ f.sp \in Nat /\ f.mark \in Nat
  BY ONLY f \in FrameType, FrameFields
<1>2. \A b, d, k, u \in Int : (b >= 0 /\ k >= 1 /\ k <= d /\ b + d <= u) => b + k \in 1 .. u
  OBVIOUS
<1>3. f.sp - f.mark \in Int /\ j \in Int /\ j >= 1 /\ j <= f.sp - f.mark
  BY ONLY <1>1, j \in 1 .. f.sp - f.mark
<1> QED  BY ONLY <1>1, <1>2, <1>3, e = f.base + (f.sp - f.mark), t \in Nat, e <= t

\* The cells an activation may use come after those of the one below it.
LEMMA ReachFacts ==
    /\ Reach(0) = 0
    /\ \A i \in Nat : Reach(i) \in Nat /\ Reach(i + 1) = Reach(i) + MaxArgs + 1
    /\ \A i, n \in Nat : i <= n => Reach(i) <= Reach(n)
    /\ Cells = 1 .. Reach(MaxDepth + 1) /\ Max(Cells) = Reach(MaxDepth + 1)
<1> USE CallsAssumption DEF Reach
<1>1. Reach(0) = 0
  OBVIOUS
<1>2. \A i \in Nat : Reach(i) \in Nat /\ Reach(i + 1) = Reach(i) + MaxArgs + 1
  OBVIOUS
<1>3. ASSUME NEW i \in Nat, NEW n \in Nat, i <= n
      PROVE  Reach(i) <= Reach(n)
  <2>1. n - i \in Nat /\ (n - i) * (MaxArgs + 1) \in Nat
    BY <1>3
  <2>2. n * (MaxArgs + 1) = i * (MaxArgs + 1) + (n - i) * (MaxArgs + 1)
    BY <1>3
  <2> QED  BY <1>3, <2>1, <2>2
<1>4. Cells = 1 .. Reach(MaxDepth + 1)
  BY DEF Cells
<1>5. Max(Cells) = Reach(MaxDepth + 1)
  <2>1. Reach(MaxDepth + 1) \in Nat /\ Reach(MaxDepth + 1) >= 1
    <3>1. MaxDepth \in Nat /\ MaxArgs \in Nat
      BY ONLY CallsAssumption
    <3>2. Reach(MaxDepth) \in Nat /\ Reach(MaxDepth + 1) = Reach(MaxDepth) + MaxArgs + 1
      BY ONLY <1>2, <3>1
    <3>3. \A x, y \in Nat : x + y + 1 \in Nat /\ x + y + 1 >= 1
      OBVIOUS
    <3> QED  BY ONLY <3>1, <3>2, <3>3
  <2> HIDE DEF Reach
  <2>2. Cells \in SUBSET (0 .. Reach(MaxDepth + 1)) /\ Cells # {}
        /\ Reach(MaxDepth + 1) \in Cells
    BY <1>4, <2>1
  <2>3. Max(Cells) \in Cells /\ \A m \in Cells : m <= Max(Cells)
    BY <2>1, <2>2, MaxFacts
  <2> QED  BY <1>4, <2>1, <2>2, <2>3
<1> QED  BY <1>1, <1>2, <1>3, <1>4, <1>5

\* The floor changes with each sub.
LEMMA FloorFacts ==
    ASSUME NEW fs \in Seq(FrameType)
    PROVE  /\ FloorAt(fs, 0) = 0
           /\ \A i \in 1 .. Len(fs) :
                FloorAt(fs, i) = IF fs[i].kind = "sub" THEN fs[i].base
                                 ELSE FloorAt(fs, i - 1)
<1>1. FloorAt(fs, 0) = 0
  <2>1. SubsIn(fs, 0) = {}
    BY DEF SubsIn
  <2> QED  BY <2>1 DEF FloorAt
<1>2. ASSUME NEW i \in 1 .. Len(fs), fs[i].kind = "sub"
      PROVE  FloorAt(fs, i) = fs[i].base
  <2>1. i \in Nat /\ SubsIn(fs, i) \in SUBSET (0 .. i) /\ i \in SubsIn(fs, i)
    BY <1>2, LenProperties DEF SubsIn
  <2>2. Max(SubsIn(fs, i)) \in SubsIn(fs, i) /\ i <= Max(SubsIn(fs, i))
    BY <2>1, MaxFacts
  <2>3. Max(SubsIn(fs, i)) = i
    BY <2>1, <2>2
  <2> QED  BY <2>1, <2>3 DEF FloorAt
<1>3. ASSUME NEW i \in 1 .. Len(fs), fs[i].kind # "sub"
      PROVE  FloorAt(fs, i) = FloorAt(fs, i - 1)
  <2>1. SubsIn(fs, i) = SubsIn(fs, i - 1)
    BY <1>3, LenProperties DEF SubsIn
  <2> QED  BY <2>1 DEF FloorAt
<1> QED  BY <1>1, <1>2, <1>3

\* Two stacks whose first n activations agree leave everything in one place.
LEMMA SameChain ==
    ASSUME NEW fs, NEW gs, NEW n \in Nat,
           \A k \in 1 .. n :
              /\ fs[k].kind = gs[k].kind /\ fs[k].base = gs[k].base
              /\ fs[k].mark = gs[k].mark /\ fs[k].sp = gs[k].sp
    PROVE  \A i \in 0 .. n :
              /\ LevelAt(fs, i) = LevelAt(gs, i)
              /\ FloorAt(fs, i) = FloorAt(gs, i)
              /\ EndAt(fs, i) = EndAt(gs, i)
<1> SUFFICES ASSUME NEW i \in 0 .. n
             PROVE  /\ LevelAt(fs, i) = LevelAt(gs, i)
                    /\ FloorAt(fs, i) = FloorAt(gs, i)
                    /\ EndAt(fs, i) = EndAt(gs, i)
  OBVIOUS
<1>1. LevelAt(fs, i) = LevelAt(gs, i) /\ EndAt(fs, i) = EndAt(gs, i)
  BY DEF LevelAt, EndAt, LevelOf, EndOf
<1>2. SubsIn(fs, i) = SubsIn(gs, i) /\ SubsIn(fs, i) \in SUBSET (0 .. i) /\ i \in Nat
  BY DEF SubsIn
<1>3. SubsIn(fs, i) # {} => Max(SubsIn(fs, i)) \in 1 .. n
  <2>1. SubsIn(fs, i) # {} => Max(SubsIn(fs, i)) \in SubsIn(fs, i)
    BY <1>2, MaxFacts
  <2>2. SubsIn(fs, i) \subseteq 1 .. n
    BY DEF SubsIn
  <2> QED  BY <2>1, <2>2
<1> QED  BY <1>1, <1>2, <1>3 DEF FloorAt

\* Whatever the activations of a stack leave behind is a natural number.
LEMMA ChainTypes ==
    ASSUME NEW fs, StackOK(fs)
    PROVE  \A i \in 0 .. Len(fs) :
              LevelAt(fs, i) \in Nat /\ FloorAt(fs, i) \in Nat /\ EndAt(fs, i) \in Nat
<1>1. fs \in Seq(FrameType) /\ Len(fs) \in Nat
  BY LenProperties DEF StackOK
<1>2. ASSUME NEW i \in 1 .. Len(fs)
      PROVE  /\ fs[i].mark \in Nat /\ fs[i].sp \in Nat /\ fs[i].base \in Nat
             /\ fs[i].mark <= fs[i].sp
  <2>1. fs[i] \in FrameType
    BY <1>1, ElementOfSeq
  <2> QED  BY <2>1 DEF StackOK, FrameOK, FrameType
<1>3. ASSUME NEW i \in 0 .. Len(fs)
      PROVE  LevelAt(fs, i) \in Nat /\ EndAt(fs, i) \in Nat
  BY <1>1, <1>2 DEF LevelAt, EndAt, LevelOf, EndOf
<1>4. ASSUME NEW i \in 0 .. Len(fs)
      PROVE  FloorAt(fs, i) \in Nat
  <2>1. CASE SubsIn(fs, i) = {}
    BY <2>1 DEF FloorAt
  <2>2. CASE SubsIn(fs, i) # {}
    <3>1. SubsIn(fs, i) \in SUBSET (0 .. i) /\ i \in Nat
      BY DEF SubsIn
    <3>2. Max(SubsIn(fs, i)) \in SubsIn(fs, i)
      BY <2>2, <3>1, MaxFacts
    <3>3. SubsIn(fs, i) \subseteq 1 .. Len(fs)
      BY <1>1 DEF SubsIn
    <3> QED  BY <1>2, <2>2, <3>2, <3>3 DEF FloorAt
  <2> QED  BY <2>1, <2>2
<1> QED  BY <1>3, <1>4

\* The stack pointer stays within the cells of the activations.
LEMMA LevelBound ==
    ASSUME NEW fs, StackOK(fs)
    PROVE  LevelAt(fs, Len(fs)) <= Reach(Len(fs))
<1> DEFINE n == Len(fs)
<1>1. fs \in Seq(FrameType) /\ n \in Nat
  BY LenProperties DEF StackOK
<1>2. CASE n = 0
  BY <1>2, ReachFacts DEF LevelAt
<1>3. CASE n # 0
  <2>1. n \in 1 .. n /\ n - 1 \in Nat /\ (n - 1) + 1 = n
    BY <1>1, <1>3
  <2>2. LevelAt(fs, n) \in Nat
    BY <1>1, ChainTypes
  <2>3. fs[n] \in FrameType /\ fs[n].mark <= Reach(n - 1)
    BY <1>1, <2>1, ElementOfSeq DEF StackOK, Chained
  <2>4. LevelAt(fs, n) <= fs[n].mark + 1 /\ fs[n].mark \in Nat
    BY <1>3, <2>3, FrameFields DEF LevelAt, LevelOf
  <2>5. Reach(n - 1) \in Nat /\ Reach(n) = Reach(n - 1) + MaxArgs + 1 /\ MaxArgs \in Nat
    BY <2>1, ReachFacts, CallsAssumption
  <2> HIDE DEF n
  <2> QED  BY <2>2, <2>3, <2>4, <2>5 DEF n
<1> QED  BY <1>2, <1>3

\* An activation pushed on a stack, by what the stack left.
LEMMA PushChain ==
    ASSUME NEW fs, StackOK(fs), NEW f, Fits(fs, f),
           NEW gs, gs = Append(fs, f)
    PROVE  /\ StackOK(gs) /\ Len(gs) = Len(fs) + 1 /\ gs[Len(gs)] = f
           /\ \A i \in 1 .. Len(fs) : gs[i] = fs[i]
           /\ LevelAt(gs, Len(gs)) = LevelOf(f)
           /\ FloorAt(gs, Len(gs)) = FloorOf(f)
           /\ EndAt(gs, Len(gs)) = EndOf(f)
<1> USE DEF Fits
<1> DEFINE n == Len(fs)
<1>1. fs \in Seq(FrameType) /\ n \in Nat
  BY LenProperties DEF StackOK
<1>2. /\ gs \in Seq(FrameType) /\ Len(gs) = n + 1 /\ gs[n + 1] = f
      /\ \A i \in 1 .. n : gs[i] = fs[i]
  BY <1>1, AppendProperties
<1>3. \A i \in 0 .. n : /\ LevelAt(gs, i) = LevelAt(fs, i)
                       /\ FloorAt(gs, i) = FloorAt(fs, i)
                       /\ EndAt(gs, i) = EndAt(fs, i)
  <2>1. \A k \in 1 .. n : /\ gs[k].kind = fs[k].kind /\ gs[k].base = fs[k].base
                          /\ gs[k].mark = fs[k].mark /\ gs[k].sp = fs[k].sp
    BY ONLY <1>2
  <2> QED  BY ONLY <1>1, <2>1, SameChain
<1>4. LevelAt(gs, n + 1) = LevelOf(f) /\ EndAt(gs, n + 1) = EndOf(f)
  BY <1>1, <1>2 DEF LevelAt, EndAt
<1>5. FloorAt(gs, n + 1) = FloorOf(f)
  <2>1. n + 1 \in 1 .. Len(gs) /\ (n + 1) - 1 = n /\ n \in 0 .. n
    BY <1>1, <1>2
  <2>2. FloorAt(gs, n + 1) = IF gs[n + 1].kind = "sub" THEN gs[n + 1].base
                             ELSE FloorAt(gs, (n + 1) - 1)
    BY <1>2, <2>1, FloorFacts
  <2> QED  BY <1>2, <1>3, <2>1, <2>2 DEF FloorOf
<1>6. \A i \in 0 .. n : LevelAt(fs, i) \in Nat /\ EndAt(fs, i) \in Nat
  BY ChainTypes
<1>7. \A i \in 1 .. n : /\ fs[i].base \in Nat /\ fs[i].sp \in Nat /\ fs[i].mark \in Nat
                       /\ fs[i].mark <= fs[i].sp /\ fs[i].mark <= Reach(i - 1)
  <2> SUFFICES ASSUME NEW i \in 1 .. n
               PROVE  /\ fs[i].base \in Nat /\ fs[i].sp \in Nat /\ fs[i].mark \in Nat
                      /\ fs[i].mark <= fs[i].sp /\ fs[i].mark <= Reach(i - 1)
    OBVIOUS
  <2>1. fs[i] \in FrameType
    BY <1>1, ElementOfSeq
  <2> QED  BY <2>1 DEF StackOK, FrameOK, Chained, FrameType
<1>8. Chained(gs, n + 1)
  <2>1. LevelAt(fs, n) <= Reach(n)
    BY LevelBound
  <2>2. (n + 1) - 1 = n /\ n \in 0 .. n
    BY <1>1
  <2> HIDE DEF n
  <2> QED  BY <1>2, <1>3, <2>1, <2>2 DEF Chained, n
<1>9. ASSUME NEW i \in 1 .. n
      PROVE  FrameOK(gs[i]) /\ Chained(gs, i)
  <2>1. i \in 0 .. n /\ i - 1 \in 0 .. n
    BY <1>1
  <2> QED  BY <1>2, <1>3, <2>1 DEF StackOK, Chained
<1>10. ASSUME NEW k \in 1 .. n, NEW i \in 1 .. k - 1
       PROVE  Below(gs, i, k)
  <2>1. i \in 1 .. n /\ i \in 0 .. n
    BY <1>1
  <2> QED  BY <1>2, <1>3, <2>1 DEF StackOK, Below
<1>11. ASSUME NEW i \in 1 .. n
       PROVE  Below(gs, i, n + 1)
  <2>1. EndAt(fs, i) <= EndAt(fs, n)
    <3>1. CASE i = n
      BY <1>1, <1>6, <3>1
    <3>2. CASE i # n
      <4>1. n \in 1 .. n /\ i \in 1 .. n - 1
        BY <1>1, <3>2
      <4>2. EndAt(fs, i) <= fs[n].base
        BY <4>1 DEF StackOK, Below
      <4>3. EndAt(fs, n) = fs[n].base + (fs[n].sp - fs[n].mark)
        BY <4>1 DEF EndAt, EndOf
      <4>4. fs[n].base \in Nat /\ fs[n].sp \in Nat /\ fs[n].mark \in Nat
            /\ fs[n].mark <= fs[n].sp
        BY <1>7, <4>1
      <4>5. EndAt(fs, i) \in Nat
        BY <1>1, <1>6
      <4> HIDE DEF n
      <4> QED  BY <4>2, <4>3, <4>4, <4>5
    <3> QED  BY <3>1, <3>2
  <2>2. EndAt(gs, i) = EndAt(fs, i) /\ gs[i] = fs[i]
    BY <1>1, <1>2, <1>3
  <2> QED  BY <1>2, <2>1, <2>2 DEF Below
<1>12. StackOK(gs)
  <2>1. \A i \in 1 .. Len(gs) : FrameOK(gs[i]) /\ Chained(gs, i)
    BY <1>1, <1>2, <1>8, <1>9
  <2>2. \A k \in 1 .. Len(gs) : \A i \in 1 .. k - 1 : Below(gs, i, k)
    BY <1>1, <1>2, <1>10, <1>11
  <2> QED  BY <1>2, <2>1, <2>2 DEF StackOK
<1> QED  BY <1>2, <1>4, <1>5, <1>12

\* The activations below those that ended.
LEMMA CutChain ==
    ASSUME NEW fs, StackOK(fs), NEW n \in 0 .. Len(fs),
           NEW gs, gs = SubSeq(fs, 1, n)
    PROVE  /\ StackOK(gs) /\ Len(gs) = n
           /\ \A i \in 1 .. n : gs[i] = fs[i]
           /\ \A i \in 0 .. n : /\ LevelAt(gs, i) = LevelAt(fs, i)
                               /\ FloorAt(gs, i) = FloorAt(fs, i)
                               /\ EndAt(gs, i) = EndAt(fs, i)
<1>1. fs \in Seq(FrameType) /\ Len(fs) \in Nat /\ n \in Nat
  BY LenProperties DEF StackOK
<1>2. /\ gs \in Seq(FrameType) /\ Len(gs) = n
      /\ \A i \in 1 .. n : gs[i] = fs[i]
  <2>1. 1 \in 1 .. Len(fs) + 1 /\ 1 <= n + 1
    BY <1>1
  <2>2. /\ gs \in Seq(FrameType) /\ Len(gs) = n - 1 + 1
        /\ \A i \in 1 .. n - 1 + 1 : gs[i] = fs[1 + i - 1]
    BY <1>1, <2>1, SliceFacts
  <2> QED  BY <1>1, <2>2
<1>3. \A i \in 0 .. n : /\ LevelAt(gs, i) = LevelAt(fs, i)
                       /\ FloorAt(gs, i) = FloorAt(fs, i)
                       /\ EndAt(gs, i) = EndAt(fs, i)
  <2>1. \A k \in 1 .. n : /\ gs[k].kind = fs[k].kind /\ gs[k].base = fs[k].base
                          /\ gs[k].mark = fs[k].mark /\ gs[k].sp = fs[k].sp
    BY ONLY <1>2
  <2> QED  BY ONLY <1>1, <2>1, SameChain
<1>4. ASSUME NEW i \in 1 .. n
      PROVE  FrameOK(gs[i]) /\ Chained(gs, i)
  <2>1. i \in 1 .. Len(fs) /\ i - 1 \in 0 .. n
    BY <1>1
  <2> QED  BY <1>2, <1>3, <2>1 DEF StackOK, Chained
<1>5. ASSUME NEW k \in 1 .. n, NEW i \in 1 .. k - 1
      PROVE  Below(gs, i, k)
  <2>1. k \in 1 .. Len(fs) /\ i \in 1 .. n /\ i \in 0 .. n
    BY <1>1
  <2> QED  BY <1>2, <1>3, <2>1 DEF StackOK, Below
<1> QED  BY <1>2, <1>3, <1>4, <1>5 DEF StackOK

\* What changes the activation on top cuts it off and pushes it again.
LEMMA TopReplaced ==
    ASSUME NEW fs \in Seq(FrameType), fs # <<>>, NEW f \in FrameType
    PROVE  [fs EXCEPT ![Len(fs)] = f] = Append(SubSeq(fs, 1, Len(fs) - 1), f)
<1> DEFINE n == Len(fs)
           es == [fs EXCEPT ![n] = f]
           cut == SubSeq(fs, 1, n - 1)
<1>1. n \in Nat \ {0} /\ n \in 1 .. n
  BY EmptySeq
<1>2. /\ es \in Seq(FrameType) /\ Len(es) = n
      /\ \A j \in 1 .. n : es[j] = IF j = n THEN f ELSE fs[j]
  BY <1>1, ExceptSeq
<1>3. /\ cut \in Seq(FrameType) /\ Len(cut) = n - 1
      /\ \A i \in 1 .. n - 1 : cut[i] = fs[i]
  BY FrontFacts DEF Front
<1> HIDE DEF es, cut
<1>4. /\ Append(cut, f) \in Seq(FrameType) /\ Len(Append(cut, f)) = n
      /\ Append(cut, f)[n] = f /\ \A i \in 1 .. n - 1 : Append(cut, f)[i] = cut[i]
  BY <1>1, <1>3, AppendProperties
<1>5. \A j \in 1 .. n : es[j] = Append(cut, f)[j]
  BY <1>1, <1>2, <1>3, <1>4
<1>6. es = Append(cut, f)
  BY <1>2, <1>4, <1>5, SeqEqual
<1> QED  BY <1>6 DEF es, cut
----------------------------------------------------------------------------
(* The activation on top, and how the stack grows and shrinks. *)

\* What the registers are, in terms of the activation on top.
LEMMA TopFacts ==
    ASSUME StackInv, frames # <<>>, NEW n, n = Len(frames)
    PROVE  /\ n \in Nat /\ n \in 1 .. n /\ n - 1 \in 0 .. n /\ n <= MaxDepth
           /\ Top = frames[n] /\ Top \in FrameType /\ FrameOK(Top) /\ Chained(frames, n)
           /\ Alive(Top, temps) /\ Written(Top, plstack) /\ Top.id <= made
           /\ Front(frames) = SubSeq(frames, 1, n - 1)
           /\ PL_stack_sp = LevelOf(Top) /\ tmps_floor = FloorOf(Top)
           /\ Len(temps) = EndOf(Top)
<1>1. frames \in Seq(FrameType)
  BY DEF StackInv, StackOK
<1>2. /\ n \in Nat /\ n \in 1 .. n /\ n - 1 \in 0 .. n /\ n # 0
      /\ Top = frames[n] /\ Top \in FrameType
  <2>1. /\ n \in Nat \ {0} /\ Last(frames) = frames[n] /\ Last(frames) \in FrameType
    BY <1>1, FrontFacts
  <2> QED  BY <2>1 DEF Top
<1>3. FrameOK(Top) /\ Chained(frames, n)
  BY <1>2 DEF StackInv, StackOK
<1>4. LevelAt(frames, n) = LevelOf(Top) /\ EndAt(frames, n) = EndOf(Top)
  BY <1>2 DEF LevelAt, EndAt
<1>5. FloorAt(frames, n) = FloorOf(Top)
  <2>1. FloorAt(frames, n) = IF frames[n].kind = "sub" THEN frames[n].base
                             ELSE FloorAt(frames, n - 1)
    BY <1>1, <1>2, FloorFacts
  <2> QED  BY <1>2, <1>3, <2>1 DEF Chained, FloorOf
<1> QED  BY <1>2, <1>3, <1>4, <1>5 DEF StackInv, Balanced, Front

\* The temporaries of the lower activations come first.
LEMMA EndsOrdered ==
    ASSUME NEW fs, StackOK(fs), NEW n \in 0 .. Len(fs), NEW i \in 1 .. n
    PROVE  EndAt(fs, i) \in Nat /\ EndAt(fs, n) \in Nat /\ EndAt(fs, i) <= EndAt(fs, n)
<1>1. fs \in Seq(FrameType) /\ Len(fs) \in Nat /\ n \in Nat
  BY LenProperties DEF StackOK
<1>2. EndAt(fs, i) \in Nat /\ EndAt(fs, n) \in Nat
  BY <1>1, ChainTypes
<1>3. CASE i = n
  BY <1>2, <1>3
<1>4. CASE i # n
  <2>1. n \in 1 .. Len(fs) /\ i \in 1 .. n - 1
    BY <1>1, <1>4
  <2>2. EndAt(fs, i) <= fs[n].base /\ EndAt(fs, n) = fs[n].base + (fs[n].sp - fs[n].mark)
    BY <2>1 DEF StackOK, Below, EndAt, EndOf
  <2>3. fs[n] \in FrameType /\ fs[n].mark <= fs[n].sp
    BY <1>1, <2>1, ElementOfSeq DEF StackOK, FrameOK
  <2> QED  BY <1>2, <2>2, <2>3, FrameFields
<1> QED  BY <1>3, <1>4

\* Freeing the temporaries of the higher activations leaves those of the lower.
LEMMA AliveBelow ==
    ASSUME StackInv, NEW n \in 0 .. Len(frames),
           NEW scalars, scalars = SubSeq(temps, 1, EndAt(frames, n))
    PROVE  /\ scalars \in Seq(Scalars) /\ Len(scalars) = EndAt(frames, n)
           /\ \A i \in 1 .. n : Alive(frames[i], scalars)
<1>1. StackOK(frames) /\ frames \in Seq(FrameType) /\ Len(frames) \in Nat /\ n \in Nat
  <2>1. StackOK(frames)
    BY ONLY StackInv DEF StackInv
  <2>2. frames \in Seq(FrameType)
    BY ONLY <2>1 DEF StackOK
  <2>3. Len(frames) \in Nat
    BY ONLY <2>2, LenProperties
  <2>4. n \in Nat
    BY <2>3
  <2> QED  BY ONLY <2>1, <2>2, <2>3, <2>4
<1>2. EndAt(frames, n) \in 0 .. Len(temps) /\ Len(temps) \in Nat
  <2>1. CASE n = 0
    BY <2>1, LenProperties DEF StackInv, EndAt
  <2>2. CASE n # 0
    <3>1. n \in 1 .. Len(frames) /\ Len(frames) \in 0 .. Len(frames)
      <4>1. \A m \in Nat : \A k \in 0 .. m : k # 0 => k \in 1 .. m /\ m \in 0 .. m
        OBVIOUS
      <4> QED  BY <1>1, <2>2, <4>1
    <3>2. Len(temps) = EndAt(frames, Len(frames)) /\ Len(temps) \in Nat
      BY LenProperties DEF StackInv, Balanced
    <3>3. /\ EndAt(frames, n) <= EndAt(frames, Len(frames))
          /\ EndAt(frames, n) \in Nat /\ EndAt(frames, Len(frames)) \in Nat
      BY ONLY <1>1, <3>1, EndsOrdered
    <3> QED  BY ONLY <3>2, <3>3
  <2> QED  BY <2>1, <2>2
<1>3. /\ scalars \in Seq(Scalars) /\ Len(scalars) = EndAt(frames, n)
      /\ \A k \in 1 .. EndAt(frames, n) : scalars[k] = temps[k]
  <2>1. 1 \in 1 .. Len(temps) + 1 /\ 1 <= EndAt(frames, n) + 1 /\ temps \in Seq(Scalars)
    BY <1>2 DEF StackInv
  <2>2. /\ scalars \in Seq(Scalars) /\ Len(scalars) = EndAt(frames, n) - 1 + 1
        /\ \A k \in 1 .. EndAt(frames, n) - 1 + 1 : scalars[k] = temps[1 + k - 1]
    BY <1>2, <2>1, SliceFacts
  <2> QED  BY <1>2, <2>2
<1>4. ASSUME NEW i \in 1 .. n
      PROVE  Alive(frames[i], scalars)
  <2> SUFFICES ASSUME frames[i].kind = "sub",
                      NEW j \in 1 .. frames[i].sp - frames[i].mark
               PROVE  scalars[frames[i].base + j] = Scalar(frames[i].id, j)
    BY DEF Alive
  <2>1. i \in 1 .. Len(frames) /\ frames[i] \in FrameType
    BY <1>1, ElementOfSeq
  <2>2. temps[frames[i].base + j] = Scalar(frames[i].id, j)
    BY <2>1 DEF StackInv, Alive
  <2>3. EndAt(frames, i) = frames[i].base + (frames[i].sp - frames[i].mark)
    BY <2>1 DEF EndAt, EndOf
  <2>4. /\ EndAt(frames, i) <= EndAt(frames, n)
        /\ EndAt(frames, i) \in Nat /\ EndAt(frames, n) \in Nat
    BY <1>1, EndsOrdered
  <2>6. frames[i].base + j \in 1 .. EndAt(frames, n)
    BY <2>1, <2>3, <2>4, TempWithin
  <2> QED  BY <1>3, <2>2, <2>6
<1> QED  BY <1>3, <1>4

\* The activations above n end, one or many.
LEMMA CutStep ==
    ASSUME StackInv, NEW n \in 0 .. Len(frames),
           frames' = SubSeq(frames, 1, n), made' = made,
           PL_stack_sp' = LevelAt(frames, n), tmps_floor' = FloorAt(frames, n),
           temps' = SubSeq(temps, 1, EndAt(frames, n)),
           plstack' \in [Cells -> Scalars],
           \A i \in 1 .. n : Written(frames[i], plstack')
    PROVE  StackInv'
<1>1. StackOK(frames) /\ Len(frames) \in Nat
  BY LenProperties DEF StackInv, StackOK
<1>2. /\ StackOK(frames') /\ Len(frames') = n
      /\ \A i \in 1 .. n : frames'[i] = frames[i]
      /\ \A i \in 0 .. n : /\ LevelAt(frames', i) = LevelAt(frames, i)
                          /\ FloorAt(frames', i) = FloorAt(frames, i)
                          /\ EndAt(frames', i) = EndAt(frames, i)
  BY <1>1, CutChain
<1>3. /\ temps' \in Seq(Scalars) /\ Len(temps') = EndAt(frames, n)
      /\ \A i \in 1 .. n : Alive(frames[i], temps')
  BY AliveBelow
<1>4. Balanced'
  <2>1. n \in 0 .. n
    BY <1>1
  <2> QED  BY <1>2, <1>3, <2>1 DEF Balanced
<1>5. /\ \A i \in 1 .. n : i \in 1 .. Len(frames)
      /\ n <= MaxDepth
  BY <1>1, CallsAssumption DEF StackInv
<1>6. \A i \in 1 .. Len(frames') :
         /\ frames'[i].id <= made'
         /\ Alive(frames'[i], temps') /\ Written(frames'[i], plstack')
  BY <1>2, <1>3, <1>5 DEF StackInv
<1> QED  BY <1>2, <1>3, <1>4, <1>5, <1>6 DEF StackInv

\* An activation is pushed on a stack.
LEMMA PushStep ==
    ASSUME NEW fs, StackOK(fs), Len(fs) < MaxDepth,
           NEW f, Fits(fs, f),
           frames' = Append(fs, f),
           made' \in Nat, f.id <= made', \A i \in 1 .. Len(fs) : fs[i].id <= made',
           plstack' \in [Cells -> Scalars], temps' \in Seq(Scalars),
           PL_stack_sp' = LevelOf(f), tmps_floor' = FloorOf(f), Len(temps') = EndOf(f),
           \A i \in 1 .. Len(fs) : Alive(fs[i], temps') /\ Written(fs[i], plstack'),
           Alive(f, temps'), Written(f, plstack')
    PROVE  StackInv'
<1>1. Len(fs) \in Nat
  BY LenProperties DEF StackOK
<1>2. /\ StackOK(frames') /\ Len(frames') = Len(fs) + 1 /\ frames'[Len(frames')] = f
      /\ \A i \in 1 .. Len(fs) : frames'[i] = fs[i]
      /\ LevelAt(frames', Len(frames')) = LevelOf(f)
      /\ FloorAt(frames', Len(frames')) = FloorOf(f)
      /\ EndAt(frames', Len(frames')) = EndOf(f)
  <2>1. StackOK(frames')
    BY PushChain
  <2>2. Len(frames') = Len(fs) + 1
    BY PushChain
  <2>3. frames'[Len(frames')] = f
    BY PushChain
  <2>4. \A i \in 1 .. Len(fs) : frames'[i] = fs[i]
    BY PushChain
  <2>5. /\ LevelAt(frames', Len(frames')) = LevelOf(f)
        /\ FloorAt(frames', Len(frames')) = FloorOf(f)
        /\ EndAt(frames', Len(frames')) = EndOf(f)
    BY PushChain
  <2> QED  BY <2>1, <2>2, <2>3, <2>4, <2>5
<1>3. Balanced'
  BY <1>2 DEF Balanced
<1>4. Len(frames') <= MaxDepth
  BY <1>1, <1>2, CallsAssumption
<1>5. \A i \in 1 .. Len(frames') :
         /\ frames'[i].id <= made'
         /\ Alive(frames'[i], temps') /\ Written(frames'[i], plstack')
  <2>1. \A i \in 1 .. Len(frames') : i \in 1 .. Len(fs) \/ i = Len(frames')
    BY <1>1, <1>2
  <2> QED  BY <1>2, <2>1
<1> QED  BY <1>2, <1>3, <1>4, <1>5 DEF StackInv

\* The activation on top ends and it is not a sub.
LEMMA PopStep ==
    ASSUME StackInv, frames # <<>>, Top.kind # "sub", Pop, PL_stack_sp' = Top.mark,
           UNCHANGED <<made, plstack, temps, tmps_floor>>
    PROVE  StackInv'
<1> DEFINE n == Len(frames)
<1>1. /\ n \in Nat /\ n \in 1 .. n /\ n - 1 \in 0 .. n
      /\ Top = frames[n] /\ Top \in FrameType /\ FrameOK(Top) /\ Chained(frames, n)
      /\ Front(frames) = SubSeq(frames, 1, n - 1)
      /\ tmps_floor = FloorOf(Top) /\ Len(temps) = EndOf(Top)
  BY TopFacts
<1>2. PL_stack_sp' = LevelAt(frames, n - 1) /\ tmps_floor' = FloorAt(frames, n - 1)
  BY <1>1 DEF Chained, FloorOf
<1>3. temps' = SubSeq(temps, 1, EndAt(frames, n - 1))
  <2>1. Top.sp - Top.mark = 0 /\ Top.base \in Nat
    BY <1>1, FrameFields DEF FrameOK
  <2>2. Len(temps) = EndAt(frames, n - 1)
    BY <1>1, <2>1 DEF Chained, EndOf
  <2> QED  BY <2>2, WholeSlice DEF StackInv
<1>4. \A i \in 1 .. n - 1 : Written(frames[i], plstack')
  BY <1>1 DEF StackInv
<1>5. frames' = SubSeq(frames, 1, n - 1) /\ made' = made /\ plstack' \in [Cells -> Scalars]
  BY <1>1 DEF Pop, StackInv
<1> HIDE DEF n
<1> QED  BY <1>1, <1>2, <1>3, <1>4, <1>5, CutStep DEF n

\* The activation on top goes on: what it changed of itself leaves it in its
\* place between the others.
LEMMA TopStep ==
    ASSUME StackInv, frames # <<>>, NEW f \in FrameType, FrameOK(f), InTop(f),
           f.id = Top.id, f.kind = Top.kind, f.mark = Top.mark,
           f.floor = Top.floor, f.base = Top.base, made' = made,
           plstack' \in [Cells -> Scalars], temps' \in Seq(Scalars),
           PL_stack_sp' = LevelOf(f), tmps_floor' = FloorOf(f), Len(temps') = EndOf(f),
           \A i \in 1 .. Len(frames) - 1 :
              Alive(frames[i], temps') /\ Written(frames[i], plstack'),
           Alive(f, temps'), Written(f, plstack')
    PROVE  StackInv'
<1> DEFINE n == Len(frames)
           fs == SubSeq(frames, 1, n - 1)
<1>1. /\ n \in Nat /\ n \in 1 .. n /\ n - 1 \in 0 .. n /\ n <= MaxDepth
      /\ Top = frames[n] /\ Chained(frames, n) /\ Top.id <= made
  BY TopFacts
<1>2. StackOK(frames) /\ frames \in Seq(FrameType)
  BY DEF StackInv, StackOK
<1>3. /\ StackOK(fs) /\ Len(fs) = n - 1
      /\ \A i \in 1 .. n - 1 : fs[i] = frames[i]
      /\ \A i \in 0 .. n - 1 : /\ LevelAt(fs, i) = LevelAt(frames, i)
                              /\ FloorAt(fs, i) = FloorAt(frames, i)
                              /\ EndAt(fs, i) = EndAt(frames, i)
  BY <1>1, <1>2, CutChain
<1>4. frames' = Append(fs, f)
  BY <1>2, TopReplaced DEF InTop
<1>5. Fits(fs, f)
  <2>1. n - 1 \in 0 .. n - 1
    BY <1>1
  <2>2. /\ f.mark = LevelAt(fs, Len(fs)) /\ f.floor = FloorAt(fs, Len(fs))
        /\ f.base = EndAt(fs, Len(fs))
    BY <1>1, <1>3, <2>1 DEF Chained
  <2>3. ASSUME f.kind = "sub", NEW i \in 1 .. Len(fs), fs[i].phase = "arguments"
        PROVE  fs[i].risen = fs[i].sp - fs[i].mark
    BY <1>1, <1>2, <1>3, <2>3 DEF StackOK, Below
  <2> QED  BY <2>2, <2>3 DEF Fits
<1>6. \A i \in 1 .. Len(fs) : fs[i].id <= made'
  BY <1>1, <1>3 DEF StackInv
<1>7. made' \in Nat /\ f.id <= made' /\ Len(fs) < MaxDepth
  BY <1>1, <1>3, CallsAssumption DEF StackInv
<1>8. \A i \in 1 .. Len(fs) : Alive(fs[i], temps') /\ Written(fs[i], plstack')
  BY <1>3
<1> HIDE DEF fs, n
<1> QED  BY <1>3, <1>4, <1>5, <1>6, <1>7, <1>8, PushStep

\* The subs below note how far they are, which changes nothing else.
LEMMA NotedChain ==
    ASSUME StackInv
    PROVE  /\ StackOK(Noted) /\ Len(Noted) = Len(frames)
           /\ LevelAt(Noted, Len(frames)) = PL_stack_sp
           /\ FloorAt(Noted, Len(frames)) = tmps_floor
           /\ EndAt(Noted, Len(frames)) = Len(temps)
           /\ \A i \in 1 .. Len(frames) :
                 /\ Noted[i].id = frames[i].id
                 /\ Alive(Noted[i], temps)
                 /\ Noted[i].phase = "arguments" =>
                       Noted[i].risen = Noted[i].sp - Noted[i].mark
                 /\ Written(Noted[i], plstack)
<1> DEFINE n == Len(frames)
<1>1. StackOK(frames) /\ frames \in Seq(FrameType) /\ n \in Nat /\ DOMAIN frames = 1 .. n
  BY LenProperties DEF StackInv, StackOK
<1>2. ASSUME NEW i \in 1 .. n
      PROVE  /\ Noted[i] \in FrameType /\ FrameOK(Noted[i])
             /\ Noted[i].id = frames[i].id /\ Noted[i].kind = frames[i].kind
             /\ Noted[i].phase = frames[i].phase
             /\ Noted[i].mark = frames[i].mark /\ Noted[i].sp = frames[i].sp
             /\ Noted[i].floor = frames[i].floor /\ Noted[i].base = frames[i].base
             /\ Noted[i].phase = "arguments" =>
                   Noted[i].risen = Noted[i].sp - Noted[i].mark
  <2>1. frames[i] \in FrameType /\ FrameOK(frames[i])
    BY <1>1, ElementOfSeq DEF StackOK
  <2>2. CASE frames[i].phase = "arguments"
    <3>1. Noted[i] = [frames[i] EXCEPT !.risen = frames[i].sp - frames[i].mark]
      BY <1>1, <2>2 DEF Noted
    <3>2. frames[i].sp - frames[i].mark \in Nat
      BY <2>1, FrameFields DEF FrameOK
    <3> QED  BY <2>1, <2>2, <3>1, <3>2 DEF FrameType, FrameOK
  <2>3. CASE frames[i].phase # "arguments"
    <3>1. Noted[i] = frames[i]
      BY <1>1, <2>3 DEF Noted
    <3> QED  BY <2>1, <2>3, <3>1
  <2> QED  BY <2>2, <2>3
<1>3. Noted \in Seq(FrameType) /\ Len(Noted) = n
  <2>1. Noted = [i \in 1 .. n |-> Noted[i]]
    BY <1>1 DEF Noted
  <2> HIDE DEF n
  <2>2. Noted \in [1 .. n -> FrameType]
    BY <1>2, <2>1
  <2>3. DOMAIN Noted = 1 .. n
    BY <2>1
  <2> QED  BY <1>1, <2>2, <2>3, SeqDef, LenProperties
<1>4. \A i \in 0 .. n : /\ LevelAt(Noted, i) = LevelAt(frames, i)
                       /\ FloorAt(Noted, i) = FloorAt(frames, i)
                       /\ EndAt(Noted, i) = EndAt(frames, i)
  BY <1>1, <1>2, SameChain
<1>5. StackOK(Noted)
  <2>1. ASSUME NEW i \in 1 .. n
        PROVE  Chained(Noted, i)
    <3>1. i - 1 \in 0 .. n /\ Chained(frames, i)
      BY <1>1 DEF StackOK
    <3> QED  BY <1>2, <1>4, <3>1 DEF Chained
  <2>2. ASSUME NEW k \in 1 .. n, NEW i \in 1 .. k - 1
        PROVE  Below(Noted, i, k)
    <3>1. i \in 1 .. n /\ i \in 0 .. n /\ Below(frames, i, k)
      BY <1>1 DEF StackOK
    <3> QED  BY <1>2, <1>4, <3>1 DEF Below
  <2> QED  BY <1>2, <1>3, <2>1, <2>2 DEF StackOK
<1>6. ASSUME NEW i \in 1 .. n
      PROVE  Alive(Noted[i], temps) /\ Written(Noted[i], plstack)
  <2>1. Alive(Noted[i], temps)
    <3>1. Alive(frames[i], temps)
      BY DEF StackInv
    <3> QED  BY <1>2, <3>1 DEF Alive
  <2>2. Written(Noted[i], plstack)
    <3>1. Noted[i] \in FrameType
      BY <1>2
    <3>2. Noted[i].phase = "arguments" =>
             Noted[i].risen + 1 .. Noted[i].sp - Noted[i].mark = {}
      BY <1>2, <3>1, FrameFields
    <3> QED  BY <3>2 DEF Written
  <2> QED  BY <2>1, <2>2
<1>7. n \in 0 .. n
  BY <1>1
<1> QED  BY <1>2, <1>3, <1>4, <1>5, <1>6, <1>7 DEF StackInv, Balanced
----------------------------------------------------------------------------
(* The actions. *)

\* What the registers hold, and what a new activation makes of it.
LEMMA RegisterFacts ==
    ASSUME StackInv
    PROVE  /\ PL_stack_sp \in Nat /\ tmps_floor \in Nat /\ Len(temps) \in Nat /\ made \in Nat
           /\ temps \in Seq(Scalars) /\ plstack \in [Cells -> Scalars]
           /\ StackOK(frames) /\ frames \in Seq(FrameType) /\ Len(frames) \in Nat
<1>1. StackOK(frames) /\ frames \in Seq(FrameType) /\ Len(frames) \in Nat
  BY LenProperties DEF StackInv, StackOK
<1>2. Len(frames) \in 0 .. Len(frames)
  BY <1>1
<1> QED  BY <1>1, <1>2, ChainTypes DEF StackInv, Balanced

\* An activation that was just entered.
Entered(kind, name, phase, nargs) == [Frame(kind, name, phase) EXCEPT !.want = nargs]

\* A new activation has its type and rests on what the registers hold.
LEMMA NewFrame ==
    ASSUME StackInv, NEW kind \in Kinds, NEW name \in Names, NEW phase \in Phases,
           kind = "sub" <=> phase = "arguments", phase # "body",
           kind = "console" => name \in Targets,
           NEW nargs \in 0 .. MaxArgs, kind # "sub" => nargs = 0,
           NEW f, f = Entered(kind, name, phase, nargs)
    PROVE  /\ f \in FrameType /\ FrameOK(f)
           /\ f.id = made + 1 /\ f.kind = kind /\ f.phase = phase
           /\ f.mark = PL_stack_sp /\ f.floor = tmps_floor /\ f.base = Len(temps)
           /\ EndOf(f) = Len(temps)
           /\ LevelOf(f) = PL_stack_sp + IF kind \in {"method", "eval"} THEN 1 ELSE 0
           /\ \A scalars : Alive(f, scalars)
           /\ \A cells : Written(f, cells)
<1>1. /\ PL_stack_sp \in Nat /\ tmps_floor \in Nat /\ Len(temps) \in Nat /\ made \in Nat
      /\ nargs \in Nat /\ MaxArgs \in Nat
  BY RegisterFacts, CallsAssumption
<1>2. f = [id |-> made + 1, kind |-> kind, name |-> name, phase |-> phase, t0 |-> made + 1,
           mark |-> PL_stack_sp, sp |-> PL_stack_sp, floor |-> tmps_floor,
           base |-> Len(temps), want |-> nargs, got |-> <<>>, risen |-> 0]
  BY DEF Frame, Entered
<1>3. f \in FrameType
  <2>1. PICK none \in Seq(Scalars) : none = <<>>
    BY EmptySeq
  <2>2. f = [id |-> made + 1, kind |-> kind, name |-> name, phase |-> phase,
             t0 |-> made + 1, mark |-> PL_stack_sp, sp |-> PL_stack_sp,
             floor |-> tmps_floor, base |-> Len(temps), want |-> nargs, got |-> none,
             risen |-> 0]
    BY <1>2, <2>1
  <2>3. made + 1 \in Nat /\ 0 \in Nat
    BY <1>1
  <2> QED  BY ONLY <1>1, <2>1, <2>2, <2>3, kind \in Kinds, name \in Names,
                   phase \in Phases DEF FrameType
<1>4. FrameOK(f)
  BY <1>1, <1>2 DEF FrameOK
<1>5. EndOf(f) = Len(temps)
  BY <1>1, <1>2 DEF EndOf
<1>6. LevelOf(f) = PL_stack_sp + IF kind \in {"method", "eval"} THEN 1 ELSE 0
  BY <1>2 DEF LevelOf
<1>7. \A scalars : Alive(f, scalars)
  <2>1. 1 .. f.sp - f.mark = {}
    BY <1>1, <1>2
  <2> QED  BY <2>1 DEF Alive
<1>8. \A cells : Written(f, cells)
  <2>1. f.risen + 1 .. f.sp - f.mark = {}
    BY <1>1, <1>2
  <2> QED  BY <2>1 DEF Written
<1> QED  BY <1>2, <1>3, <1>4, <1>5, <1>6, <1>7, <1>8

\* While a sub is on top, nobody below relies on cells that it may write.
LEMMA WrittenUnderSub ==
    ASSUME StackInv, frames # <<>>, Top.kind = "sub", NEW cells
    PROVE  \A i \in 1 .. Len(frames) - 1 : Written(frames[i], cells)
<1>1. /\ Len(frames) \in 1 .. Len(frames) /\ Top = frames[Len(frames)]
      /\ Len(frames) \in Nat
  BY TopFacts
<1> SUFFICES ASSUME NEW i \in 1 .. Len(frames) - 1
             PROVE  Written(frames[i], cells)
  OBVIOUS
<1>2. Below(frames, i, Len(frames)) /\ frames \in Seq(FrameType)
  BY <1>1 DEF StackInv, StackOK
<1>3. frames[i] \in FrameType
  BY <1>1, <1>2, ElementOfSeq
<1>4. frames[i].phase = "arguments" =>
         frames[i].risen + 1 .. frames[i].sp - frames[i].mark = {}
  BY <1>1, <1>2, <1>3, FrameFields DEF Below
<1> QED  BY <1>4 DEF Written

\* So it is while Perl runs.
LEMMA WrittenInPerl ==
    ASSUME StackInv, PerlRuns, NEW cells
    PROVE  \A i \in 1 .. Len(frames) : Written(frames[i], cells)
<1>1. CASE frames = <<>>
  <2>1. Len(frames) = 0
    BY <1>1
  <2> QED  BY <2>1
<1>2. CASE frames # <<>>
  <2>1. Top.phase = "body"
    BY <1>2 DEF PerlRuns, At
  <2>2. /\ Top = frames[Len(frames)] /\ Len(frames) \in Nat /\ Top \in FrameType
        /\ FrameOK(Top)
    BY <1>2, TopFacts
  <2>3. \A i \in 1 .. Len(frames) - 1 : Written(frames[i], cells)
    BY <1>2, <2>1, <2>2, WrittenUnderSub DEF FrameOK
  <2>4. Written(frames[Len(frames)], cells)
    BY <2>1, <2>2 DEF Written
  <2> QED  BY <2>2, <2>3, <2>4
<1> QED  BY <1>1, <1>2

\* Method, Eval and DispatchSyntaxError.
LEMMA CallStep ==
    ASSUME StackInv, NEW kind \in {"method", "eval"}, NEW name \in Names,
           NEW phase \in {"converting", "script", "loop"},
           CallMethod(Frame(kind, name, phase))
    PROVE  StackInv'
<1> DEFINE f == Frame(kind, name, phase)
<1>1. /\ f \in FrameType /\ FrameOK(f)
      /\ f.id = made + 1 /\ f.kind = kind
      /\ f.mark = PL_stack_sp /\ f.floor = tmps_floor /\ f.base = Len(temps)
      /\ EndOf(f) = Len(temps) /\ LevelOf(f) = PL_stack_sp + 1
      /\ \A scalars : Alive(f, scalars)
      /\ \A cells : Written(f, cells)
  <2>1. f = Entered(kind, name, phase, 0)
    BY DEF Frame, Entered
  <2>2. 0 \in 0 .. MaxArgs /\ kind \in Kinds /\ phase \in Phases
    BY CallsAssumption DEF Kinds, Phases
  <2> HIDE DEF f
  <2> QED  BY <2>1, <2>2, NewFrame
<1>2. /\ frames' = Append(frames, f) /\ made' = made + 1
      /\ plstack' = [plstack EXCEPT ![PL_stack_sp + 1] = Scalar(f.id, 0)]
      /\ PL_stack_sp' = PL_stack_sp + 1 /\ temps' = temps /\ tmps_floor' = tmps_floor
      /\ PerlRuns /\ Len(frames) < MaxDepth
  BY DEF CallMethod, Push, Room
<1> HIDE DEF f
<1>3. /\ PL_stack_sp \in Nat /\ tmps_floor \in Nat /\ Len(temps) \in Nat /\ made \in Nat
      /\ temps \in Seq(Scalars) /\ plstack \in [Cells -> Scalars] /\ StackOK(frames)
  BY RegisterFacts
<1>4. plstack' \in [Cells -> Scalars]
  <2>1. Scalar(f.id, 0) \in Scalars
    BY <1>1, <1>3 DEF Scalar, Scalars
  <2> QED  BY <1>2, <1>3, <2>1
<1>5. Fits(frames, f)
  BY <1>1 DEF Fits, StackInv, Balanced
<1>6. /\ \A i \in 1 .. Len(frames) : Alive(frames[i], temps')
      /\ \A i \in 1 .. Len(frames) : Written(frames[i], plstack')
  BY <1>2, WrittenInPerl DEF StackInv
<1>7. made' \in Nat /\ f.id <= made' /\ \A i \in 1 .. Len(frames) : frames[i].id <= made'
  <2>1. ASSUME NEW i \in 1 .. Len(frames)
        PROVE  frames[i].id <= made'
    <3>1. frames[i] \in FrameType /\ frames[i].id <= made
      BY <1>3, RegisterFacts, ElementOfSeq DEF StackInv
    <3> QED  BY <1>2, <1>3, <3>1, FrameFields
  <2> QED  BY <1>1, <1>2, <1>3, <2>1
<1>8. PL_stack_sp' = LevelOf(f) /\ tmps_floor' = FloorOf(f) /\ Len(temps') = EndOf(f)
  BY <1>1, <1>2 DEF FloorOf
<1>9. Alive(f, temps') /\ Written(f, plstack')
  BY <1>1
<1> QED  BY <1>2, <1>3, <1>4, <1>5, <1>6, <1>7, <1>8, <1>9, PushStep

\* The pl_eval that dispatch calls.
LEMMA InnerFrame ==
    ASSUME StackInv,
           NEW f, f = [Frame("pl_eval", "run", "script") EXCEPT
                          !.id = made + 2, !.t0 = made + 2,
                          !.mark = PL_stack_sp + 1, !.sp = PL_stack_sp + 1]
    PROVE  /\ f \in FrameType /\ FrameOK(f)
           /\ f.id = made + 2 /\ f.kind = "pl_eval" /\ f.phase = "script"
           /\ f.mark = PL_stack_sp + 1
           /\ f.floor = tmps_floor /\ f.base = Len(temps)
           /\ EndOf(f) = Len(temps) /\ LevelOf(f) = PL_stack_sp + 1
<1>1. /\ PL_stack_sp \in Nat /\ tmps_floor \in Nat /\ Len(temps) \in Nat /\ made \in Nat
  BY RegisterFacts
<1>2. PICK none \in Seq(Scalars) : none = <<>>
  BY EmptySeq
<1>3. PICK r : r = [id |-> made + 1, kind |-> "pl_eval", name |-> "run",
                    phase |-> "script", t0 |-> made + 1,
                    mark |-> PL_stack_sp, sp |-> PL_stack_sp,
                    floor |-> tmps_floor, base |-> Len(temps),
                    want |-> 0, got |-> none, risen |-> 0]
  OBVIOUS
<1>4. Frame("pl_eval", "run", "script") = r
  BY <1>2, <1>3 DEF Frame
<1>5. f = [id |-> made + 2, kind |-> "pl_eval", name |-> "run", phase |-> "script",
           t0 |-> made + 2, mark |-> PL_stack_sp + 1, sp |-> PL_stack_sp + 1,
           floor |-> tmps_floor, base |-> Len(temps), want |-> 0, got |-> none,
           risen |-> 0]
  <2>1. f = [r EXCEPT !.id = made + 2, !.t0 = made + 2,
                      !.mark = PL_stack_sp + 1, !.sp = PL_stack_sp + 1]
    BY <1>4
  <2> QED  BY <1>3, <2>1
<1>6. /\ made + 2 \in Nat /\ 0 \in Nat /\ PL_stack_sp + 1 \in Nat /\ MaxArgs \in Nat
      /\ "pl_eval" \in Kinds /\ "script" \in Phases /\ "run" \in Names
  BY <1>1, CallsAssumption DEF Kinds, Phases, Names
<1>7. f \in FrameType
  BY ONLY <1>1, <1>2, <1>5, <1>6 DEF FrameType
<1>8. /\ f.id = made + 2 /\ f.t0 = made + 2 /\ f.kind = "pl_eval" /\ f.phase = "script"
      /\ f.mark = PL_stack_sp + 1 /\ f.sp = PL_stack_sp + 1 /\ f.want = 0
      /\ f.floor = tmps_floor /\ f.base = Len(temps)
  BY ONLY <1>5
<1>9. FrameOK(f)
  BY ONLY <1>1, <1>6, <1>8 DEF FrameOK
<1>10. EndOf(f) = Len(temps) /\ LevelOf(f) = PL_stack_sp + 1
  BY ONLY <1>1, <1>6, <1>8 DEF EndOf, LevelOf
<1> QED  BY <1>7, <1>8, <1>9, <1>10

\* dispatch pushes two activations at once.
LEMMA DispatchStep ==
    ASSUME StackInv, Dispatch
    PROVE  StackInv'
<1> DEFINE method == Frame("method", "dispatch", "loop")
           inner == [Frame("pl_eval", "run", "script") EXCEPT
                        !.id = made + 2, !.t0 = made + 2,
                        !.mark = PL_stack_sp + 1, !.sp = PL_stack_sp + 1]
           fs == Append(frames, method)
<1>1. /\ PL_stack_sp \in Nat /\ tmps_floor \in Nat /\ Len(temps) \in Nat /\ made \in Nat
      /\ temps \in Seq(Scalars) /\ plstack \in [Cells -> Scalars] /\ StackOK(frames)
      /\ frames \in Seq(FrameType) /\ Len(frames) \in Nat /\ MaxDepth \in Nat
  BY RegisterFacts, CallsAssumption
<1>2. /\ frames' = frames \o <<method, inner>> /\ made' = made + 2
      /\ plstack' = [plstack EXCEPT ![PL_stack_sp + 1] = Scalar(method.id, 0)]
      /\ PL_stack_sp' = PL_stack_sp + 1 /\ temps' = temps /\ tmps_floor' = tmps_floor
      /\ PerlRuns /\ Len(frames) + 1 < MaxDepth
  BY DEF Dispatch
<1>3. /\ method \in FrameType /\ FrameOK(method)
      /\ method.id = made + 1 /\ method.kind = "method"
      /\ method.mark = PL_stack_sp /\ method.floor = tmps_floor /\ method.base = Len(temps)
      /\ EndOf(method) = Len(temps) /\ LevelOf(method) = PL_stack_sp + 1
      /\ \A scalars : Alive(method, scalars)
      /\ \A cells : Written(method, cells)
  <2>1. method = Entered("method", "dispatch", "loop", 0)
    BY DEF Frame, Entered
  <2>2. /\ 0 \in 0 .. MaxArgs /\ "method" \in Kinds /\ "loop" \in Phases
        /\ "dispatch" \in Names
    BY CallsAssumption DEF Kinds, Phases, Names
  <2> HIDE DEF method
  <2> QED  BY <2>1, <2>2, NewFrame DEF method
<1>4. /\ inner \in FrameType /\ FrameOK(inner)
      /\ inner.id = made + 2 /\ inner.kind = "pl_eval" /\ inner.phase = "script"
      /\ inner.mark = PL_stack_sp + 1
      /\ inner.floor = tmps_floor /\ inner.base = Len(temps)
      /\ EndOf(inner) = Len(temps) /\ LevelOf(inner) = PL_stack_sp + 1
  BY InnerFrame
<1> HIDE DEF method, inner
<1>5. frames' = Append(fs, inner)
  BY ONLY <1>1, <1>2, <1>3, <1>4, AppendTwice DEF fs
<1> HIDE DEF fs
<1>6. Fits(frames, method)
  BY <1>3 DEF Fits, StackInv, Balanced
<1>7. fs = Append(frames, method)
  BY DEF fs
<1>8. StackOK(fs)
  BY <1>1, <1>6, <1>7, PushChain
<1>9. Len(fs) = Len(frames) + 1
  BY <1>1, <1>6, <1>7, PushChain
<1>10. fs[Len(fs)] = method
  BY <1>1, <1>6, <1>7, PushChain
<1>11. \A i \in 1 .. Len(frames) : fs[i] = frames[i]
  BY <1>1, <1>6, <1>7, PushChain
<1>12. /\ LevelAt(fs, Len(fs)) = PL_stack_sp + 1
       /\ FloorAt(fs, Len(fs)) = tmps_floor
       /\ EndAt(fs, Len(fs)) = Len(temps)
  <2>1. /\ LevelAt(fs, Len(fs)) = LevelOf(method)
        /\ FloorAt(fs, Len(fs)) = FloorOf(method)
        /\ EndAt(fs, Len(fs)) = EndOf(method)
    BY <1>1, <1>6, <1>7, PushChain
  <2> QED  BY <1>3, <2>1 DEF FloorOf
<1>13. Fits(fs, inner)
  BY <1>4, <1>12 DEF Fits
<1>14. plstack' \in [Cells -> Scalars]
  <2>1. Scalar(method.id, 0) \in Scalars
    BY <1>1, <1>3 DEF Scalar, Scalars
  <2> QED  BY <1>1, <1>2, <2>1
<1>15. ASSUME NEW i \in 1 .. Len(fs)
       PROVE  /\ fs[i].id <= made'
              /\ Alive(fs[i], temps') /\ Written(fs[i], plstack')
  <2>1. CASE i = Len(fs)
    BY <1>1, <1>2, <1>3, <1>10, <2>1
  <2>2. CASE i # Len(fs)
    <3>1. i \in 1 .. Len(frames) /\ fs[i] = frames[i]
      BY <1>1, <1>9, <1>11, <2>2
    <3>2. frames[i] \in FrameType /\ frames[i].id <= made /\ Alive(frames[i], temps)
      BY <1>1, <3>1, ElementOfSeq DEF StackInv
    <3>3. Written(frames[i], plstack')
      BY <1>2, <3>1, WrittenInPerl
    <3> QED  BY <1>1, <1>2, <3>1, <3>2, <3>3, FrameFields
  <2> QED  BY <2>1, <2>2
<1>16. Alive(inner, temps') /\ Written(inner, plstack')
  BY <1>4 DEF Alive, Written
<1>17. PL_stack_sp' = LevelOf(inner) /\ tmps_floor' = FloorOf(inner)
       /\ Len(temps') = EndOf(inner)
  BY <1>2, <1>4 DEF FloorOf
<1>18. made' \in Nat /\ inner.id <= made' /\ Len(fs) < MaxDepth /\ temps' \in Seq(Scalars)
  BY <1>1, <1>2, <1>4, <1>9
<1> QED  BY <1>5, <1>8, <1>13, <1>14, <1>15, <1>16, <1>17, <1>18, PushStep

\* A sub is entered.
LEMMA SubStep ==
    ASSUME StackInv, NEW nargs \in 0 .. MaxArgs, Sub(nargs)
    PROVE  StackInv'
<1> DEFINE f == [Frame("sub", "", "arguments") EXCEPT !.want = nargs]
<1>1. /\ PL_stack_sp \in Nat /\ tmps_floor \in Nat /\ Len(temps) \in Nat /\ made \in Nat
      /\ temps \in Seq(Scalars) /\ plstack \in [Cells -> Scalars]
      /\ frames \in Seq(FrameType) /\ Len(frames) \in Nat
  BY RegisterFacts
<1>2. /\ frames' = Append(Noted, f) /\ made' = made + 1 /\ tmps_floor' = Len(temps)
      /\ plstack' = plstack /\ PL_stack_sp' = PL_stack_sp /\ temps' = temps
      /\ Len(frames) < MaxDepth
  BY DEF Sub, Room
<1>3. /\ f \in FrameType /\ FrameOK(f) /\ f.id = made + 1 /\ f.kind = "sub"
      /\ f.mark = PL_stack_sp /\ f.floor = tmps_floor /\ f.base = Len(temps)
      /\ EndOf(f) = Len(temps) /\ LevelOf(f) = PL_stack_sp
      /\ Alive(f, temps') /\ Written(f, plstack')
  <2>1. "sub" \in Kinds /\ "arguments" \in Phases
    BY DEF Kinds, Phases
  <2>5. PICK name \in Names : name = ""
    BY DEF Names
  <2>4. f = Entered("sub", name, "arguments", nargs)
    BY <2>5 DEF Entered
  <2> HIDE DEF f
  <2>2. LevelOf(f) = PL_stack_sp + IF "sub" \in {"method", "eval"} THEN 1 ELSE 0
    BY <2>1, <2>4, NewFrame
  <2>3. /\ f \in FrameType /\ FrameOK(f) /\ f.id = made + 1 /\ f.kind = "sub"
        /\ f.mark = PL_stack_sp /\ f.floor = tmps_floor /\ f.base = Len(temps)
        /\ EndOf(f) = Len(temps)
        /\ \A scalars : Alive(f, scalars)
        /\ \A cells : Written(f, cells)
    BY <2>1, <2>4, NewFrame
  <2> QED  BY <1>1, <2>2, <2>3
<1> HIDE DEF f
<1>4. /\ StackOK(Noted) /\ Len(Noted) = Len(frames)
      /\ LevelAt(Noted, Len(frames)) = PL_stack_sp
      /\ FloorAt(Noted, Len(frames)) = tmps_floor
      /\ EndAt(Noted, Len(frames)) = Len(temps)
      /\ \A i \in 1 .. Len(frames) :
            /\ Noted[i].id = frames[i].id
            /\ Alive(Noted[i], temps)
            /\ Noted[i].phase = "arguments" => Noted[i].risen = Noted[i].sp - Noted[i].mark
            /\ Written(Noted[i], plstack)
  BY NotedChain
<1>5. Fits(Noted, f)
  BY <1>3, <1>4 DEF Fits
<1>6. ASSUME NEW i \in 1 .. Len(Noted)
      PROVE  /\ Noted[i].id <= made'
             /\ Alive(Noted[i], temps') /\ Written(Noted[i], plstack')
  <2>1. i \in 1 .. Len(frames) /\ frames[i] \in FrameType /\ frames[i].id <= made
    BY <1>1, <1>4, ElementOfSeq DEF StackInv
  <2>2. frames[i].id \in Nat
    BY ONLY <2>1, FrameFields
  <2>3. Noted[i].id = frames[i].id /\ Alive(Noted[i], temps) /\ Written(Noted[i], plstack)
    BY ONLY <1>4, <2>1
  <2> QED  BY <1>1, <1>2, <2>1, <2>2, <2>3
<1>7. PL_stack_sp' = LevelOf(f) /\ tmps_floor' = FloorOf(f) /\ Len(temps') = EndOf(f)
  BY <1>2, <1>3 DEF FloorOf
<1>8. /\ made' \in Nat /\ f.id <= made' /\ Len(Noted) < MaxDepth
      /\ temps' \in Seq(Scalars) /\ plstack' \in [Cells -> Scalars]
  BY <1>1, <1>2, <1>3, <1>4
<1> QED  BY <1>2, <1>3, <1>4, <1>5, <1>6, <1>7, <1>8, PushStep

\* A console call is entered.
LEMMA ConsoleStep ==
    ASSUME StackInv, NEW target \in Targets, Console(target)
    PROVE  StackInv'
<1> DEFINE f == Frame("console", target, "converting")
<1>1. /\ PL_stack_sp \in Nat /\ tmps_floor \in Nat /\ Len(temps) \in Nat /\ made \in Nat
      /\ temps \in Seq(Scalars) /\ plstack \in [Cells -> Scalars] /\ StackOK(frames)
      /\ frames \in Seq(FrameType)
  BY RegisterFacts
<1>2. /\ frames' = Append(frames, f) /\ made' = made + 1 /\ tmps_floor' = tmps_floor
      /\ plstack' = plstack /\ PL_stack_sp' = PL_stack_sp /\ temps' = temps
      /\ Len(frames) < MaxDepth
  BY DEF Console, Push, Room, perlVars
<1>3. /\ f \in FrameType /\ FrameOK(f) /\ f.id = made + 1 /\ f.kind = "console"
      /\ f.mark = PL_stack_sp /\ f.floor = tmps_floor /\ f.base = Len(temps)
      /\ EndOf(f) = Len(temps) /\ LevelOf(f) = PL_stack_sp
      /\ Alive(f, temps') /\ Written(f, plstack')
  <2>1. f = Entered("console", target, "converting", 0)
    BY DEF Frame, Entered
  <2>2. "console" \in Kinds /\ "converting" \in Phases /\ target \in Names
    BY DEF Kinds, Phases, Names
  <2>5. 0 \in 0 .. MaxArgs
    BY CallsAssumption
  <2> HIDE DEF f
  <2>3. LevelOf(f) = PL_stack_sp + IF "console" \in {"method", "eval"} THEN 1 ELSE 0
    BY <2>1, <2>2, <2>5, NewFrame
  <2>4. /\ f \in FrameType /\ FrameOK(f) /\ f.id = made + 1 /\ f.kind = "console"
        /\ f.mark = PL_stack_sp /\ f.floor = tmps_floor /\ f.base = Len(temps)
        /\ EndOf(f) = Len(temps)
        /\ \A scalars : Alive(f, scalars)
        /\ \A cells : Written(f, cells)
    BY <2>1, <2>2, <2>5, NewFrame
  <2> QED  BY <1>1, <2>3, <2>4
<1> HIDE DEF f
<1>4. Fits(frames, f)
  BY <1>3 DEF Fits, StackInv, Balanced
<1>5. ASSUME NEW i \in 1 .. Len(frames)
      PROVE  /\ frames[i].id <= made'
             /\ Alive(frames[i], temps') /\ Written(frames[i], plstack')
  <2>1. frames[i] \in FrameType /\ frames[i].id <= made
    BY <1>1, ElementOfSeq DEF StackInv
  <2> QED  BY <1>1, <1>2, <2>1, FrameFields DEF StackInv
<1>6. PL_stack_sp' = LevelOf(f) /\ tmps_floor' = FloorOf(f) /\ Len(temps') = EndOf(f)
  BY <1>2, <1>3 DEF FloorOf
<1>7. /\ made' \in Nat /\ f.id <= made'
      /\ temps' \in Seq(Scalars) /\ plstack' \in [Cells -> Scalars]
  BY <1>1, <1>2, <1>3
<1> QED  BY <1>1, <1>2, <1>3, <1>4, <1>5, <1>6, <1>7, PushStep

\* An argument is pushed, and is a temporary.
LEMMA PushArgumentStep ==
    ASSUME StackInv, PushArgument
    PROVE  StackInv'
<1> DEFINE n == Len(frames)
           scalar == Scalar(Top.id, Pushed + 1)
           f == [Top EXCEPT !.sp = @ + 1]
<1>1. /\ frames # <<>> /\ Top.phase = "arguments" /\ Top.sp - Top.mark < Top.want
      /\ InTop(f) /\ made' = made /\ PL_stack_sp' = PL_stack_sp
      /\ tmps_floor' = tmps_floor /\ temps' = Append(temps, scalar)
      /\ plstack' = [plstack EXCEPT ![Top.sp + 1] = scalar]
  BY DEF PushArgument, At, Pushed
<1>2. /\ n \in Nat /\ n \in 1 .. n /\ n - 1 \in 0 .. n /\ n <= MaxDepth /\ n - 1 \in Nat
      /\ Top = frames[n] /\ Top \in FrameType /\ FrameOK(Top) /\ Chained(frames, n)
      /\ Alive(Top, temps) /\ Written(Top, plstack)
      /\ PL_stack_sp = LevelOf(Top) /\ tmps_floor = FloorOf(Top)
      /\ Len(temps) = EndOf(Top)
  BY <1>1, TopFacts
<1>3. /\ Top.id \in Nat /\ Top.mark \in Nat /\ Top.sp \in Nat /\ Top.base \in Nat
      /\ Top.want \in Nat /\ Top.risen \in Nat /\ Top.mark <= Top.sp /\ Top.want <= MaxArgs
      /\ Top.kind = "sub" /\ Top.sp + 1 \in Nat
  <2>1. /\ Top.id \in Nat /\ Top.mark \in Nat /\ Top.sp \in Nat /\ Top.base \in Nat
        /\ Top.want \in Nat /\ Top.risen \in Nat
    BY ONLY <1>2, FrameFields
  <2>2. Top.mark <= Top.sp /\ Top.want <= MaxArgs /\ Top.kind = "sub"
    BY ONLY <1>1, <1>2 DEF FrameOK
  <2> QED  BY ONLY <2>1, <2>2
<1>4. /\ f \in FrameType /\ f.sp = Top.sp + 1
      /\ f.id = Top.id /\ f.kind = Top.kind /\ f.mark = Top.mark /\ f.phase = Top.phase
      /\ f.floor = Top.floor /\ f.base = Top.base /\ f.want = Top.want
      /\ f.risen = Top.risen /\ f.t0 = Top.t0 /\ f.name = Top.name
  BY <1>2, <1>3 DEF FrameType
<1> HIDE DEF f
<1>5. FrameOK(f)
  <2>1. f.sp - f.mark <= f.want /\ f.mark <= f.sp
    BY <1>1, <1>3, <1>4
  <2>2. f.phase = "arguments" /\ f.kind = "sub" /\ f.want <= MaxArgs
    BY <1>1, <1>3, <1>4
  <2>3. f.t0 = f.id /\ f.id # 0
    BY <1>2, <1>4 DEF FrameOK
  <2> QED  BY <2>1, <2>2, <2>3 DEF FrameOK
<1>6. PL_stack_sp' = LevelOf(f) /\ tmps_floor' = FloorOf(f)
  BY <1>1, <1>2, <1>4 DEF LevelOf, FloorOf
<1>7. scalar \in Scalars /\ temps \in Seq(Scalars) /\ plstack \in [Cells -> Scalars]
  BY <1>3 DEF Scalar, Scalars, Pushed, StackInv
<1>8. scalar = Scalar(Top.id, f.sp - f.mark)
  <2>1. Pushed + 1 = f.sp - f.mark
    BY <1>3, <1>4 DEF Pushed
  <2> QED  BY <2>1
<1> HIDE DEF scalar
<1>9. /\ temps' \in Seq(Scalars) /\ Len(temps') = Len(temps) + 1
      /\ temps'[Len(temps) + 1] = scalar
      /\ \A k \in 1 .. Len(temps) : temps'[k] = temps[k]
  BY <1>1, <1>7, AppendProperties
<1>16. Len(temps) = Top.base + (Top.sp - Top.mark)
  BY <1>2 DEF EndOf
<1>10. Len(temps') = EndOf(f)
  <2>1. EndOf(f) = Top.base + ((Top.sp + 1) - Top.mark)
    BY <1>4 DEF EndOf
  <2>2. \A b, m, x \in Nat : b + ((x + 1) - m) = (b + (x - m)) + 1
    OBVIOUS
  <2>3. Top.base + ((Top.sp + 1) - Top.mark) = (Top.base + (Top.sp - Top.mark)) + 1
    BY ONLY <1>3, <2>2
  <2>4. Len(temps') = Len(temps) + 1
    BY ONLY <1>9
  <2> QED  BY ONLY <1>16, <2>1, <2>3, <2>4
<1>11. plstack' \in [Cells -> Scalars]
  BY <1>1, <1>7
<1>12. Top.sp + 1 \in Cells
  <2>1. Top.mark <= Reach(n - 1)
    BY <1>2 DEF Chained
  <2>2. MaxDepth \in Nat /\ MaxArgs \in Nat /\ MaxDepth + 1 \in Nat
    BY CallsAssumption
  <2>3. /\ Reach(n - 1) \in Nat /\ Reach(MaxDepth) \in Nat
        /\ Reach(MaxDepth + 1) = Reach(MaxDepth) + MaxArgs + 1
    BY <1>2, <2>2, ReachFacts
  <2>4. Reach(n - 1) <= Reach(MaxDepth)
    <3>1. n - 1 <= MaxDepth
      BY <1>2, <2>2
    <3> QED  BY <1>2, <2>2, <3>1, ReachFacts
  <2>5. Cells = 1 .. Reach(MaxDepth + 1)
    BY ReachFacts
  <2>6. Top.sp + 1 <= Reach(MaxDepth + 1)
    <3>1. Top.sp - Top.mark < Top.want
      BY <1>1
    <3> HIDE DEF n
    <3> QED  BY <1>3, <2>1, <2>2, <2>3, <2>4, <3>1
  <2> QED  BY <1>3, <2>3, <2>5, <2>6
<1>13. ASSUME NEW i \in 1 .. n - 1
       PROVE  Alive(frames[i], temps') /\ Written(frames[i], plstack')
  <2>1. Written(frames[i], plstack')
    BY <1>1, <1>3, WrittenUnderSub
  <2>2. i \in 1 .. n /\ frames \in Seq(FrameType) /\ StackOK(frames)
        /\ Alive(frames[i], temps)
    BY <1>2 DEF StackInv, StackOK
  <2>3. frames[i] \in FrameType
    BY <2>2, ElementOfSeq
  <2>4. EndAt(frames, i) <= Len(temps) /\ EndAt(frames, i) \in Nat
    <3>1. n \in 0 .. Len(frames)
      BY <1>2
    <3> QED  BY <2>2, <3>1, EndsOrdered DEF StackInv, Balanced
  <2>5. EndAt(frames, i) = frames[i].base + (frames[i].sp - frames[i].mark)
    BY <1>2, <2>2 DEF EndAt, EndOf
  <2>6. ASSUME NEW j \in 1 .. frames[i].sp - frames[i].mark
        PROVE  temps'[frames[i].base + j] = temps[frames[i].base + j]
    <3>1. frames[i].base + j \in 1 .. Len(temps)
      BY <1>1, <2>3, <2>4, <2>5, RegisterFacts, TempWithin
    <3> QED  BY <1>9, <3>1
  <2>7. Alive(frames[i], temps')
    BY <2>2, <2>6 DEF Alive
  <2> QED  BY <2>1, <2>7
<1>14. Alive(f, temps')
  <2> SUFFICES ASSUME NEW j \in 1 .. f.sp - f.mark
               PROVE  temps'[f.base + j] = Scalar(f.id, j)
    BY DEF Alive
  <2>1. CASE j = f.sp - f.mark
    <3>1. f.base + j = Len(temps) + 1
      <4>1. \A b, m, x \in Nat : b + ((x + 1) - m) = (b + (x - m)) + 1
        OBVIOUS
      <4>2. f.base + j = Top.base + ((Top.sp + 1) - Top.mark)
        BY ONLY <1>4, <2>1
      <4>3. Top.base + ((Top.sp + 1) - Top.mark) = Top.base + (Top.sp - Top.mark) + 1
        BY ONLY <1>3, <4>1
      <4> QED  BY ONLY <1>16, <4>2, <4>3
    <3> QED  BY <1>4, <1>8, <1>9, <2>1, <3>1
  <2>2. CASE j # f.sp - f.mark
    <3>1. j \in 1 .. Top.sp - Top.mark
      BY <1>3, <1>4, <2>2
    <3>2. f.base + j \in 1 .. Len(temps)
      <4>1. Len(temps) \in Nat /\ Len(temps) <= Len(temps)
        BY RegisterFacts
      <4>2. Top.base + j \in 1 .. Len(temps)
        BY ONLY <1>2, <1>16, <3>1, <4>1, TempWithin
      <4> QED  BY ONLY <1>4, <4>2
    <3> QED  BY <1>2, <1>3, <1>4, <1>9, <3>1, <3>2 DEF Alive
  <2> QED  BY <2>1, <2>2
<1>15. Written(f, plstack')
  <2> SUFFICES ASSUME NEW j \in f.risen + 1 .. f.sp - f.mark
               PROVE  plstack'[f.mark + j] = Scalar(f.id, j)
    BY DEF Written
  <2>1. CASE j = f.sp - f.mark
    <3>1. f.mark + j = Top.sp + 1
      BY <1>3, <1>4, <2>1
    <3> QED  BY <1>1, <1>4, <1>7, <1>8, <1>12, <2>1, <3>1
  <2>2. CASE j # f.sp - f.mark
    <3>1. j \in Top.risen + 1 .. Top.sp - Top.mark /\ f.mark + j # Top.sp + 1
      BY <1>3, <1>4, <2>2
    <3>2. plstack'[f.mark + j] = plstack[f.mark + j]
      <4>1. f.mark + j \in Cells
        <5>1. Cells = 1 .. Reach(MaxDepth + 1)
          BY ReachFacts
        <5>2. f.mark + j \in Nat /\ f.mark + j <= Top.sp + 1 /\ f.mark + j >= 1
          BY <1>3, <1>4, <3>1
        <5>3. MaxDepth + 1 \in Nat
          BY CallsAssumption
        <5>4. Reach(MaxDepth + 1) \in Nat
          BY <5>3, ReachFacts
        <5> QED  BY <1>3, <1>12, <5>1, <5>2, <5>4
      <4> QED  BY <1>1, <1>7, <3>1, <4>1
    <3> QED  BY <1>1, <1>2, <1>4, <3>1, <3>2 DEF Written
  <2> QED  BY <2>1, <2>2
<1> QED  BY <1>1, <1>4, <1>5, <1>6, <1>9, <1>10, <1>11, <1>13, <1>14, <1>15, TopStep

\* The sub gets what is above its mark.
LEMMA CallSubStep ==
    ASSUME StackInv, CallSub
    PROVE  StackInv'
<1> DEFINE n == Len(frames)
           got == SubSeq(plstack, Top.mark + 1, Top.sp)
           f == [Top EXCEPT !.phase = "body", !.got = got]
<1>1. /\ frames # <<>> /\ Top.phase = "arguments" /\ Top.sp - Top.mark = Top.want
      /\ InTop(f) /\ made' = made /\ PL_stack_sp' = Top.mark
      /\ tmps_floor' = tmps_floor /\ temps' = temps /\ plstack' = plstack
  BY DEF CallSub, At, Pushed
<1>2. /\ n \in Nat /\ n \in 1 .. n /\ n - 1 \in 0 .. n /\ n <= MaxDepth /\ n - 1 \in Nat
      /\ Top = frames[n] /\ Top \in FrameType /\ FrameOK(Top) /\ Chained(frames, n)
      /\ Alive(Top, temps) /\ Written(Top, plstack)
      /\ tmps_floor = FloorOf(Top) /\ Len(temps) = EndOf(Top)
  BY <1>1, TopFacts
<1>3. /\ Top.id \in Nat /\ Top.mark \in Nat /\ Top.sp \in Nat /\ Top.base \in Nat
      /\ Top.want \in Nat /\ Top.risen \in Nat /\ Top.mark <= Top.sp /\ Top.want <= MaxArgs
      /\ Top.kind = "sub"
  BY <1>1, <1>2, FrameFields DEF FrameOK
<1>4. Top.sp <= Reach(MaxDepth + 1) /\ Reach(MaxDepth + 1) \in Nat
  <2>1. Top.mark <= Reach(n - 1)
    BY <1>2 DEF Chained
  <2>2. MaxDepth \in Nat /\ MaxArgs \in Nat /\ MaxDepth + 1 \in Nat
    BY CallsAssumption
  <2>3. /\ Reach(n - 1) \in Nat /\ Reach(MaxDepth) \in Nat
        /\ Reach(MaxDepth + 1) = Reach(MaxDepth) + MaxArgs + 1
    BY <1>2, <2>2, ReachFacts
  <2>4. Reach(n - 1) <= Reach(MaxDepth)
    <3>1. n - 1 <= MaxDepth
      BY <1>2, <2>2
    <3> QED  BY <1>2, <2>2, <3>1, ReachFacts
  <2>5. \A a, b, m, x, w, q \in Nat :
            (m <= a /\ a <= b /\ m <= x /\ x - m = w /\ w <= q)
                => x <= b + q + 1 /\ b + q + 1 \in Nat
    OBVIOUS
  <2>6. Top.sp - Top.mark = Top.want
    BY ONLY <1>1
  <2>7. Top.sp <= Reach(MaxDepth) + MaxArgs + 1 /\ Reach(MaxDepth) + MaxArgs + 1 \in Nat
    <3>1. PICK a, b, m, x, w, q \in Nat :
              /\ a = Reach(n - 1) /\ b = Reach(MaxDepth) /\ m = Top.mark
              /\ x = Top.sp /\ w = Top.want /\ q = MaxArgs
      BY ONLY <1>3, <2>2, <2>3
    <3>2. m <= a /\ a <= b /\ m <= x /\ x - m = w /\ w <= q
      BY ONLY <1>3, <2>1, <2>4, <2>6, <3>1
    <3> QED  BY ONLY <2>5, <3>1, <3>2
  <2> QED  BY ONLY <2>3, <2>7
<1>5. /\ got \in Seq(Scalars) /\ Len(got) = Top.want
      /\ \A j \in 1 .. Top.want : got[j] = plstack[Top.mark + j]
  <2>1. plstack \in Seq(Scalars) /\ Len(plstack) = Reach(MaxDepth + 1)
    <3>1. plstack \in [1 .. Reach(MaxDepth + 1) -> Scalars]
      BY ReachFacts DEF StackInv
    <3>2. plstack \in Seq(Scalars) /\ DOMAIN plstack = 1 .. Reach(MaxDepth + 1)
      BY <1>4, <3>1, SeqDef
    <3> QED  BY <1>4, <3>2, LenProperties
  <2>2. /\ Top.mark + 1 \in 1 .. Len(plstack) + 1 /\ Top.sp \in 0 .. Len(plstack)
        /\ Top.mark + 1 <= Top.sp + 1
    BY <1>3, <1>4, <2>1
  <2>3. /\ got \in Seq(Scalars) /\ Len(got) = Top.sp - (Top.mark + 1) + 1
        /\ \A j \in 1 .. Top.sp - (Top.mark + 1) + 1 : got[j] = plstack[(Top.mark + 1) + j - 1]
    BY <2>1, <2>2, SliceFacts
  <2>4. Top.sp - (Top.mark + 1) + 1 = Top.want
    BY <1>1, <1>3
  <2>5. \A j \in 1 .. Top.want : (Top.mark + 1) + j - 1 = Top.mark + j
    BY <1>3
  <2> QED  BY <2>3, <2>4, <2>5
<1> HIDE DEF got
<1>6. /\ f.phase = "body" /\ f.got = got /\ f.sp = Top.sp
      /\ f.id = Top.id /\ f.kind = Top.kind /\ f.mark = Top.mark
      /\ f.floor = Top.floor /\ f.base = Top.base /\ f.want = Top.want
      /\ f.risen = Top.risen /\ f.t0 = Top.t0 /\ f.name = Top.name
  BY <1>2 DEF FrameType
<1>7. f \in FrameType
  <2>1. "body" \in Phases
    BY DEF Phases
  <2> QED  BY ONLY <1>2, <1>5, <2>1 DEF FrameType, f
<1> HIDE DEF f
<1>8. FrameOK(f)
  <2>1. ASSUME NEW j \in f.risen + 1 .. f.want
        PROVE  f.got[j] = Scalar(f.id, j)
    <3>1. j \in 1 .. Top.want /\ j \in Top.risen + 1 .. Top.sp - Top.mark
      BY <1>1, <1>3, <1>6
    <3>2. plstack[Top.mark + j] = Scalar(Top.id, j)
      BY <1>1, <1>2, <3>1 DEF Written
    <3> QED  BY <1>5, <1>6, <3>1, <3>2
  <2>2. f.sp - f.mark = f.want /\ Len(f.got) = f.want
    BY <1>1, <1>5, <1>6
  <2> QED  BY <1>1, <1>2, <1>3, <1>6, <2>1, <2>2 DEF FrameOK
<1>9. /\ PL_stack_sp' = LevelOf(f) /\ tmps_floor' = FloorOf(f) /\ Len(temps') = EndOf(f)
  BY <1>1, <1>2, <1>3, <1>6 DEF LevelOf, FloorOf, EndOf
<1>10. \A i \in 1 .. n - 1 : Alive(frames[i], temps') /\ Written(frames[i], plstack')
  BY <1>1, <1>2 DEF StackInv
<1>11. Alive(f, temps') /\ Written(f, plstack')
  BY <1>1, <1>2, <1>6 DEF Alive, Written
<1>12. plstack' \in [Cells -> Scalars] /\ temps' \in Seq(Scalars)
  BY <1>1 DEF StackInv
<1> QED  BY <1>1, <1>6, <1>7, <1>8, <1>9, <1>10, <1>11, <1>12, TopStep

\* A sub returns: what it left and the temporaries of its call are gone.
LEMMA SubReturnsStep ==
    ASSUME StackInv, SubReturns
    PROVE  StackInv'
<1> DEFINE n == Len(frames)
<1>1. /\ frames # <<>> /\ Top.phase = "body" /\ frames' = Front(frames) /\ made' = made
      /\ plstack' = [plstack EXCEPT ![Top.mark + 1] = Scalar(Top.id, 0)]
      /\ PL_stack_sp' = Top.mark /\ temps' = SubSeq(temps, 1, tmps_floor)
      /\ tmps_floor' = Top.floor
  BY DEF SubReturns, At, Pop
<1>2. /\ n \in Nat /\ n \in 1 .. n /\ n - 1 \in 0 .. n
      /\ Top = frames[n] /\ Top \in FrameType /\ FrameOK(Top) /\ Chained(frames, n)
      /\ Front(frames) = SubSeq(frames, 1, n - 1) /\ tmps_floor = FloorOf(Top)
  BY <1>1, TopFacts
<1>3. Top.kind = "sub"
  BY <1>1, <1>2 DEF FrameOK
<1>4. /\ PL_stack_sp' = LevelAt(frames, n - 1) /\ tmps_floor' = FloorAt(frames, n - 1)
      /\ temps' = SubSeq(temps, 1, EndAt(frames, n - 1))
  BY <1>1, <1>2, <1>3 DEF Chained, FloorOf
<1>5. plstack' \in [Cells -> Scalars]
  <2>1. Scalar(Top.id, 0) \in Scalars
    BY <1>2, FrameFields DEF Scalar, Scalars
  <2> QED  BY <1>1, <2>1 DEF StackInv
<1>6. \A i \in 1 .. n - 1 : Written(frames[i], plstack')
  BY <1>1, <1>3, WrittenUnderSub
<1>7. frames' = SubSeq(frames, 1, n - 1)
  BY <1>1, <1>2
<1> HIDE DEF n
<1> QED  BY <1>1, <1>2, <1>4, <1>5, <1>6, <1>7, CutStep DEF n

\* A croak cuts the stack back to the nearest body of a sub.
LEMMA CroakCut ==
    ASSUME StackInv, Croak
    PROVE  /\ made' = made /\ plstack' = plstack
           /\ \E n \in 0 .. Len(frames) :
                 /\ frames' = SubSeq(frames, 1, n)
                 /\ temps' = SubSeq(temps, 1, EndAt(frames, n))
                 /\ PL_stack_sp' = LevelAt(frames, n)
                 /\ tmps_floor' = FloorAt(frames, n)
<1>1. StackOK(frames) /\ frames \in Seq(FrameType) /\ Len(frames) \in Nat
  BY RegisterFacts
<1>2. made' = made /\ plstack' = plstack
  BY DEF Croak
<1>3. CASE Bodies = {}
  <2>1. /\ frames' = SubSeq(frames, 1, 0)
        /\ PL_stack_sp' = 0 /\ temps' = <<>> /\ tmps_floor' = 0
    BY <1>3 DEF Croak
  <2>2. LevelAt(frames, 0) = 0 /\ FloorAt(frames, 0) = 0 /\ EndAt(frames, 0) = 0
    BY <1>1, FloorFacts DEF LevelAt, EndAt
  <2>3. temps' = SubSeq(temps, 1, 0)
    BY <2>1, WholeSlice DEF StackInv
  <2>4. 0 \in 0 .. Len(frames)
    BY <1>1
  <2> QED  BY <1>2, <2>1, <2>2, <2>3, <2>4
<1>4. CASE Bodies # {}
  <2> DEFINE b == Max(Bodies)
  <2>1. b \in Bodies
    <3>1. Bodies \in SUBSET (0 .. Len(frames))
      BY <1>1 DEF Bodies
    <3> QED  BY <1>1, <1>4, <3>1, MaxFacts
  <2>2. /\ frames' = SubSeq(frames, 1, b) /\ PL_stack_sp' = frames[b].mark
        /\ temps' = SubSeq(temps, 1, frames[b].base + frames[b].want)
        /\ tmps_floor' = frames[b].base
    BY <1>4 DEF Croak
  <2> HIDE DEF b
  <2>3. b \in 1 .. Len(frames) /\ frames[b].phase = "body" /\ b \in 0 .. Len(frames) /\ b # 0
    BY <1>1, <2>1 DEF Bodies
  <2>4. frames[b] \in FrameType /\ FrameOK(frames[b])
    BY <1>1, <2>3, ElementOfSeq DEF StackOK
  <2>5. frames[b].kind = "sub" /\ frames[b].sp - frames[b].mark = frames[b].want
    BY <2>3, <2>4 DEF FrameOK
  <2>6. LevelAt(frames, b) = frames[b].mark
    BY <2>3, <2>4, <2>5, FrameFields DEF LevelAt, LevelOf
  <2>7. FloorAt(frames, b) = frames[b].base
    BY <1>1, <2>3, <2>5, FloorFacts
  <2>8. EndAt(frames, b) = frames[b].base + frames[b].want
    BY <2>3, <2>5 DEF EndAt, EndOf
  <2> QED  BY <1>2, <2>2, <2>3, <2>6, <2>7, <2>8
<1> QED  BY <1>3, <1>4

\* What is below the cut is as it was.
LEMMA CroakStep ==
    ASSUME StackInv, Croak
    PROVE  StackInv'
<1>1. Len(frames) \in Nat /\ made' = made /\ plstack' = plstack
  BY RegisterFacts, CroakCut
<1>2. PICK n \in 0 .. Len(frames) :
         /\ frames' = SubSeq(frames, 1, n)
         /\ temps' = SubSeq(temps, 1, EndAt(frames, n))
         /\ PL_stack_sp' = LevelAt(frames, n)
         /\ tmps_floor' = FloorAt(frames, n)
  BY CroakCut
<1>3. plstack' \in [Cells -> Scalars] /\ \A i \in 1 .. Len(frames) : Written(frames[i], plstack')
  BY <1>1 DEF StackInv
<1>4. \A i \in 1 .. n : Written(frames[i], plstack')
  BY <1>1, <1>3
<1> QED  BY <1>1, <1>2, <1>3, <1>4, CutStep

\* EvalRan and EventLoop: an activation that is not a sub goes on.
LEMMA GotoStep ==
    ASSUME StackInv, frames # <<>>, Top.kind # "sub", NEW phase \in {"result", "loop"},
           Goto(phase), UNCHANGED <<made, perlVars>>
    PROVE  StackInv'
<1> DEFINE f == [Top EXCEPT !.phase = phase]
<1>1. /\ Top \in FrameType /\ FrameOK(Top) /\ Top = frames[Len(frames)]
      /\ Len(frames) \in 1 .. Len(frames) /\ Len(frames) \in Nat
      /\ PL_stack_sp = LevelOf(Top) /\ tmps_floor = FloorOf(Top)
      /\ Len(temps) = EndOf(Top)
  BY TopFacts
<1>2. /\ f.phase = phase /\ f.got = Top.got /\ f.sp = Top.sp
      /\ f.id = Top.id /\ f.kind = Top.kind /\ f.mark = Top.mark
      /\ f.floor = Top.floor /\ f.base = Top.base /\ f.want = Top.want
      /\ f.risen = Top.risen /\ f.t0 = Top.t0 /\ f.name = Top.name
  BY <1>1 DEF FrameType
<1>3. f \in FrameType
  <2>1. phase \in Phases
    BY DEF Phases
  <2> QED  BY ONLY <1>1, <2>1 DEF FrameType, f
<1>4. InTop(f) /\ made' = made /\ plstack' = plstack /\ PL_stack_sp' = PL_stack_sp
      /\ temps' = temps /\ tmps_floor' = tmps_floor
  BY DEF Goto, perlVars
<1> HIDE DEF f
<1>5. FrameOK(f) /\ phase \notin {"arguments", "body"}
  BY <1>1, <1>2 DEF FrameOK
<1>6. PL_stack_sp' = LevelOf(f) /\ tmps_floor' = FloorOf(f) /\ Len(temps') = EndOf(f)
  BY <1>1, <1>2, <1>4 DEF LevelOf, FloorOf, EndOf
<1>7. Alive(f, temps') /\ Written(f, plstack')
  BY <1>2, <1>5 DEF Alive, Written
<1>8. plstack' \in [Cells -> Scalars] /\ temps' \in Seq(Scalars)
      /\ \A i \in 1 .. Len(frames) - 1 :
            Alive(frames[i], temps') /\ Written(frames[i], plstack')
  BY <1>1, <1>4 DEF StackInv
<1> QED  BY <1>2, <1>3, <1>4, <1>5, <1>6, <1>7, <1>8, TopStep

\* A step that leaves the machine alone, however many reports it makes.
LEMMA QuietStep ==
    ASSUME StackInv, UNCHANGED <<frames, perlVars>>, made' \in Nat, made <= made'
    PROVE  StackInv'
<1>1. /\ frames' = frames /\ plstack' = plstack /\ PL_stack_sp' = PL_stack_sp
      /\ temps' = temps /\ tmps_floor' = tmps_floor
  BY DEF perlVars
<1>2. ASSUME NEW i \in 1 .. Len(frames)
      PROVE  frames[i].id <= made'
  <2>1. frames[i] \in FrameType /\ frames[i].id <= made /\ made \in Nat
    BY RegisterFacts, ElementOfSeq DEF StackInv
  <2> QED  BY <2>1, FrameFields
<1>3. Balanced'
  BY <1>1 DEF StackInv, Balanced
<1> QED  BY <1>1, <1>2, <1>3 DEF StackInv
----------------------------------------------------------------------------
\* At the start there is no activation and nothing on any stack.
LEMMA StackInit == CallsInit => StackInv
<1> SUFFICES ASSUME CallsInit
             PROVE  StackInv
  OBVIOUS
<1>1. /\ frames = <<>> /\ made = 0 /\ plstack = [cell \in Cells |-> Nothing]
      /\ PL_stack_sp = 0 /\ temps = <<>> /\ tmps_floor = 0
  BY DEF CallsInit
<1>2. frames \in Seq(FrameType) /\ Len(frames) = 0 /\ temps \in Seq(Scalars) /\ Len(temps) = 0
  BY <1>1, EmptySeq
<1>3. Nothing \in Scalars
  BY DEF Nothing, Scalar, Scalars
<1>4. LevelAt(frames, 0) = 0 /\ FloorAt(frames, 0) = 0 /\ EndAt(frames, 0) = 0
  BY <1>2, FloorFacts DEF LevelAt, EndAt
<1>5. StackOK(frames)
  BY <1>2 DEF StackOK
<1>6. 0 <= MaxDepth
  BY CallsAssumption
<1> QED  BY <1>1, <1>2, <1>3, <1>4, <1>5, <1>6 DEF StackInv, Balanced

\* Every step keeps the chain of activations.
LEMMA StackStep ==
    ASSUME StackInv, [CallsNext]_callVars
    PROVE  StackInv'
<1>1. made \in Nat /\ made + 1 \in Nat /\ made <= made + 1 /\ made <= made
  BY RegisterFacts
<1>2. CASE UNCHANGED callVars
  BY <1>1, <1>2, QuietStep DEF callVars
<1>3. CASE ProgramIdles
  BY <1>1, <1>3, QuietStep DEF ProgramIdles, callVars
<1>4. ASSUME NEW name \in Methods, Method(name)
      PROVE  StackInv'
  BY <1>4, CallStep DEF Method, Names
<1>5. CASE Dispatch
  BY <1>5, DispatchStep
<1>6. CASE DispatchSyntaxError
  BY <1>6, CallStep DEF DispatchSyntaxError, Names
<1>7. CASE MethodEnd
  <2>1. frames # <<>> /\ Top.kind # "sub" /\ LeaveMethod
    BY <1>7 DEF MethodEnd, At
  <2> QED  BY <2>1, PopStep DEF LeaveMethod
<1>8. CASE Eval
  BY <1>8, CallStep DEF Eval, Names
<1>9. CASE EvalSyntaxError
  BY <1>1, <1>9, QuietStep DEF EvalSyntaxError
<1>10. ASSUME frames # <<>>, Top.phase \notin {"arguments", "body"}
      PROVE  Top.kind # "sub"
  BY <1>10, TopFacts DEF FrameOK
<1>11. CASE EvalRan
  <2>1. frames # <<>> /\ Top.phase = "script" /\ Goto("result") /\ UNCHANGED <<made, perlVars>>
    BY <1>11 DEF EvalRan, At
  <2> QED  BY <1>10, <2>1, GotoStep
<1>12. CASE ScriptThrows
  <2>1. frames # <<>> /\ Top.phase = "script" /\ LeaveMethod
    BY <1>12 DEF ScriptThrows, At
  <2> QED  BY <1>10, <2>1, PopStep DEF LeaveMethod
<1>13. CASE EventLoop
  <2>1. frames # <<>> /\ Top.phase = "result" /\ Goto("loop") /\ UNCHANGED <<made, perlVars>>
    BY <1>13 DEF EventLoop, At
  <2> QED  BY <1>10, <2>1, GotoStep
<1>14. CASE CallbackThrows
  BY <1>1, <1>14, QuietStep DEF CallbackThrows
<1>15. CASE EvalEnd
  <2>1. frames # <<>> /\ Top.phase = "loop" /\ LeaveMethod
    BY <1>15 DEF EvalEnd, At
  <2> QED  BY <1>10, <2>1, PopStep DEF LeaveMethod
<1>16. ASSUME NEW nargs \in 0 .. MaxArgs, Sub(nargs)
       PROVE  StackInv'
  BY <1>16, SubStep
<1>17. CASE PushArgument
  BY <1>17, PushArgumentStep
<1>18. CASE CallSub
  BY <1>18, CallSubStep
<1>19. CASE SubReturns
  BY <1>19, SubReturnsStep
<1>20. CASE SubDies
  BY <1>20, CroakStep DEF SubDies
<1>21. CASE ConversionFails
  BY <1>21, CroakStep DEF ConversionFails
<1>22. ASSUME NEW target \in Targets, Console(target)
       PROVE  StackInv'
  BY <1>22, ConsoleStep
<1>23. CASE ConsoleEnd
  <2>1. /\ frames # <<>> /\ Top.kind = "console" /\ Pop
        /\ UNCHANGED <<made, plstack, temps, tmps_floor>> /\ PL_stack_sp' = PL_stack_sp
    BY <1>23 DEF ConsoleEnd, At, perlVars
  <2>2. PL_stack_sp = LevelOf(Top) /\ Top \in FrameType
    BY <2>1, TopFacts
  <2>3. PL_stack_sp' = Top.mark
    BY <2>1, <2>2, FrameFields DEF LevelOf
  <2> QED  BY <2>1, <2>3, PopStep
<1>24. CASE PerlRuns /\ (ResetStats \/ ResetMsgs) /\ UNCHANGED <<frames, made, perlVars>>
  BY <1>1, <1>24, QuietStep
<1> QED  BY <1>2, <1>3, <1>4, <1>5, <1>6, <1>7, <1>8, <1>9, <1>11, <1>12, <1>13, <1>14,
            <1>15, <1>16, <1>17, <1>18, <1>19, <1>20, <1>21, <1>22, <1>23, <1>24
         DEF CallsNext, LeavesTemps, FreesTemps

\* The chain of activations is an invariant.
THEOREM StackAlways == CallsSpec => []StackInv
<1>1. CallsInit => StackInv
  BY StackInit
<1>2. StackInv /\ [CallsNext]_callVars => StackInv'
  BY StackStep
<1> QED  BY <1>1, <1>2, PTL DEF CallsSpec

\* Whatever an activation calls, and however that call ends, leaves the stack
\* pointer and the floor of the temporaries where the activation had them
\* (perl_caller, pl_v8.cc): every mark is where the activation below left the
\* stack pointer, whichever activation that is.
THEOREM StackIsBalanced == CallsSpec => []StackBalanced
<1>1. ASSUME StackInv
      PROVE  StackBalanced
  <2>1. frames \in Seq(FrameType) /\ DOMAIN frames = 1 .. Len(frames) /\ Balanced
    BY <1>1, LenProperties DEF StackInv, StackOK
  <2>2. PL_stack_sp = Level(Len(frames))
    BY <2>1 DEF Balanced, LevelAt, LevelOf, Level
  <2>3. SubsIn(frames, Len(frames)) = {i \in DOMAIN frames : frames[i].kind = "sub"}
    BY <2>1 DEF SubsIn
  <2> QED  BY <2>1, <2>2, <2>3 DEF StackBalanced, Balanced, FloorAt
<1> QED  BY <1>1, StackAlways, PTL

\* The temporary of each argument is where its sub put it.
LEMMA ArgumentsHeld ==
    ASSUME StackInv, NEW i \in DOMAIN frames, frames[i].kind = "sub",
           NEW j \in 1 .. frames[i].sp - frames[i].mark
    PROVE  Held(Scalar(frames[i].id, j))
<1>1. /\ frames \in Seq(FrameType) /\ i \in 1 .. Len(frames) /\ Len(frames) \in Nat
      /\ temps \in Seq(Scalars) /\ DOMAIN temps = 1 .. Len(temps)
  BY LenProperties DEF StackInv, StackOK
<1>2. frames[i] \in FrameType /\ Alive(frames[i], temps)
  BY <1>1, ElementOfSeq DEF StackInv
<1>3. Len(frames) \in 0 .. Len(frames)
  BY <1>1
<1>4. EndAt(frames, i) <= Len(temps) /\ EndAt(frames, i) \in Nat /\ Len(temps) \in Nat
  BY <1>1, <1>3, EndsOrdered, RegisterFacts DEF StackInv, Balanced
<1>5. EndAt(frames, i) = frames[i].base + (frames[i].sp - frames[i].mark)
  BY <1>1 DEF EndAt, EndOf
<1>6. frames[i].base + j \in DOMAIN temps
  <2>1. frames[i].base + j \in 1 .. Len(temps)
    BY <1>2, <1>4, <1>5, TempWithin
  <2> QED  BY ONLY <1>1, <2>1
<1>7. temps[frames[i].base + j] = Scalar(frames[i].id, j)
  BY <1>2 DEF Alive
<1> QED  BY <1>6, <1>7 DEF Held, Range

\* A sub is called with each of its arguments in its place, unless a sub was
\* called while a later argument was converted (perl_caller, pl_v8.cc, whose
\* local stack pointer nobody else sees before PUTBACK).
THEOREM OnlyCallsDisturb == CallsSpec => []OnlyCallsDisturbArguments
<1>1. ASSUME StackInv
      PROVE  OnlyCallsDisturbArguments
  <2> SUFFICES ASSUME NEW i \in DOMAIN frames, frames[i].phase = "body"
               PROVE  /\ Len(frames[i].got) = frames[i].want
                      /\ \A j \in frames[i].risen + 1 .. frames[i].want :
                            frames[i].got[j] = Scalar(frames[i].id, j)
    BY DEF OnlyCallsDisturbArguments, Body
  <2>1. i \in 1 .. Len(frames)
    BY <1>1, LenProperties DEF StackInv, StackOK
  <2>2. FrameOK(frames[i])
    BY <1>1, <2>1 DEF StackInv, StackOK
  <2> QED  BY <2>2 DEF FrameOK
<1> QED  BY <1>1, StackAlways, PTL
----------------------------------------------------------------------------
(* The arguments. *)

\* Some use of f is over: its temporary was freed.
Ended(f) == \E use \in uses : use.func = f /\ ~ Held(use.scalar)

\* A scalar is the argument of some call, pushed by now, or its result: 0.
Known(scalar) ==
    /\ scalar.call \in Nat /\ scalar.call <= made /\ scalar.j \in Nat
    /\ \A i \in 1 .. Len(frames) :
          frames[i].id = scalar.call => scalar.j <= frames[i].sp - frames[i].mark

\* No activation is taken for another, only arguments are temporaries, and
\* nothing is noted of an argument before it is pushed.
UsesOK ==
    /\ \A i, k \in 1 .. Len(frames) : frames[i].id = frames[k].id => i = k
    /\ \A scalar \in Range(temps) : scalar.j # 0
    /\ \A use \in uses : Known(use.scalar) /\ use.func \in Functions

\* A function whose uses all go on has a count left.
CountsOK ==
    /\ refcnt = [f \in Functions |-> refcnt[f]]
    /\ \A f \in Functions : refcnt[f] \in Nat \ {0} \/ Ended(f)

\* Stack gs has the activations of fs, some cut off, with as many arguments or
\* more, or has new ones on top of them.
Outgrows(fs, gs, m) ==
    \A i \in 1 .. Len(gs) :
        IF i <= Len(fs)
        THEN gs[i].id = fs[i].id /\ fs[i].sp - fs[i].mark <= gs[i].sp - gs[i].mark
        ELSE gs[i].id = m + (i - Len(fs))

\* A stack that is cut short.
LEMMA OutgrowsCut ==
    ASSUME NEW fs \in Seq(FrameType), NEW n \in 0 .. Len(fs), NEW m
    PROVE  Outgrows(fs, SubSeq(fs, 1, n), m)
<1>1. Len(fs) \in Nat /\ n \in Nat
  BY LenProperties
<1>2. 1 \in 1 .. Len(fs) + 1 /\ 1 <= n + 1
  BY <1>1
<1>3. /\ Len(SubSeq(fs, 1, n)) = n - 1 + 1
      /\ \A i \in 1 .. n - 1 + 1 : SubSeq(fs, 1, n)[i] = fs[1 + i - 1]
  BY <1>1, <1>2, SliceFacts
<1>4. ASSUME NEW i \in 1 .. n
      PROVE  /\ SubSeq(fs, 1, n)[i] = fs[i] /\ i \in 1 .. Len(fs)
             /\ fs[i].sp - fs[i].mark <= fs[i].sp - fs[i].mark
  <2>1. SubSeq(fs, 1, n)[i] = fs[i] /\ i \in 1 .. Len(fs)
    BY <1>1, <1>3
  <2>2. fs[i] \in FrameType
    BY <2>1, ElementOfSeq
  <2> QED  BY <2>1, <2>2, FrameFields
<1> QED  BY <1>1, <1>3, <1>4 DEF Outgrows

\* A stack on which activations are pushed.
LEMMA OutgrowsPush ==
    ASSUME NEW fs \in Seq(FrameType), NEW gs \in Seq(FrameType), NEW f \in FrameType,
           Len(fs) <= Len(gs), NEW m, f.id = m + (Len(gs) + 1 - Len(fs)),
           Outgrows(fs, gs, m)
    PROVE  Outgrows(fs, Append(gs, f), m)
<1>1. /\ Len(gs) \in Nat /\ Len(Append(gs, f)) = Len(gs) + 1
      /\ Append(gs, f)[Len(gs) + 1] = f
      /\ \A i \in 1 .. Len(gs) : Append(gs, f)[i] = gs[i]
  BY AppendProperties, LenProperties
<1>2. Len(fs) \in Nat
  BY LenProperties
<1>3. \A i \in 1 .. Len(gs) + 1 : i \in 1 .. Len(gs) \/ (i = Len(gs) + 1 /\ ~ (i <= Len(fs)))
  BY <1>1, <1>2
<1>4. PICK hs : hs = Append(gs, f)
  OBVIOUS
<1>5. \A i \in 1 .. Len(gs) : hs[i] = gs[i]
  BY <1>1, <1>4
<1>6. ASSUME NEW i \in 1 .. Len(hs)
      PROVE  IF i <= Len(fs)
             THEN hs[i].id = fs[i].id /\ fs[i].sp - fs[i].mark <= hs[i].sp - hs[i].mark
             ELSE hs[i].id = m + (i - Len(fs))
  <2>1. CASE i \in 1 .. Len(gs)
    BY <1>5, <2>1 DEF Outgrows
  <2>2. CASE i = Len(gs) + 1 /\ ~ (i <= Len(fs))
    <3>1. hs[i] = f
      BY <1>1, <1>4, <2>2
    <3> QED  BY <2>2, <3>1
  <2> QED  BY <1>1, <1>3, <1>4, <2>1, <2>2
<1> QED  BY <1>4, <1>6 DEF Outgrows

\* A stack whose activations keep their ids and arguments, but for the last,
\* which may have one more.
LEMMA OutgrowsKept ==
    ASSUME NEW fs \in Seq(FrameType), NEW gs \in Seq(FrameType), Len(gs) = Len(fs), NEW m,
           \A i \in 1 .. Len(fs) :
              /\ gs[i].id = fs[i].id
              /\ fs[i].sp - fs[i].mark <= gs[i].sp - gs[i].mark
    PROVE  Outgrows(fs, gs, m)
BY DEF Outgrows

\* No step takes arguments back: activations are pushed, cut off, or go on.
LEMMA StackOutgrown ==
    ASSUME StackInv, [CallsNext]_callVars
    PROVE  made <= made' /\ Outgrows(frames, frames', made)
<1>1. frames \in Seq(FrameType) /\ Len(frames) \in Nat /\ made \in Nat
  BY RegisterFacts
<1>2. \A i \in 1 .. Len(frames) :
         /\ frames[i].id = frames[i].id
         /\ frames[i].sp - frames[i].mark <= frames[i].sp - frames[i].mark
  <2>1. ASSUME NEW i \in 1 .. Len(frames)
        PROVE  frames[i].sp - frames[i].mark <= frames[i].sp - frames[i].mark
    <3>1. frames[i] \in FrameType
      BY <1>1, ElementOfSeq
    <3> QED  BY <3>1, FrameFields
  <2> QED  BY <2>1
<1>3. Outgrows(frames, frames, made)
  BY <1>1, <1>2, OutgrowsKept
<1>4. ASSUME frames' = frames, made' = made \/ made' = made + 1
      PROVE  made <= made' /\ Outgrows(frames, frames', made)
  BY <1>1, <1>3, <1>4
<1>5. ASSUME NEW kind \in Kinds, NEW name \in Names, NEW phase \in Phases,
             kind = "sub" <=> phase = "arguments", phase # "body",
             kind = "console" => name \in Targets,
             NEW nargs \in 0 .. MaxArgs, kind # "sub" => nargs = 0,
             NEW gs \in Seq(FrameType), Len(gs) = Len(frames), Outgrows(frames, gs, made),
             frames' = Append(gs, Entered(kind, name, phase, nargs)), made' = made + 1
      PROVE  made <= made' /\ Outgrows(frames, frames', made)
  <2>1. PICK f : f = Entered(kind, name, phase, nargs)
    OBVIOUS
  <2>2. f \in FrameType /\ f.id = made + 1
    BY <1>5, <2>1, NewFrame
  <2>3. f.id = made + (Len(gs) + 1 - Len(frames)) /\ Len(frames) <= Len(gs)
    BY <1>1, <1>5, <2>2
  <2>4. frames' = Append(gs, f)
    BY <1>5, <2>1
  <2>5. Outgrows(frames, Append(gs, f), made)
    BY <1>1, <1>5, <2>2, <2>3, OutgrowsPush
  <2> QED  BY <1>1, <1>5, <2>4, <2>5
<1>6. ASSUME NEW kind \in {"method", "eval"}, NEW name \in Names,
             NEW phase \in {"converting", "script", "loop"},
             CallMethod(Frame(kind, name, phase))
      PROVE  made <= made' /\ Outgrows(frames, frames', made)
  <2>1. Frame(kind, name, phase) = Entered(kind, name, phase, 0)
    BY DEF Frame, Entered
  <2>2. frames' = Append(frames, Entered(kind, name, phase, 0)) /\ made' = made + 1
    BY <1>6, <2>1 DEF CallMethod, Push
  <2>3. 0 \in 0 .. MaxArgs /\ kind \in Kinds /\ phase \in Phases
    BY CallsAssumption DEF Kinds, Phases
  <2> QED  BY <1>1, <1>3, <1>5, <2>2, <2>3
<1>7. CASE Dispatch
  <2> DEFINE method == Frame("method", "dispatch", "loop")
             inner == [Frame("pl_eval", "run", "script") EXCEPT
                          !.id = made + 2, !.t0 = made + 2,
                          !.mark = PL_stack_sp + 1, !.sp = PL_stack_sp + 1]
  <2>1. frames' = frames \o <<method, inner>> /\ made' = made + 2
    BY <1>7 DEF Dispatch
  <2>2. method \in FrameType /\ method.id = made + 1
    <3>1. method = Entered("method", "dispatch", "loop", 0)
      BY DEF Frame, Entered
    <3>2. /\ 0 \in 0 .. MaxArgs /\ "method" \in Kinds /\ "loop" \in Phases
          /\ "dispatch" \in Names
      BY CallsAssumption DEF Kinds, Phases, Names
    <3> HIDE DEF method
    <3> QED  BY <3>1, <3>2, NewFrame
  <2>3. inner \in FrameType /\ inner.id = made + 2
    BY <1>1, InnerFrame
  <2> HIDE DEF method, inner
  <2>4. frames' = Append(Append(frames, method), inner)
    BY <1>1, <2>1, <2>2, <2>3, AppendTwice
  <2>5. /\ Append(frames, method) \in Seq(FrameType)
        /\ Len(Append(frames, method)) = Len(frames) + 1
    BY <1>1, <2>2, AppendProperties
  <2>6. /\ method.id = made + (Len(frames) + 1 - Len(frames)) /\ Len(frames) <= Len(frames)
        /\ inner.id = made + (Len(Append(frames, method)) + 1 - Len(frames))
        /\ Len(frames) <= Len(Append(frames, method))
    BY <1>1, <2>2, <2>3, <2>5
  <2>7. Outgrows(frames, Append(frames, method), made)
    BY <1>1, <1>3, <2>2, <2>6, OutgrowsPush
  <2>8. Outgrows(frames, Append(Append(frames, method), inner), made)
    BY <1>1, <2>3, <2>5, <2>6, <2>7, OutgrowsPush
  <2>9. made <= made'
    BY <1>1, <2>1
  <2> QED  BY ONLY <2>4, <2>8, <2>9
<1>8. ASSUME frames # <<>>, Pop, made' = made
      PROVE  made <= made' /\ Outgrows(frames, frames', made)
  <2>1. /\ Len(frames) - 1 \in 0 .. Len(frames)
        /\ Front(frames) = SubSeq(frames, 1, Len(frames) - 1)
    BY <1>8, TopFacts
  <2> QED  BY <1>1, <1>8, <2>1, OutgrowsCut DEF Pop
<1>9. ASSUME frames # <<>>, NEW f \in FrameType, InTop(f), made' = made,
             f.id = Top.id, Top.sp - Top.mark <= f.sp - f.mark
      PROVE  made <= made' /\ Outgrows(frames, frames', made)
  <2>1. Top = frames[Len(frames)] /\ Len(frames) \in 1 .. Len(frames)
    BY <1>9, TopFacts
  <2>2. /\ frames' \in Seq(FrameType) /\ Len(frames') = Len(frames)
        /\ \A i \in 1 .. Len(frames) : frames'[i] = IF i = Len(frames) THEN f ELSE frames[i]
    BY <1>1, <1>9, <2>1, ExceptSeq DEF InTop
  <2>3. \A i \in 1 .. Len(frames) :
           /\ frames'[i].id = frames[i].id
           /\ frames[i].sp - frames[i].mark <= frames'[i].sp - frames'[i].mark
    BY <1>2, <1>9, <2>1, <2>2
  <2> QED  BY <1>1, <1>9, <2>2, <2>3, OutgrowsKept
<1>10. ASSUME frames # <<>>, NEW phase \in Phases, Goto(phase), made' = made
       PROVE  made <= made' /\ Outgrows(frames, frames', made)
  <2>1. PICK f : f = [Top EXCEPT !.phase = phase]
    OBVIOUS
  <2>2. Top \in FrameType
    BY <1>10, TopFacts
  <2>3. f \in FrameType /\ f.id = Top.id /\ f.sp = Top.sp /\ f.mark = Top.mark
    BY <2>1, <2>2 DEF FrameType
  <2>4. Top.sp - Top.mark <= f.sp - f.mark
    BY <2>2, <2>3, FrameFields
  <2> QED  BY <1>9, <1>10, <2>1, <2>3, <2>4 DEF Goto
<1>11. ASSUME NEW nargs \in 0 .. MaxArgs, Sub(nargs)
       PROVE  made <= made' /\ Outgrows(frames, frames', made)
  <2>1. frames' = Append(Noted, Entered("sub", "", "arguments", nargs)) /\ made' = made + 1
    BY <1>11 DEF Sub, Entered
  <2>2. Noted \in Seq(FrameType) /\ Len(Noted) = Len(frames)
    BY NotedChain DEF StackOK
  <2>3. \A i \in 1 .. Len(frames) :
           /\ Noted[i].id = frames[i].id
           /\ frames[i].sp - frames[i].mark <= Noted[i].sp - Noted[i].mark
    <3>1. ASSUME NEW i \in 1 .. Len(frames)
          PROVE  /\ Noted[i].id = frames[i].id
                 /\ Noted[i].sp = frames[i].sp /\ Noted[i].mark = frames[i].mark
      <4>1. frames[i] \in FrameType /\ DOMAIN frames = 1 .. Len(frames)
        BY <1>1, ElementOfSeq, LenProperties
      <4> QED  BY <4>1 DEF Noted, FrameType
    <3> QED  BY <1>2, <3>1
  <2>4. Outgrows(frames, Noted, made)
    BY <1>1, <2>2, <2>3, OutgrowsKept
  <2>5. "sub" \in Kinds /\ "" \in Names /\ "arguments" \in Phases
    BY DEF Kinds, Names, Phases
  <2> QED  BY <1>5, <2>1, <2>2, <2>4, <2>5
<1>12. CASE PushArgument
  <2>1. PICK f : f = [Top EXCEPT !.sp = @ + 1]
    OBVIOUS
  <2>2. frames # <<>> /\ InTop(f) /\ made' = made
    BY <1>12, <2>1 DEF PushArgument, At
  <2>3. Top \in FrameType /\ Top.sp \in Nat /\ Top.mark \in Nat
    BY <2>2, TopFacts, FrameFields
  <2>4. f \in FrameType /\ f.id = Top.id /\ f.sp = Top.sp + 1 /\ f.mark = Top.mark
    BY <2>1, <2>3 DEF FrameType
  <2>5. Top.sp - Top.mark <= f.sp - f.mark
    BY <2>3, <2>4
  <2> QED  BY <1>9, <2>2, <2>4, <2>5
<1>13. CASE CallSub
  <2>1. frames # <<>> /\ made' = made /\ Len(frames) \in 1 .. Len(frames)
    BY <1>13, TopFacts DEF CallSub, At
  <2>2. Top = frames[Len(frames)] /\ Top \in FrameType
    BY <2>1, TopFacts
  <2>3. PICK f : f = [Top EXCEPT !.phase = "body",
                               !.got = SubSeq(plstack, Top.mark + 1, Top.sp)]
    OBVIOUS
  <2>4. f.id = Top.id /\ f.sp = Top.sp /\ f.mark = Top.mark
    BY <2>2, <2>3 DEF FrameType
  <2>5. frames' = [frames EXCEPT ![Len(frames)] = f]
    BY <1>13, <2>3 DEF CallSub, InTop
  <2>6. /\ Len(frames') = Len(frames)
        /\ \A i \in 1 .. Len(frames) : frames'[i] = IF i = Len(frames) THEN f ELSE frames[i]
    BY <1>1, <2>5
  <2>7. ASSUME NEW i \in 1 .. Len(frames)
        PROVE  /\ frames'[i].id = frames[i].id
               /\ frames[i].sp - frames[i].mark <= frames'[i].sp - frames'[i].mark
    BY <1>2, <2>2, <2>4, <2>6
  <2> QED  BY <1>1, <2>1, <2>6, <2>7 DEF Outgrows
<1>14. CASE FreesTemps
  <2>1. CASE SubReturns
    BY <1>8, <2>1 DEF SubReturns, At
  <2>2. CASE Croak
    <3>1. PICK n \in 0 .. Len(frames) : frames' = SubSeq(frames, 1, n)
      BY <2>2, CroakCut
    <3> QED  BY <1>1, <2>2, <3>1, CroakCut, OutgrowsCut
  <2> QED  BY <1>14, <2>1, <2>2 DEF FreesTemps, SubDies, ConversionFails
<1>15. CASE EvalRan \/ EventLoop
  BY <1>10, <1>15 DEF EvalRan, EventLoop, At, Phases
<1>16. CASE MethodEnd \/ ScriptThrows \/ EvalEnd \/ ConsoleEnd
  BY <1>8, <1>16 DEF MethodEnd, ScriptThrows, EvalEnd, ConsoleEnd, At, LeaveMethod
<1>17. CASE \/ DispatchSyntaxError \/ Eval
            \/ \E name \in Methods : Method(name)
  BY <1>6, <1>17 DEF DispatchSyntaxError, Eval, Method, Names
<1>18. ASSUME NEW target \in Targets, Console(target)
       PROVE  made <= made' /\ Outgrows(frames, frames', made)
  <2>1. /\ frames' = Append(frames, Entered("console", target, "converting", 0))
        /\ made' = made + 1
    BY <1>18 DEF Console, Push, Frame, Entered
  <2>2. 0 \in 0 .. MaxArgs /\ "console" \in Kinds /\ "converting" \in Phases
    BY CallsAssumption DEF Kinds, Phases
  <2>3. target \in Names
    BY DEF Names
  <2>4. PICK kind \in Kinds, phase \in Phases : kind = "console" /\ phase = "converting"
    BY <2>2
  <2> QED  BY <1>1, <1>3, <1>5, <2>1, <2>2, <2>3, <2>4
<1>19. CASE \/ ProgramIdles \/ UNCHANGED callVars \/ EvalSyntaxError \/ CallbackThrows
            \/ PerlRuns /\ (ResetStats \/ ResetMsgs) /\ UNCHANGED <<frames, made, perlVars>>
  BY <1>4, <1>19 DEF ProgramIdles, callVars, EvalSyntaxError, CallbackThrows
<1> QED  BY <1>7, <1>11, <1>12, <1>13, <1>14, <1>15, <1>16, <1>17, <1>18, <1>19
         DEF CallsNext, LeavesTemps

\* Activations stay distinct, and what is known of a scalar stays true.
LEMMA KnownStays ==
    ASSUME StackInv, UsesOK, [CallsNext]_callVars
    PROVE  /\ \A i, k \in 1 .. Len(frames') : frames'[i].id = frames'[k].id => i = k
           /\ \A scalar : Known(scalar) => Known(scalar)'
<1>1. /\ frames \in Seq(FrameType) /\ Len(frames) \in Nat /\ made \in Nat
      /\ made <= made' /\ Outgrows(frames, frames', made)
      /\ \A i \in 1 .. Len(frames) : frames[i].id <= made
  BY RegisterFacts, StackOutgrown DEF StackInv
<1>2. frames' \in Seq(FrameType) /\ Len(frames') \in Nat /\ made' \in Nat
  <2>1. StackInv'
    BY StackStep
  <2> QED  BY <2>1, LenProperties DEF StackInv, StackOK
<1>3. ASSUME NEW i \in 1 .. Len(frames')
      PROVE  \/ /\ i \in 1 .. Len(frames) /\ frames'[i].id = frames[i].id
                /\ frames'[i].id <= made
                /\ frames[i].sp - frames[i].mark <= frames'[i].sp - frames'[i].mark
             \/ /\ frames'[i].id = made + (i - Len(frames))
                /\ frames'[i].id > made
  <2>1. CASE i <= Len(frames)
    <3>1. i \in 1 .. Len(frames)
      BY <1>1, <1>2, <2>1
    <3> QED  BY <1>1, <2>1, <3>1 DEF Outgrows
  <2>2. CASE ~ (i <= Len(frames))
    <3>1. frames'[i].id = made + (i - Len(frames))
      BY <1>1, <2>2 DEF Outgrows
    <3> QED  BY <1>1, <1>2, <2>2, <3>1
  <2> QED  BY <2>1, <2>2
<1>4. ASSUME NEW i \in 1 .. Len(frames'), NEW k \in 1 .. Len(frames'),
             frames'[i].id = frames'[k].id
      PROVE  i = k
  <2>1. i \in Int /\ k \in Int
    BY <1>2
  <2>2. CASE frames'[i].id <= made
    <3>1. i \in 1 .. Len(frames) /\ frames'[i].id = frames[i].id
      BY <1>1, <1>3, <2>1, <2>2
    <3>2. k \in 1 .. Len(frames) /\ frames'[k].id = frames[k].id
      BY <1>1, <1>3, <1>4, <2>1, <2>2
    <3> QED  BY <1>4, <3>1, <3>2 DEF UsesOK
  <2>3. CASE ~ (frames'[i].id <= made)
    <3>1. frames'[i].id = made + (i - Len(frames))
      BY <1>3, <2>3
    <3>2. frames'[k].id = made + (k - Len(frames))
      BY <1>3, <1>4, <2>3
    <3>3. \A m, n, x, y \in Int : m + (x - n) = m + (y - n) => x = y
      OBVIOUS
    <3>4. made + (i - Len(frames)) = made + (k - Len(frames))
      BY ONLY <1>4, <3>1, <3>2
    <3>5. made \in Int /\ Len(frames) \in Int
      BY ONLY <1>1
    <3> QED  BY ONLY <2>1, <3>3, <3>4, <3>5
  <2> QED  BY <2>2, <2>3
<1>5. ASSUME NEW scalar, Known(scalar)
      PROVE  Known(scalar)'
  <2>1. scalar.call \in Nat /\ scalar.call <= made /\ scalar.j \in Nat
    BY <1>5 DEF Known
  <2>2. scalar.call <= made'
    BY <1>1, <1>2, <2>1
  <2>3. ASSUME NEW i \in 1 .. Len(frames'), frames'[i].id = scalar.call
        PROVE  scalar.j <= frames'[i].sp - frames'[i].mark
    <3>1. /\ i \in 1 .. Len(frames) /\ frames'[i].id = frames[i].id
          /\ frames[i].sp - frames[i].mark <= frames'[i].sp - frames'[i].mark
      BY <1>1, <1>3, <2>1, <2>3
    <3>2. scalar.j <= frames[i].sp - frames[i].mark
      BY <1>5, <2>3, <3>1 DEF Known
    <3>3. frames[i] \in FrameType /\ frames'[i] \in FrameType
      BY <1>1, <1>2, <3>1, ElementOfSeq
    <3>4. \A x, y, z \in Int : x <= y /\ y <= z => x <= z
      OBVIOUS
    <3>5. /\ frames[i].sp - frames[i].mark \in Int
          /\ frames'[i].sp - frames'[i].mark \in Int
      BY <3>3, FrameFields
    <3> QED  BY <2>1, <3>1, <3>2, <3>4, <3>5
  <2> QED  BY <2>1, <2>2, <2>3 DEF Known
<1> QED  BY <1>4, <1>5

\* What a pushed argument adds: a temporary of which nothing was noted.
LEMMA PushedFacts ==
    ASSUME StackInv, UsesOK, PushArgument,
           NEW scalar, scalar = Scalar(Top.id, Pushed + 1)
    PROVE  /\ Known(scalar)'
           /\ \A use \in uses : use.scalar # scalar
           /\ Range(temps)' = Range(temps) \cup {scalar}
           /\ scalar.j # 0
<1>1. /\ frames # <<>> /\ temps' = Append(temps, scalar) /\ temps \in Seq(Scalars)
      /\ made' = made /\ made \in Nat
      /\ frames' = [frames EXCEPT ![Len(frames)] = [Top EXCEPT !.sp = @ + 1]]
  BY RegisterFacts DEF PushArgument, At, InTop
<1>2. /\ Len(frames) \in 1 .. Len(frames) /\ Len(frames) \in Nat
      /\ Top = frames[Len(frames)] /\ Top \in FrameType /\ Top.id <= made
      /\ FrameOK(Top) /\ frames \in Seq(FrameType)
  BY <1>1, TopFacts, RegisterFacts
<1>3. /\ Top.id \in Nat /\ Top.sp \in Nat /\ Top.mark \in Nat /\ Top.mark <= Top.sp
      /\ Pushed = Top.sp - Top.mark
  BY <1>2, FrameFields DEF FrameOK, Pushed
<1>4. scalar.call = Top.id /\ scalar.j = Pushed + 1
  BY DEF Scalar
<1>5. scalar.j \in Nat /\ scalar.j # 0 /\ ~ (scalar.j <= Top.sp - Top.mark)
  BY <1>3, <1>4
<1>6. \A use \in uses : use.scalar # scalar
  <2>1. ASSUME NEW use \in uses, use.scalar = scalar PROVE FALSE
    <3>1. Known(scalar)
      BY <2>1 DEF UsesOK
    <3> QED  BY <1>2, <1>4, <1>5, <3>1 DEF Known
  <2> QED  BY <2>1
<1>7. Range(temps)' = Range(temps) \cup {scalar}
  <2>1. scalar \in Scalars
    BY <1>3, <1>4, <1>5 DEF Scalar, Scalars
  <2>2. /\ DOMAIN temps = 1 .. Len(temps) /\ DOMAIN temps' = 1 .. Len(temps) + 1
        /\ Len(temps) \in Nat
        /\ temps'[Len(temps) + 1] = scalar
        /\ \A k \in 1 .. Len(temps) : temps'[k] = temps[k]
    BY <1>1, <2>1, AppendProperties, LenProperties
  <2>3. \A k \in 1 .. Len(temps) + 1 : k \in 1 .. Len(temps) \/ k = Len(temps) + 1
    BY <2>2
  <2> QED  BY <2>2, <2>3 DEF Range
<1>8. Known(scalar)'
  <2>1. PICK f : f = [Top EXCEPT !.sp = @ + 1]
    OBVIOUS
  <2>2. f.id = Top.id /\ f.sp = Top.sp + 1 /\ f.mark = Top.mark
    BY <1>2, <2>1 DEF FrameType
  <2>3. /\ Len(frames') = Len(frames)
        /\ \A i \in 1 .. Len(frames) : frames'[i] = IF i = Len(frames) THEN f ELSE frames[i]
    BY <1>1, <1>2, <2>1
  <2>4. ASSUME NEW i \in 1 .. Len(frames'), frames'[i].id = scalar.call
        PROVE  scalar.j <= frames'[i].sp - frames'[i].mark
    <3>1. frames[i].id = Top.id /\ i \in 1 .. Len(frames)
      BY <1>2, <1>4, <2>2, <2>3, <2>4
    <3>2. i = Len(frames)
      BY <1>2, <3>1 DEF UsesOK
    <3>3. frames'[i].sp = Top.sp + 1 /\ frames'[i].mark = Top.mark
      BY <2>2, <2>3, <3>1, <3>2
    <3> QED  BY <1>3, <1>4, <3>3
  <2> QED  BY <1>1, <1>2, <1>3, <1>4, <1>5, <2>4 DEF Known
<1> QED  BY <1>5, <1>6, <1>7, <1>8

\* The other steps push no temporary.
LEMMA TempsShrink ==
    ASSUME StackInv, LeavesTemps \/ FreesTemps
    PROVE  Range(temps)' \subseteq Range(temps)
<1>1. temps \in Seq(Scalars) /\ frames \in Seq(FrameType) /\ Len(frames) \in Nat
      /\ StackOK(frames) /\ Len(temps) \in Nat /\ tmps_floor \in Nat
  BY RegisterFacts
<1>2. ASSUME NEW n \in 0 .. Len(temps), temps' = SubSeq(temps, 1, n)
      PROVE  Range(temps)' \subseteq Range(temps)
  <2>1. 1 \in 1 .. Len(temps) + 1 /\ 1 <= n + 1 /\ n \in Nat
    BY <1>1
  <2>2. /\ temps' \in Seq(Scalars) /\ Len(temps') = n - 1 + 1
        /\ \A k \in 1 .. n - 1 + 1 : temps'[k] = temps[1 + k - 1]
    BY <1>1, <1>2, <2>1, SliceFacts
  <2>3. DOMAIN temps' = 1 .. n /\ DOMAIN temps = 1 .. Len(temps)
    BY <1>1, <2>1, <2>2, LenProperties
  <2>4. \A k \in 1 .. n : k \in 1 .. Len(temps) /\ temps'[k] = temps[k]
    BY <1>1, <2>1, <2>2
  <2> QED  BY <2>3, <2>4 DEF Range
<1>3. ASSUME NEW i \in 0 .. Len(frames), temps' = SubSeq(temps, 1, EndAt(frames, i))
      PROVE  Range(temps)' \subseteq Range(temps)
  <2>1. EndAt(frames, i) \in Nat /\ EndAt(frames, i) <= Len(temps)
    <3>1. Len(frames) \in 0 .. Len(frames) /\ Len(temps) = EndAt(frames, Len(frames))
      BY <1>1 DEF StackInv, Balanced
    <3>2. CASE i = 0
      BY <1>1, <3>2 DEF EndAt
    <3>3. CASE i # 0
      <4>1. i \in 1 .. Len(frames)
        BY <1>1, <3>3
      <4> QED  BY <1>1, <3>1, <4>1, EndsOrdered
    <3> QED  BY <3>2, <3>3
  <2>2. EndAt(frames, i) \in 0 .. Len(temps)
    BY <1>1, <2>1
  <2> QED  BY <1>2, <1>3, <2>2
<1>4. CASE FreesTemps
  <2>1. CASE SubReturns
    <3>1. /\ frames # <<>> /\ Top.phase = "body"
          /\ temps' = SubSeq(temps, 1, tmps_floor)
      BY <2>1 DEF SubReturns, At
    <3>2. /\ Top = frames[Len(frames)] /\ FrameOK(Top) /\ tmps_floor = FloorOf(Top)
          /\ Chained(frames, Len(frames)) /\ Len(frames) - 1 \in 0 .. Len(frames)
      BY <3>1, TopFacts
    <3>3. tmps_floor = EndAt(frames, Len(frames) - 1)
      BY <3>1, <3>2 DEF FrameOK, FloorOf, Chained
    <3> QED  BY <1>3, <3>1, <3>2, <3>3
  <2>2. CASE Croak
    BY <1>3, <2>2, CroakCut
  <2> QED  BY <1>4, <2>1, <2>2 DEF FreesTemps, SubDies, ConversionFails
<1>5. CASE temps' = temps
  BY <1>5
<1>6. CASE LeavesTemps
  BY <1>5, <1>6
     DEF LeavesTemps, ProgramIdles, callVars, perlVars, Method, CallMethod, Dispatch,
         DispatchSyntaxError, MethodEnd, LeaveMethod, Eval, EvalSyntaxError, EvalRan,
         ScriptThrows, EventLoop, CallbackThrows, EvalEnd, Sub, CallSub, Console, ConsoleEnd
<1> QED  BY <1>4, <1>6

\* What is noted of stays freed: no step makes a temporary of it again.
LEMMA FreedStays ==
    ASSUME StackInv, UsesOK, [CallsNext]_callVars
    PROVE  /\ \A scalar \in Range(temps)' : scalar.j # 0
           /\ \A use \in uses : use.scalar \in Range(temps)' => use.scalar \in Range(temps)
<1>1. CASE LeavesTemps \/ FreesTemps \/ UNCHANGED callVars
  <2>1. Range(temps)' \subseteq Range(temps)
    <3>1. CASE UNCHANGED callVars
      BY <3>1 DEF callVars, perlVars
    <3> QED  BY <1>1, <3>1, TempsShrink
  <2> QED  BY <2>1 DEF UsesOK
<1>2. CASE PushArgument
  <2>1. PICK scalar : scalar = Scalar(Top.id, Pushed + 1)
    OBVIOUS
  <2>2. /\ Range(temps)' = Range(temps) \cup {scalar} /\ scalar.j # 0
        /\ \A use \in uses : use.scalar # scalar
    BY <1>2, <2>1, PushedFacts
  <2> QED  BY <2>2 DEF UsesOK
<1> QED  BY <1>1, <1>2 DEF CallsNext

\* The result of an activation is known, and it is no temporary of a sub.
LEMMA ResultKnown ==
    ASSUME StackInv, UsesOK, [CallsNext]_callVars, NEW i \in 1 .. Len(frames),
           NEW scalar, scalar = Scalar(frames[i].id, 0)
    PROVE  Known(scalar)' /\ scalar \notin Range(temps)'
<1>1. scalar.call = frames[i].id /\ scalar.j = 0
  BY DEF Scalar
<1>2. /\ frames \in Seq(FrameType) /\ made \in Nat
      /\ \A k \in 1 .. Len(frames) : frames[k].id <= made /\ FrameOK(frames[k])
  BY RegisterFacts DEF StackInv, StackOK
<1>3. ASSUME NEW k \in 1 .. Len(frames)
      PROVE  frames[k].id \in Nat /\ 0 <= frames[k].sp - frames[k].mark
  <2>1. frames[k] \in FrameType /\ frames[k].mark <= frames[k].sp
    BY <1>2, ElementOfSeq DEF FrameOK
  <2> QED  BY <2>1, FrameFields
<1>4. Known(scalar)
  BY <1>1, <1>2, <1>3 DEF Known
<1>5. Known(scalar)'
  BY <1>4, KnownStays
<1> QED  BY <1>1, <1>5, FreedStays

\* A step that notes what is known keeps what was noted, and a use that is over
\* stays so.
LEMMA UsesGrow ==
    ASSUME StackInv, UsesOK, [CallsNext]_callVars, NEW new, uses' = uses \cup new,
           \A use \in new : Known(use.scalar)' /\ use.func \in Functions
    PROVE  UsesOK' /\ \A f : Ended(f) => Ended(f)'
<1>1. /\ \A i, k \in 1 .. Len(frames') : frames'[i].id = frames'[k].id => i = k
      /\ \A scalar \in Range(temps)' : scalar.j # 0
  BY KnownStays, FreedStays
<1>2. \A use \in uses' : Known(use.scalar)' /\ use.func \in Functions
  BY KnownStays DEF UsesOK
<1>3. UsesOK'
  BY <1>1, <1>2 DEF UsesOK
<1>4. ASSUME NEW f, Ended(f)
      PROVE  Ended(f)'
  <2>1. PICK use \in uses : use.func = f /\ ~ Held(use.scalar)
    BY <1>4 DEF Ended
  <2>2. use \in uses' /\ use.func = f /\ use.scalar \notin Range(temps)'
    BY <2>1, FreedStays DEF Held
  <2> QED  BY <2>2 DEF Ended, Held
<1> QED  BY <1>3, <1>4

\* A count is given up by a use that is over.
LEMMA CountsGivenUp ==
    ASSUME NEW f, f \in Functions, CountsOK, uses \subseteq uses', Ended(f) => Ended(f)'
    PROVE  \/ refcnt[f] - Cardinality(GivenUp(f)) \in Nat \ {0}
           \/ Ended(f)'
<1>1. CASE GivenUp(f) = {}
  <2>1. Cardinality(GivenUp(f)) = 0
    BY <1>1, FS_EmptySet
  <2> QED  BY <2>1 DEF CountsOK
<1>2. CASE GivenUp(f) # {}
  <2>1. PICK use \in uses : use.func = f /\ ~ Held(use.scalar)'
    BY <1>2 DEF GivenUp
  <2>2. use \in uses'
    BY <2>1
  <2> QED  BY <2>1, <2>2 DEF Ended
<1> QED  BY <1>1, <1>2
ArgumentsInv == StackInv /\ UsesOK /\ CountsOK

\* A step that changes no count.
LEMMA CountsKept ==
    ASSUME CountsOK, refcnt' = refcnt, \A f : Ended(f) => Ended(f)'
    PROVE  CountsOK'
BY DEF CountsOK

\* An argument: its temporary is known, and a container adds a count.
LEMMA ArgumentStep ==
    ASSUME ArgumentsInv, NEW f \in Functions, FunctionArgument(f) \/ HolderArgument(f)
    PROVE  ArgumentsInv'
<1>1. StackInv /\ UsesOK /\ CountsOK /\ PushArgument
  BY DEF ArgumentsInv, FunctionArgument, HolderArgument
<1>2. [CallsNext]_callVars /\ StackInv'
  <2>1. [CallsNext]_callVars
    BY <1>1 DEF CallsNext
  <2> QED  BY <1>1, <2>1, StackStep
<1>3. PICK scalar : scalar = Scalar(Top.id, Pushed + 1)
  OBVIOUS
<1>4. Known(scalar)'
  BY <1>1, <1>3, PushedFacts
<1>5. PICK new : /\ uses' = uses \cup new
                 /\ \A use \in new : use.scalar = scalar /\ use.func = f
  <2>1. \A n : Use(scalar, f, n).scalar = scalar /\ Use(scalar, f, n).func = f
    BY DEF Use
  <2>2. CASE FunctionArgument(f)
    <3>1. PICK new : new = {Use(scalar, f, 1)}
      OBVIOUS
    <3>2. uses' = uses \cup new
      BY <1>3, <2>2, <3>1 DEF FunctionArgument, Note
    <3> QED  BY <2>1, <3>1, <3>2
  <2>3. CASE HolderArgument(f)
    <3>1. PICK new : new = {Use(scalar, f, 1), Use(scalar, f, 2)}
      OBVIOUS
    <3>2. uses' = uses \cup new
      BY <1>3, <2>3, <3>1 DEF HolderArgument, Note
    <3> QED  BY <2>1, <3>1, <3>2
  <2> QED  BY <2>2, <2>3
<1>6. \A use \in new : Known(use.scalar)' /\ use.func \in Functions
  BY <1>4, <1>5
<1>7. UsesOK' /\ \A g : Ended(g) => Ended(g)'
  BY <1>1, <1>2, <1>5, <1>6, UsesGrow
<1>8. CountsOK'
  <2>1. CASE FunctionArgument(f)
    BY <1>1, <1>7, <2>1, CountsKept DEF FunctionArgument
  <2>2. CASE HolderArgument(f)
    <3>1. refcnt' = [refcnt EXCEPT ![f] = refcnt[f] + 1] /\ refcnt = [g \in Functions |-> refcnt[g]]
      BY <1>1, <2>2 DEF HolderArgument, CountsOK
    <3>2. refcnt' = [g \in Functions |-> refcnt'[g]]
      BY <3>1
    <3>3. ASSUME NEW g \in Functions
          PROVE  refcnt'[g] \in Nat \ {0} \/ Ended(g)'
      <4>1. refcnt[g] \in Nat \ {0} \/ Ended(g)
        BY <1>1 DEF CountsOK
      <4>2. refcnt'[g] = IF g = f THEN refcnt[g] + 1 ELSE refcnt[g]
        BY <3>1
      <4>3. \A n \in Nat \ {0} : n + 1 \in Nat \ {0}
        OBVIOUS
      <4> QED  BY <1>7, <4>1, <4>2, <4>3
    <3> QED  BY <3>2, <3>3 DEF CountsOK
  <2> QED  BY <2>1, <2>2
<1> QED  BY <1>2, <1>7, <1>8 DEF ArgumentsInv

\* A result, or a container half made: what is noted of it is over.
LEMMA EndedStep ==
    ASSUME ArgumentsInv, NEW f \in Functions, FunctionResult(f) \/ HalfConverted(f)
    PROVE  ArgumentsInv'
<1>1. StackInv /\ UsesOK /\ CountsOK
  BY DEF ArgumentsInv
<1>2. [CallsNext]_callVars
  <2>1. CASE FunctionResult(f)
    BY <2>1 DEF FunctionResult, CallsNext, LeavesTemps
  <2>2. CASE HalfConverted(f)
    BY <2>2 DEF HalfConverted, CallsNext, FreesTemps
  <2> QED  BY <2>1, <2>2
<1>3. StackInv' /\ Len(frames) \in Nat /\ Len(frames') \in Nat
  <2>1. StackInv'
    BY <1>1, <1>2, StackStep
  <2> QED  BY <1>1, <2>1, LenProperties DEF StackInv, StackOK
<1>4. PICK i \in 1 .. Len(frames) : Note({Use(Scalar(frames[i].id, 0), f, 1)})
  <2>1. CASE FunctionResult(f)
    <3>1. frames # <<>> /\ Note({Use(Scalar(Top.id, 0), f, 1)})
      BY <2>1 DEF FunctionResult, At, EvalEnd
    <3>2. Top = frames[Len(frames)] /\ Len(frames) \in 1 .. Len(frames)
      BY <1>1, <3>1, TopFacts
    <3> QED  BY <3>1, <3>2
  <2>2. CASE HalfConverted(f)
    <3>1. PICK i \in Len(frames') + 1 .. Len(frames) : Note({Use(Scalar(frames[i].id, 0), f, 1)})
      BY <2>2 DEF HalfConverted
    <3>2. i \in 1 .. Len(frames)
      BY <1>3
    <3> QED  BY <3>1, <3>2
  <2> QED  BY <2>1, <2>2
<1>5. PICK scalar : scalar = Scalar(frames[i].id, 0)
  OBVIOUS
<1>6. Known(scalar)' /\ scalar \notin Range(temps)'
  BY <1>1, <1>2, <1>5, ResultKnown
<1>7. PICK use : use = Use(scalar, f, 1)
  OBVIOUS
<1>8. uses' = uses \cup {use} /\ use.scalar = scalar /\ use.func = f
  BY <1>4, <1>5, <1>7 DEF Note, Use
<1>9. PICK new : uses' = uses \cup new /\ \A u \in new : Known(u.scalar)' /\ u.func \in Functions
  <2>1. PICK new : new = {use}
    OBVIOUS
  <2>2. uses' = uses \cup new
    BY <1>8, <2>1
  <2>3. \A u \in new : u.scalar = scalar /\ u.func \in Functions
    BY <1>8, <2>1
  <2>4. \A u \in new : Known(u.scalar)' /\ u.func \in Functions
    BY <1>6, <2>3
  <2> QED  BY <2>2, <2>4
<1>10. UsesOK' /\ \A g : Ended(g) => Ended(g)'
  BY <1>1, <1>2, <1>9, UsesGrow
<1>11. Ended(f)'
  BY <1>6, <1>8 DEF Ended, Held
<1>12. refcnt' = [g \in Functions |-> refcnt'[g]]
  <2>1. refcnt = [g \in Functions |-> refcnt[g]]
    BY <1>1 DEF CountsOK
  <2> QED  BY <2>1 DEF FunctionResult, HalfConverted
<1>13. ASSUME NEW g \in Functions, g # f
       PROVE  refcnt'[g] \in Nat \ {0} \/ Ended(g)'
  <2>1. CASE FunctionResult(f)
    <3>1. refcnt'[g] = refcnt[g]
      BY <1>1, <1>13, <2>1 DEF FunctionResult, CountsOK
    <3> QED  BY <1>1, <1>10, <3>1 DEF CountsOK
  <2>2. CASE HalfConverted(f)
    <3>1. refcnt'[g] = refcnt[g] - Cardinality(GivenUp(g)) - 0
      BY <1>13, <2>2 DEF HalfConverted
    <3>2. refcnt[g] - Cardinality(GivenUp(g)) \in Nat \ {0} \/ Ended(g)'
      BY <1>1, <1>8, <1>10, CountsGivenUp
    <3>3. \A n \in Nat : n - 0 = n
      OBVIOUS
    <3> QED  BY <3>1, <3>2, <3>3
  <2> QED  BY <2>1, <2>2
<1>14. CountsOK'
  BY <1>11, <1>12, <1>13 DEF CountsOK
<1> QED  BY <1>3, <1>10, <1>14 DEF ArgumentsInv

\* Every step keeps account of the functions that are arguments.
LEMMA ArgumentsStep ==
    ASSUME ArgumentsInv, [SubArgumentsNext]_argumentVars
    PROVE  ArgumentsInv'
<1>1. StackInv /\ UsesOK /\ CountsOK
  BY DEF ArgumentsInv
<1>2. ASSUME [CallsNext]_callVars, uses' = uses
      PROVE  StackInv' /\ UsesOK' /\ \A f : Ended(f) => Ended(f)'
  <2>1. PICK new : new = {}
    OBVIOUS
  <2>2. uses' = uses \cup new /\ \A use \in new : Known(use.scalar)' /\ use.func \in Functions
    BY <1>2, <2>1
  <2>3. UsesOK' /\ \A f : Ended(f) => Ended(f)'
    BY <1>1, <1>2, <2>2, UsesGrow
  <2> QED  BY <1>1, <1>2, <2>3, StackStep
<1>3. CASE \/ UNCHANGED argumentVars
           \/ LeavesTemps /\ UNCHANGED <<refcnt, uses>>
           \/ PlainArgument
  <2>1. [CallsNext]_callVars /\ uses' = uses /\ refcnt' = refcnt
    BY <1>3 DEF argumentVars, PlainArgument, CallsNext
  <2> QED  BY <1>1, <1>2, <2>1, CountsKept DEF ArgumentsInv
<1>4. CASE FreeCounts
  <2>1. /\ [CallsNext]_callVars /\ uses' = uses
        /\ refcnt' = [f \in Functions |-> refcnt[f] - Cardinality(GivenUp(f))]
    BY <1>4 DEF FreeCounts, CallsNext
  <2>2. ASSUME NEW f \in Functions
        PROVE  refcnt'[f] \in Nat \ {0} \/ Ended(f)'
    BY <1>1, <1>2, <2>1, CountsGivenUp
  <2>3. CountsOK'
    BY <2>1, <2>2 DEF CountsOK
  <2> QED  BY <1>2, <2>1, <2>3 DEF ArgumentsInv
<1>5. CASE \E f \in Functions : FunctionArgument(f) \/ HolderArgument(f)
  BY <1>5, ArgumentStep
<1>6. CASE \E f \in Functions : FunctionResult(f) \/ HalfConverted(f)
  BY <1>6, EndedStep
<1> QED  BY <1>3, <1>4, <1>5, <1>6 DEF SubArgumentsNext

\* No call, return or croak frees the temporary of an argument before the sub
\* it was pushed for has returned; and a function made from a coderef, whose SV
\* is passed with no count of its own (pl_v8_to_perl_impl, pl_v8.cc), is freed
\* while it is such an argument, or is in one, only if another use of it ended:
\* an argument of another sub, or a result.
THEOREM ArgumentsStayAlive == SubArgumentsSpec => []ArgumentsAlive
<1>1. SubArgumentsInit => ArgumentsInv
  <2> SUFFICES ASSUME SubArgumentsInit
               PROVE  ArgumentsInv
    OBVIOUS
  <2>1. StackInv /\ frames = <<>> /\ temps = <<>>
    BY StackInit DEF SubArgumentsInit, CallsInit
  <2>2. UsesOK
    <3>1. Len(frames) = 0 /\ Range(temps) = {}
      BY <2>1, EmptySeq DEF Range
    <3>2. uses = {}
      BY DEF SubArgumentsInit
    <3> QED  BY <3>1, <3>2 DEF UsesOK
  <2>3. CountsOK
    BY DEF SubArgumentsInit, CountsOK
  <2> QED  BY <2>1, <2>2, <2>3 DEF ArgumentsInv
<1>2. ArgumentsInv /\ [SubArgumentsNext]_argumentVars => ArgumentsInv'
  BY ArgumentsStep
<1>3. ArgumentsInv => ArgumentsAlive
  <2> SUFFICES ASSUME ArgumentsInv, NEW i \in DOMAIN frames, frames[i].kind = "sub",
                      NEW j \in 1 .. frames[i].sp - frames[i].mark,
                      NEW scalar, scalar = Scalar(frames[i].id, j)
               PROVE  /\ Held(scalar)
                      /\ \A use \in uses :
                            use.scalar = scalar /\ Freed(use.func) =>
                                \E other \in uses :
                                    other.func = use.func /\ ~ Held(other.scalar)
    BY DEF ArgumentsAlive
  <2>1. Held(scalar)
    BY ArgumentsHeld DEF ArgumentsInv
  <2>2. ASSUME NEW use \in uses, Freed(use.func)
        PROVE  \E other \in uses : other.func = use.func /\ ~ Held(other.scalar)
    <3>1. use.func \in Functions
      BY DEF ArgumentsInv, UsesOK
    <3>2. refcnt[use.func] \in Nat \ {0} \/ Ended(use.func)
      BY <3>1 DEF ArgumentsInv, CountsOK
    <3>3. \A n \in Nat \ {0} : ~ (n <= 0)
      OBVIOUS
    <3> QED  BY <2>2, <3>2, <3>3 DEF Freed, Ended
  <2> QED  BY <2>1, <2>2
<1> QED  BY <1>1, <1>2, <1>3, PTL DEF SubArgumentsSpec
----------------------------------------------------------------------------
(* The records. *)

Measured == Names \cup {"compile"}

RecordsInv ==
    /\ options \in OptionLists /\ ~ Rejected(options) /\ flags = Flags(options)
    /\ StatsOK(Measured) /\ LinesOK

\* What any step does to the records: the time of a call is measured from its
\* own start, and a line is one of the two targets'.
LEMMA StepRecords ==
    ASSUME StackInv, [CallsNext]_callVars
    PROVE  UNCHANGED <<options, flags>> /\ Recorded(Measured)
<1>1. made \in Nat /\ made + 1 \in Nat /\ 0 \in Nat
  BY RegisterFacts
<1>2. ASSUME UNCHANGED recordVars
      PROVE  UNCHANGED <<options, flags>> /\ Recorded(Measured)
  BY <1>2 DEF recordVars, Recorded
<1>3. ASSUME frames # <<>>
      PROVE  /\ Elapsed(Top) = TrueTime(Top) /\ Elapsed(Top) \in Nat
             /\ Top.id \in Nat /\ Top.name \in Measured
             /\ Top.kind = "console" => Top.name \in Targets
  <2>1. Top \in FrameType /\ FrameOK(Top) /\ Top.id <= made
    BY <1>3, TopFacts
  <2>2. Top.id \in Nat /\ Top.t0 = Top.id /\ Top.name \in Names
    BY <2>1, FrameFields DEF FrameOK
  <2> QED  BY <1>1, <2>1, <2>2 DEF Elapsed, TrueTime, Measured, FrameOK
<1>4. "compile" \in Measured /\ "run" \in Measured /\ "stderr" \in Targets
  BY RecordsAssumption DEF Measured, Names
<1>5. ASSUME NEW name \in Measured, NEW elapsed \in Nat, StatsStop(name, elapsed, elapsed),
             UNCHANGED <<msgs, printed, said>>
      PROVE  Recorded(Measured)
  BY <1>5 DEF Recorded
<1>6. CASE UNCHANGED callVars
  BY <1>2, <1>6 DEF callVars
<1>7. CASE ProgramIdles
  BY <1>2, <1>7 DEF ProgramIdles, callVars
<1>8. ASSUME NEW name \in Methods, Method(name)
      PROVE  UNCHANGED <<options, flags>> /\ Recorded(Measured)
  BY <1>2, <1>8 DEF Method
<1>9. CASE Dispatch
  BY <1>1, <1>4, <1>5, <1>9 DEF Dispatch
<1>10. CASE DispatchSyntaxError
  <2>1. /\ StatsStop("compile", 0, 0) /\ OutputLine("stderr", made + 1)
        /\ UNCHANGED <<options, flags>>
    BY <1>10 DEF DispatchSyntaxError, Report
  <2> QED  BY <1>1, <1>4, <2>1 DEF Recorded
<1>11. CASE MethodEnd
  <2>1. /\ StatsStop(Top.name, Elapsed(Top), TrueTime(Top)) /\ frames # <<>>
        /\ UNCHANGED <<options, flags, msgs, printed, said>>
    BY <1>11 DEF MethodEnd, At
  <2> QED  BY <1>3, <1>5, <2>1
<1>12. CASE Eval
  BY <1>1, <1>4, <1>5, <1>12 DEF Eval
<1>13. CASE EvalSyntaxError
  <2>1. /\ StatsStop("compile", 0, 0) /\ OutputLine("stderr", made + 1)
        /\ UNCHANGED <<options, flags>>
    BY <1>13 DEF EvalSyntaxError, Report
  <2> QED  BY <1>1, <1>4, <2>1 DEF Recorded
<1>14. CASE EvalRan
  <2>1. /\ StatsStop("run", Elapsed(Top), TrueTime(Top)) /\ frames # <<>>
        /\ UNCHANGED <<options, flags, msgs, printed, said>>
    BY <1>14 DEF EvalRan, At
  <2> QED  BY <1>3, <1>4, <1>5, <2>1
<1>15. CASE ScriptThrows
  <2>1. /\ StatsStop("run", Elapsed(Top), TrueTime(Top)) /\ frames # <<>>
        /\ OutputLine("stderr", Top.id) /\ UNCHANGED <<options, flags>>
    BY <1>15 DEF ScriptThrows, Report, At
  <2> QED  BY <1>3, <1>4, <2>1 DEF Recorded
<1>16. CASE EventLoop
  BY <1>2, <1>16 DEF EventLoop
<1>17. CASE CallbackThrows
  <2>1. OutputLine("stderr", made + 1) /\ UNCHANGED <<options, flags, stats, timed>>
    BY <1>17 DEF CallbackThrows, Report
  <2> QED  BY <1>1, <1>4, <2>1 DEF Recorded
<1>18. CASE EvalEnd
  BY <1>2, <1>18 DEF EvalEnd
<1>19. ASSUME NEW nargs \in 0 .. MaxArgs, Sub(nargs)
       PROVE  UNCHANGED <<options, flags>> /\ Recorded(Measured)
  BY <1>2, <1>19 DEF Sub
<1>20. CASE PushArgument
  BY <1>2, <1>20 DEF PushArgument
<1>21. CASE CallSub
  BY <1>2, <1>21 DEF CallSub
<1>22. CASE SubReturns
  BY <1>2, <1>22 DEF SubReturns
<1>23. CASE SubDies \/ ConversionFails
  BY <1>2, <1>23 DEF SubDies, ConversionFails, Croak
<1>24. ASSUME NEW target \in Targets, Console(target)
       PROVE  UNCHANGED <<options, flags>> /\ Recorded(Measured)
  BY <1>2, <1>24 DEF Console
<1>25. CASE ConsoleEnd
  <2>1. /\ OutputLine(Top.name, Top.id) /\ frames # <<>> /\ Top.kind = "console"
        /\ UNCHANGED <<options, flags, stats, timed>>
    BY <1>25 DEF ConsoleEnd, At
  <2> QED  BY <1>3, <2>1 DEF Recorded
<1>26. CASE ResetStats \/ ResetMsgs
  BY <1>26 DEF ResetStats, ResetMsgs, Recorded
<1> QED  BY <1>6, <1>7, <1>8, <1>9, <1>10, <1>11, <1>12, <1>13, <1>14, <1>15, <1>16,
            <1>17, <1>18, <1>19, <1>20, <1>21, <1>22, <1>23, <1>24, <1>25, <1>26
         DEF CallsNext, LeavesTemps, FreesTemps

\* The records are in order at every step.
THEOREM RecordsAlways == CallsSpec => [](StackInv /\ RecordsInv)
<1>1. CallsInit => StackInv /\ RecordsInv
  <2> SUFFICES ASSUME CallsInit
               PROVE  RecordsInv
    BY StackInit
  <2>1. RecordsInit
    BY DEF CallsInit
  <2>2. StatsOK(Measured) /\ LinesOK
    BY <2>1, RecordsStart
  <2> QED  BY <2>1, <2>2 DEF RecordsInit, RecordsInv
<1>2. StackInv /\ RecordsInv /\ [CallsNext]_callVars => StackInv' /\ RecordsInv'
  <2> SUFFICES ASSUME StackInv, RecordsInv, [CallsNext]_callVars
               PROVE  RecordsInv'
    BY StackStep
  <2>1. UNCHANGED <<options, flags>> /\ Recorded(Measured)
    BY StepRecords
  <2>2. StatsOK(Measured)' /\ LinesOK'
    BY <2>1, RecordsKept DEF RecordsInv
  <2>3. options' = options /\ flags' = flags
    BY <2>1
  <2> QED  BY <2>2, <2>3 DEF RecordsInv
<1> QED  BY <1>1, <1>2, PTL DEF CallsSpec

\* Each hash holds, under each name, the time of the last call of that name
\* that ended while the hash was the object's, measured from that call's own
\* start, however calls nest and whenever the hash was reset (save_stat,
\* pl_stats.cc).
THEOREM StatsOfTheLastCall == CallsSpec => []StatsAreOfTheLastCall
<1>1. RecordsInv => StatsAreOfTheLastCall
  BY StatsOfTheLast DEF RecordsInv
<1> QED  BY <1>1, RecordsAlways, PTL

\* Every line that was finished is in the one list it belongs to, in the order
\* in which the lines were finished, and nothing else is there (save_msg and
\* console_output_line, pl_console.cc).
THEOREM LinesStayInOrder == CallsSpec => []LinesInOrder
<1>1. RecordsInv => LinesInOrder
  BY LinesAreInOrder DEF RecordsInv
<1> QED  BY <1>1, RecordsAlways, PTL

\* The flags do not depend on the order in which Perl's hash yields the options
\* (the constructor, V8Context.cc).
THEOREM FlagsAreUnordered == CallsSpec => []FlagsIgnoreOrder
<1>1. ASSUME RecordsInv
      PROVE  FlagsIgnoreOrder
  <2>1. options \in Seq([starts : SUBSET (1 .. 4), value : BOOLEAN]) /\ flags = Flags(options)
    BY <1>1, OptionsAssumption DEF RecordsInv
  <2> QED  BY <2>1, FlagsPermuted DEF FlagsIgnoreOrder
<1> QED  BY <1>1, RecordsAlways, PTL

\* A hash that the object gave up in a reset never changes again, whatever
\* calls were under way at the reset (reset_stats, reset_msgs, V8Context.cc).
THEOREM DetachedStayUnchanged == CallsSpec => DetachedUnchanged
<1> DEFINE Kept == /\ \A h \in 1 .. Len(stats) - 1 : stats'[h] = stats[h]
                   /\ \A h \in 1 .. Len(msgs) - 1 : msgs'[h] = msgs[h]
<1>1. StackInv /\ RecordsInv /\ [CallsNext]_callVars => [Kept]_recordVars
  BY StepRecords, DetachedKept DEF RecordsInv
<1> QED  BY <1>1, RecordsAlways, PTL DEF CallsSpec, DetachedUnchanged

\* The types of all the variables: the stack pointer stays within the cells of
\* the Perl stack that MaxDepth activations may use, and the floor of the
\* temporaries within the temporaries (perl_caller, pl_v8.cc).
THEOREM CallsTypes == CallsSpec => []CallsTypeOK
<1>1. ASSUME StackInv, RecordsInv
      PROVE  CallsTypeOK
  <2> DEFINE n == Len(frames)
  <2>1. /\ StackOK(frames) /\ frames \in Seq(FrameType) /\ n \in Nat /\ DOMAIN frames = 1 .. n
        /\ n <= MaxDepth /\ PL_stack_sp \in Nat /\ tmps_floor \in Nat /\ Len(temps) \in Nat
    BY <1>1, RegisterFacts, LenProperties DEF StackInv
  <2>2. MaxDepth \in Nat /\ MaxArgs \in Nat /\ MaxDepth + 1 \in Nat
    BY CallsAssumption
  <2>3. /\ Reach(MaxDepth) \in Nat /\ Reach(MaxDepth + 1) = Reach(MaxDepth) + MaxArgs + 1
        /\ Max(Cells) = Reach(MaxDepth + 1)
        /\ \A i \in Nat : Reach(i) \in Nat /\ (i <= MaxDepth => Reach(i) <= Reach(MaxDepth))
    BY <2>2, ReachFacts
  <2>4. RecordsTypeOK
    BY <1>1, RecordsTypes DEF RecordsInv
  <2>5. ASSUME NEW i \in DOMAIN frames
        PROVE  /\ frames[i].kind \in Kinds /\ frames[i].phase \in Phases
               /\ frames[i].id \in 1 .. made
               /\ frames[i].sp \in 0 .. Max(Cells) /\ frames[i].mark <= frames[i].sp
    <3>1. /\ i \in 1 .. n /\ frames[i] \in FrameType /\ FrameOK(frames[i])
          /\ frames[i].mark <= Reach(i - 1) /\ frames[i].id <= made /\ made \in Nat
      BY <1>1, <2>1, ElementOfSeq DEF StackInv, StackOK, Chained
    <3>2. /\ frames[i].kind \in Kinds /\ frames[i].phase \in Phases
          /\ frames[i].id \in Nat /\ frames[i].sp \in Nat /\ frames[i].mark \in Nat
          /\ frames[i].want \in Nat
      BY <3>1, FrameFields
    <3>3. /\ frames[i].id # 0 /\ frames[i].mark <= frames[i].sp
          /\ frames[i].sp - frames[i].mark <= frames[i].want /\ frames[i].want <= MaxArgs
      BY <3>1 DEF FrameOK
    <3>4. Reach(i - 1) <= Reach(MaxDepth) /\ Reach(i - 1) \in Nat
      <4>1. i - 1 \in Nat /\ i - 1 <= MaxDepth
        BY <2>1, <2>2, <3>1
      <4> QED  BY <2>3, <4>1
    <3>5. frames[i].sp <= Reach(MaxDepth + 1) /\ Reach(MaxDepth + 1) \in Nat
      <4>1. frames[i].mark <= Reach(MaxDepth)
        <5>1. frames[i].mark <= Reach(i - 1) /\ frames[i].mark \in Nat
          BY <3>1, <3>2
        <5>2. Reach(MaxDepth) \in Nat
          BY <2>3
        <5> QED  BY <3>4, <5>1, <5>2
      <4>2. frames[i].sp <= frames[i].mark + MaxArgs
        BY <2>2, <3>2, <3>3
      <4>3. Reach(MaxDepth + 1) = Reach(MaxDepth) + MaxArgs + 1 /\ Reach(MaxDepth) \in Nat
        BY <2>3
      <4> QED  BY <2>2, <3>2, <4>1, <4>2, <4>3
    <3>6. frames[i].sp \in 0 .. Max(Cells)
      BY <2>3, <3>2, <3>5
    <3>7. frames[i].id \in 1 .. made
      BY <3>1, <3>2, <3>3
    <3> QED  BY <3>2, <3>3, <3>6, <3>7
  <2>6. PL_stack_sp \in 0 .. Max(Cells) - 1
    <3>1. PL_stack_sp <= Reach(n)
      <4>1. PL_stack_sp = LevelAt(frames, n)
        BY ONLY <1>1 DEF StackInv, Balanced
      <4> QED  BY ONLY <2>1, <4>1, LevelBound
    <3>2. Reach(n) \in Nat /\ Reach(n) <= Reach(MaxDepth)
      BY ONLY <2>1, <2>3
    <3>3. \A a, b, p, q \in Nat : (p <= a /\ a <= b) => p \in 0 .. (b + q + 1) - 1
      OBVIOUS
    <3> QED  BY ONLY <2>1, <2>2, <2>3, <3>1, <3>2, <3>3
  <2>7. tmps_floor \in 0 .. Len(temps)
    <3> DEFINE subs == SubsIn(frames, n)
    <3>1. CASE subs = {}
      BY <1>1, <2>1, <3>1 DEF StackInv, Balanced, FloorAt
    <3>2. CASE subs # {}
      <4> DEFINE b == Max(subs)
      <4>1. b \in 1 .. n
        <5>1. subs \in SUBSET (0 .. n) /\ subs \subseteq 1 .. n
          BY <2>1 DEF SubsIn
        <5> HIDE DEF subs
        <5> QED  BY <2>1, <3>2, <5>1, MaxFacts
      <4>2. tmps_floor = frames[b].base
        BY <1>1, <3>2 DEF StackInv, Balanced, FloorAt
      <4> HIDE DEF b
      <4>3. frames[b] \in FrameType /\ FrameOK(frames[b])
        BY <2>1, <4>1, ElementOfSeq DEF StackOK
      <4>4. EndAt(frames, b) = frames[b].base + (frames[b].sp - frames[b].mark)
        BY <2>1, <4>1 DEF EndAt, EndOf
      <4>5. EndAt(frames, b) <= EndAt(frames, n)
        <5>1. n \in 0 .. Len(frames)
          BY <2>1
        <5> QED  BY <2>1, <4>1, <5>1, EndsOrdered
      <4>6. EndAt(frames, n) = Len(temps)
        BY <1>1 DEF StackInv, Balanced
      <4>7. frames[b].sp \in Nat /\ frames[b].mark \in Nat /\ frames[b].mark <= frames[b].sp
        BY <4>3, FrameFields DEF FrameOK
      <4> QED  BY <2>1, <4>2, <4>4, <4>5, <4>6, <4>7
    <3> QED  BY <3>1, <3>2
  <2> QED  BY <2>4, <2>5, <2>6, <2>7 DEF CallsTypeOK
<1> QED  BY <1>1, RecordsAlways, PTL
=============================================================================
