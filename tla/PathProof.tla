------------------------------ MODULE PathProof ------------------------------
(***************************************************************************)
(* Proofs about dotted names, for every heap that calls and scripts can    *)
(* build: any number of objects and slots, names of any length.            *)
(***************************************************************************)
EXTENDS PropertyPath, SequenceLemmas
----------------------------------------------------------------------------
(* Heaps. *)

Anything == Leaves \cup {Undefined}
ValueType(objects) == [leaf : Anything] \cup [to : objects]
SlotType(objects) == [value : ValueType(objects), fixed : BOOLEAN]
OwnType(objects) == UNION {[slots -> SlotType(objects)] : slots \in SUBSET Slots}

\* Prototypes lead away from an object, and end.
Ranked(objects, proto) ==
    \E n \in Nat : \E rank \in [objects \cup {Nowhere} -> 0 .. n] :
        \A o \in objects : rank[proto[o]] < rank[o]

HeapOf(h, objects) ==
    /\ h \in [own : [objects -> OwnType(objects)],
              proto : [objects -> objects \cup {Nowhere}],
              frozen : SUBSET objects]
    /\ Nowhere \notin objects /\ {Global, Root, Function} \subseteq objects
    /\ Ranked(objects, h.proto)
    /\ h.proto[Root] = Nowhere

HeapOK(h) == HeapOf(h, Objects(h))

\* References and leaves tell what they are made of.
LEMMA Kinds ==
    /\ \A o : IsRef(Ref(o)) /\ Ref(o).to = o
    /\ \A l : ~ IsRef(Leaf(l))
    /\ \A o, p : Ref(o) = Ref(p) => o = p
    /\ \A o, l : Ref(o) # Leaf(l)
    /\ \A k, l : Leaf(k) = Leaf(l) => k = l
<1>1. \A o : IsRef(Ref(o)) /\ Ref(o).to = o
  BY DEF IsRef, Ref
<1>2. \A l : ~ IsRef(Leaf(l))
  BY DEF IsRef, Leaf
<1>3. \A o, p : Ref(o) = Ref(p) => o = p
  BY DEF Ref
<1>4. \A k, l : Leaf(k) = Leaf(l) => k = l
  BY DEF Leaf
<1> QED  BY <1>1, <1>2, <1>3, <1>4

\* A value of a heap is an object of it or a leaf.
LEMMA Values ==
    ASSUME NEW objects, NEW v \in ValueType(objects)
    PROVE  /\ IsRef(v) => v.to \in objects /\ v = Ref(v.to)
           /\ ~ IsRef(v) => \E l \in Anything : v = Leaf(l)
BY DEF ValueType, IsRef, Ref, Leaf

\* What is in a slot that an object has.
LEMMA SlotFacts ==
    ASSUME NEW h, HeapOK(h), NEW o \in Objects(h)
    PROVE  /\ DOMAIN h.own[o] \subseteq Slots
           /\ \A s \in DOMAIN h.own[o] :
                 /\ h.own[o][s] \in SlotType(Objects(h))
                 /\ h.own[o][s].value \in ValueType(Objects(h))
           /\ h.proto[o] \in Objects(h) \cup {Nowhere}
           /\ o # Nowhere
<1>1. h.own \in [Objects(h) -> OwnType(Objects(h))]
      /\ h.proto \in [Objects(h) -> Objects(h) \cup {Nowhere}] /\ Nowhere \notin Objects(h)
  BY DEF HeapOK, HeapOf
<1>2. h.own[o] \in OwnType(Objects(h))
  BY <1>1
<1>3. PICK slots \in SUBSET Slots : h.own[o] \in [slots -> SlotType(Objects(h))]
  BY <1>2 DEF OwnType
<1>4. DOMAIN h.own[o] = slots
  BY <1>3
<1>5. \A s \in slots : h.own[o][s] \in SlotType(Objects(h))
  BY <1>3
<1>6. \A e \in SlotType(Objects(h)) : e.value \in ValueType(Objects(h))
  BY DEF SlotType
<1> QED  BY <1>1, <1>4, <1>5, <1>6

\* Induction along the prototypes.
LEMMA PrototypeInduction ==
    ASSUME NEW h, HeapOK(h), NEW S, Nowhere \in S,
           \A p \in Objects(h) : h.proto[p] \in S => p \in S
    PROVE  Objects(h) \subseteq S
<1> DEFINE O == Objects(h)
           D == O \cup {Nowhere}
<1>1. h.proto \in [O -> D] /\ Ranked(O, h.proto)
  BY DEF HeapOK, HeapOf
<1>2. PICK n \in Nat : \E rank \in [D -> 0 .. n] : \A o \in O : rank[h.proto[o]] < rank[o]
  BY <1>1 DEF Ranked
<1>3. PICK rank \in [D -> 0 .. n] : \A o \in O : rank[h.proto[o]] < rank[o]
  BY <1>2
<1>4. \A p \in D : (\A q \in D : rank[q] < rank[p] => q \in S) => p \in S
  <2> SUFFICES ASSUME NEW p \in O, \A q \in D : rank[q] < rank[p] => q \in S PROVE p \in S
    OBVIOUS
  <2> QED  BY <1>1, <1>3
<1>5. D \subseteq S
  <2> HIDE DEF D
  <2> QED  BY <1>3, <1>4, RankInduction
<1> QED  BY <1>5

\* An object or none.
Places(h) == Objects(h) \cup {Nowhere}

\* Recursion along the prototypes.
LEMMA PrototypeRecursion ==
    ASSUME NEW h, HeapOK(h), NEW stop, Nowhere \in stop, NEW V, NEW v \in V,
           NEW base \in [Places(h) -> V],
           NEW step \in [Places(h) -> [V -> V]]
    PROVE  \E g \in [Places(h) -> V] :
              \A p \in Places(h) :
                 Unfolds(g, p, stop, base, step, h.proto)
<1> DEFINE O == Objects(h)
           D == O \cup {Nowhere}
           next == h.proto
<1>1. next \in [O -> D] /\ Ranked(O, next)
  BY DEF HeapOK, HeapOf
<1>2. PICK n \in Nat : \E rank \in [D -> 0 .. n] : \A o \in O : rank[next[o]] < rank[o]
  BY <1>1 DEF Ranked
<1>3. PICK rank \in [D -> 0 .. n] : \A o \in O : rank[next[o]] < rank[o]
  BY <1>2
<1>4. \A p \in D \ stop : next[p] \in D /\ rank[next[p]] < rank[p]
  BY <1>1, <1>3
<1> HIDE DEF D, next
<1>5. base \in [D -> V] /\ step \in [D -> [V -> V]]
  BY DEF D, Places
<1>6. \E g \in [D -> V] : \A p \in D : Unfolds(g, p, stop, base, step, next)
  BY <1>3, <1>4, <1>5, Recursion
<1> QED  BY <1>6 DEF D, next, Places

\* The slot s is looked up along the prototypes.
Up(h, s, up) ==
    up = [p \in Objects(h) \cup {Nowhere} |->
             IF p = Nowhere \/ s \in DOMAIN h.own[p] THEN p ELSE up[h.proto[p]]]

\* What Holder is at an object follows from what it is at its prototype.
LEMMA HolderUnfolds ==
    ASSUME NEW h, HeapOK(h), NEW s
    PROVE  /\ Holder(h, Nowhere, s) = Nowhere
           /\ \A o \in Objects(h) :
                 /\ Holder(h, o, s) \in Objects(h) \cup {Nowhere}
                 /\ Holder(h, o, s) = IF s \in DOMAIN h.own[o] THEN o
                                      ELSE Holder(h, h.proto[o], s)
<1> DEFINE O == Objects(h)
           D == Places(h)
           up == CHOOSE up : Up(h, s, up)
           stop == {p \in D : p = Nowhere \/ s \in DOMAIN h.own[p]}
           base == [p \in D |-> p]
           step == [p \in D |-> [q \in D |-> q]]
<1>1. Nowhere \notin O /\ h.proto \in [O -> D] /\ D = O \cup {Nowhere}
  BY DEF HeapOK, HeapOf, Places
<1> HIDE DEF up
<1>2. \E g \in [D -> D] :
          \A p \in D : Unfolds(g, p, stop, base, step, h.proto)
  <2>1. base \in [D -> D] /\ step \in [D -> [D -> D]] /\ Nowhere \in stop /\ Nowhere \in D
    BY <1>1
  <2> HIDE DEF base, step, stop
  <2> QED  BY <2>1, PrototypeRecursion
<1>3. PICK g \in [D -> D] :
          \A p \in D : Unfolds(g, p, stop, base, step, h.proto)
  BY <1>2
<1>4. \A p \in D : g[p] = IF p = Nowhere \/ s \in DOMAIN h.own[p] THEN p ELSE g[h.proto[p]]
  BY <1>1, <1>3 DEF Unfolds
<1>5. Up(h, s, up)
  <2>1. Up(h, s, g)
    BY <1>1, <1>4 DEF Up
  <2> QED  BY <2>1 DEF up
<1>6. \A p \in D : up[p] = IF p = Nowhere \/ s \in DOMAIN h.own[p] THEN p ELSE up[h.proto[p]]
  BY <1>1, <1>5 DEF Up
<1>7. \A p \in D : up[p] \in D
  <2> DEFINE S == {p \in D : up[p] \in D}
  <2>1. Nowhere \in S /\ \A p \in O : h.proto[p] \in S => p \in S
    BY <1>1, <1>6
  <2> HIDE DEF S
  <2>2. O \subseteq S
    BY <2>1, PrototypeInduction
  <2> QED  BY <1>1, <2>1, <2>2 DEF S
<1>8. \A o : Holder(h, o, s) = up[o]
  BY DEF Holder, Up, up
<1> QED  BY <1>1, <1>6, <1>7, <1>8

\* And so are the slots that are looked at.
Looked(h, s, up) ==
    up = [p \in Objects(h) \cup {Nowhere} |->
             IF p = Nowhere THEN {}
             ELSE {<<p, s>>} \cup (IF s \in DOMAIN h.own[p] THEN {} ELSE up[h.proto[p]])]

\* What is looked at from an object follows from what is looked at from its
\* prototype.
LEMMA ConsultedUnfolds ==
    ASSUME NEW h, HeapOK(h), NEW s
    PROVE  /\ Consulted(h, Nowhere, s) = {}
           /\ \A o \in Objects(h) :
                 Consulted(h, o, s) = {<<o, s>>} \cup
                     (IF s \in DOMAIN h.own[o] THEN {} ELSE Consulted(h, h.proto[o], s))
<1> DEFINE O == Objects(h)
           D == Places(h)
           V == SUBSET (D \X {s})
           up == CHOOSE up : Looked(h, s, up)
           stop == {p \in D : p = Nowhere \/ s \in DOMAIN h.own[p]}
           base == [p \in D |-> IF p = Nowhere THEN {} ELSE {<<p, s>>}]
           step == [p \in D |-> [q \in V |-> {<<p, s>>} \cup q]]
<1>1. Nowhere \notin O /\ h.proto \in [O -> D] /\ D = O \cup {Nowhere}
  BY DEF HeapOK, HeapOf, Places
<1> HIDE DEF up
<1>2. \E g \in [D -> V] :
          \A p \in D : Unfolds(g, p, stop, base, step, h.proto)
  <2>1. base \in [D -> V] /\ step \in [D -> [V -> V]] /\ Nowhere \in stop /\ {} \in V
    BY <1>1
  <2> HIDE DEF base, step, stop, V
  <2> QED  BY <2>1, PrototypeRecursion
<1>3. PICK g \in [D -> V] :
          \A p \in D : Unfolds(g, p, stop, base, step, h.proto)
  BY <1>2
<1>4. \A p \in D : g[p] = IF p = Nowhere THEN {}
                          ELSE {<<p, s>>} \cup (IF s \in DOMAIN h.own[p] THEN {} ELSE g[h.proto[p]])
  <2> SUFFICES ASSUME NEW p \in D
               PROVE  g[p] = IF p = Nowhere THEN {}
                      ELSE {<<p, s>>} \cup (IF s \in DOMAIN h.own[p] THEN {} ELSE g[h.proto[p]])
    OBVIOUS
  <2>1. CASE p \in stop
    <3>1. g[p] = base[p]
      BY <1>3, <2>1 DEF Unfolds
    <3> QED  BY <2>1, <3>1
  <2>2. CASE p \notin stop
    <3>1. p \in O /\ h.proto[p] \in D /\ p # Nowhere /\ s \notin DOMAIN h.own[p]
      BY <1>1, <2>2
    <3>2. g[h.proto[p]] \in V
      BY <3>1
    <3>3. g[p] = step[p][g[h.proto[p]]]
      BY <1>3, <2>2 DEF Unfolds
    <3>4. g[p] = {<<p, s>>} \cup g[h.proto[p]]
      BY <3>2, <3>3
    <3> HIDE DEF V
    <3> QED  BY <3>1, <3>4
  <2> QED  BY <2>1, <2>2
<1>5. Looked(h, s, up)
  <2> HIDE DEF V
  <2>1. Looked(h, s, g)
    BY <1>1, <1>4 DEF Looked
  <2> QED  BY <2>1 DEF up
<1>6. \A p \in D : up[p] = IF p = Nowhere THEN {}
                           ELSE {<<p, s>>} \cup (IF s \in DOMAIN h.own[p] THEN {} ELSE up[h.proto[p]])
  BY <1>1, <1>5 DEF Looked
<1>7. \A o : Consulted(h, o, s) = up[o]
  BY DEF Consulted, Looked, up
<1> QED  BY <1>1, <1>6, <1>7

\* And the ancestors of an object.
Line(h, up) ==
    up = [p \in Objects(h) \cup {Nowhere} |->
             IF p = Nowhere THEN {} ELSE {p} \cup up[h.proto[p]]]

\* The ancestors of an object are its prototype and the ancestors of that.
LEMMA AncestorsUnfold ==
    ASSUME NEW h, HeapOK(h), NEW o \in Objects(h)
    PROVE  Ancestors(h, o) = IF h.proto[o] = Nowhere THEN {}
                             ELSE {h.proto[o]} \cup Ancestors(h, h.proto[o])
<1> DEFINE O == Objects(h)
           D == Places(h)
           V == SUBSET D
           up == CHOOSE up : Line(h, up)
           stop == {Nowhere}
           base == [p \in D |-> {}]
           step == [p \in D |-> [q \in V |-> {p} \cup q]]
<1>1. Nowhere \notin O /\ h.proto \in [O -> D] /\ D = O \cup {Nowhere}
  BY DEF HeapOK, HeapOf, Places
<1> HIDE DEF up
<1>2. \E g \in [D -> V] :
          \A p \in D : Unfolds(g, p, stop, base, step, h.proto)
  <2>1. base \in [D -> V] /\ step \in [D -> [V -> V]] /\ Nowhere \in stop /\ {} \in V
    BY <1>1
  <2> HIDE DEF base, step, stop, V
  <2> QED  BY <2>1, PrototypeRecursion
<1>3. PICK g \in [D -> V] :
          \A p \in D : Unfolds(g, p, stop, base, step, h.proto)
  BY <1>2
<1>4. \A p \in D : g[p] = IF p = Nowhere THEN {} ELSE {p} \cup g[h.proto[p]]
  <2> SUFFICES ASSUME NEW p \in O PROVE g[p] = {p} \cup g[h.proto[p]]
    BY <1>1, <1>3 DEF Unfolds
  <2>1. h.proto[p] \in D /\ p # Nowhere
    BY <1>1
  <2>2. g[h.proto[p]] \in V
    BY <2>1
  <2>3. g[p] = step[p][g[h.proto[p]]] /\ p \in D
    BY <1>1, <1>3, <2>1 DEF Unfolds
  <2>4. step[p] = [q \in V |-> {p} \cup q]
    BY <2>3
  <2> HIDE DEF V, step
  <2> QED  BY <2>2, <2>3, <2>4
<1>5. Line(h, up)
  <2> HIDE DEF V
  <2>1. Line(h, g)
    BY <1>1, <1>4 DEF Line
  <2> QED  BY <2>1 DEF up
<1>6. \A p \in D : up[p] = IF p = Nowhere THEN {} ELSE {p} \cup up[h.proto[p]]
  BY <1>1, <1>5 DEF Line
<1>7. \A p : Ancestors(h, p) = up[h.proto[p]]
  BY DEF Ancestors, Line, up
<1> QED  BY <1>1, <1>6, <1>7
----------------------------------------------------------------------------
(* What becomes of a heap. *)

\* Heap g is h but for one slot.
SameBut(h, g, o, s) ==
    /\ Objects(g) = Objects(h) /\ g.proto = h.proto /\ g.frozen = h.frozen
    /\ \A p \in Objects(h), t \in Slots :
          <<p, t>> # <<o, s>> =>
              /\ t \in DOMAIN g.own[p] <=> t \in DOMAIN h.own[p]
              /\ t \in DOMAIN h.own[p] => g.own[p][t] = h.own[p][t]

\* The own slots of an object are replaced.
LEMMA OwnReplaced ==
    ASSUME NEW h, HeapOK(h), NEW o \in Objects(h), NEW own \in OwnType(Objects(h))
    PROVE  /\ HeapOK([h EXCEPT !.own[o] = own])
           /\ Objects([h EXCEPT !.own[o] = own]) = Objects(h)
           /\ [h EXCEPT !.own[o] = own].proto = h.proto
           /\ [h EXCEPT !.own[o] = own].frozen = h.frozen
           /\ [h EXCEPT !.own[o] = own].own[o] = own
           /\ \A p \in Objects(h) \ {o} : [h EXCEPT !.own[o] = own].own[p] = h.own[p]
<1> DEFINE O == Objects(h)
           T == OwnType(O)
           g == [h EXCEPT !.own[o] = own]
<1>1. h \in [own : [O -> T], proto : [O -> O \cup {Nowhere}], frozen : SUBSET O]
  BY DEF HeapOK, HeapOf
<1> HIDE DEF T
<1>2. /\ g \in [own : [O -> T], proto : [O -> O \cup {Nowhere}], frozen : SUBSET O]
      /\ g.proto = h.proto /\ g.frozen = h.frozen
      /\ g.own[o] = own /\ \A p \in O \ {o} : g.own[p] = h.own[p]
  BY <1>1 DEF T
<1> HIDE DEF g
<1>3. Objects(g) = O
  BY <1>2 DEF Objects
<1>4. HeapOK(g)
  BY <1>2, <1>3 DEF HeapOK, HeapOf, T
<1> QED  BY <1>2, <1>3, <1>4 DEF g

\* Slots that are all typed make an object.
LEMMA OwnTyped ==
    ASSUME NEW objects, NEW own, own = [s \in DOMAIN own |-> own[s]],
           DOMAIN own \subseteq Slots, \A s \in DOMAIN own : own[s] \in SlotType(objects)
    PROVE  own \in OwnType(objects)
BY DEF OwnType

\* Writing a slot that may be written changes that slot only.
LEMMA PutFacts ==
    ASSUME NEW h, HeapOK(h), NEW o \in Objects(h), NEW s \in Slots,
           NEW v \in ValueType(Objects(h))
    PROVE  /\ HeapOK(Put(h, o, s, v)) /\ SameBut(h, Put(h, o, s, v), o, s)
           /\ Writable(h, o, s) =>
                 /\ s \in DOMAIN Put(h, o, s, v).own[o]
                 /\ Put(h, o, s, v).own[o][s].value = v
<1> DEFINE O == Objects(h)
           g == Put(h, o, s, v)
           f == h.own[o]
           e == IF s \in DOMAIN f THEN [f EXCEPT ![s].value = v]
                ELSE With(f, s, [value |-> v, fixed |-> FALSE])
<1>1. /\ DOMAIN f \subseteq Slots /\ f = [t \in DOMAIN f |-> f[t]]
      /\ \A t \in DOMAIN f : f[t] \in SlotType(O)
      /\ h.own = [p \in O |-> h.own[p]]
  BY SlotFacts DEF HeapOK, HeapOf, OwnType
<1>2. CASE ~ Writable(h, o, s)
  BY <1>2 DEF Put, SameBut
<1>3. CASE Writable(h, o, s)
  <2>1. /\ e = [t \in DOMAIN e |-> e[t]]
        /\ DOMAIN e = DOMAIN f \cup {s}
        /\ e[s] \in SlotType(O) /\ e[s].value = v
        /\ \A t \in DOMAIN f \ {s} : e[t] = f[t]
    <3>1. CASE s \in DOMAIN f
      <4>1. e = [t \in DOMAIN f |-> IF t = s THEN [f[s] EXCEPT !.value = v] ELSE f[t]]
        BY <1>1, <3>1
      <4>2. f[s] \in SlotType(O)
        BY <1>1, <3>1
      <4>3. [f[s] EXCEPT !.value = v] \in SlotType(O) /\ [f[s] EXCEPT !.value = v].value = v
        BY <4>2 DEF SlotType
      <4> HIDE DEF e, f, O
      <4> QED  BY <3>1, <4>1, <4>3
    <3>2. CASE s \notin DOMAIN f
      <4>1. e = [t \in DOMAIN f \cup {s} |->
                    IF t = s THEN [value |-> v, fixed |-> FALSE] ELSE f[t]]
        BY <3>2 DEF With
      <4>2. [value |-> v, fixed |-> FALSE] \in SlotType(O)
        BY DEF SlotType
      <4> HIDE DEF e, f, O
      <4> QED  BY <3>2, <4>1, <4>2
    <3> QED  BY <3>1, <3>2
  <2>2. g = [h EXCEPT !.own[o] = e]
    BY <1>1, <1>3 DEF Put
  <2> HIDE DEF e
  <2>3. e \in OwnType(O)
    <3>1. \A t \in DOMAIN e : e[t] \in SlotType(O)
      BY <1>1, <2>1
    <3> QED  BY <1>1, <2>1, <3>1, OwnTyped
  <2>4. /\ HeapOK(g) /\ Objects(g) = O /\ g.proto = h.proto /\ g.frozen = h.frozen
        /\ g.own[o] = e /\ \A p \in O \ {o} : g.own[p] = h.own[p]
    BY <2>2, <2>3, OwnReplaced
  <2> HIDE DEF g
  <2>5. SameBut(h, g, o, s)
    BY <2>1, <2>4 DEF SameBut
  <2> QED  BY <2>1, <2>4, <2>5 DEF g
<1> QED  BY <1>2, <1>3

\* Deleting a slot that is not kept removes that slot only.
LEMMA DropFacts ==
    ASSUME NEW h, HeapOK(h), NEW o \in Objects(h), NEW s \in Slots
    PROVE  /\ HeapOK(Drop(h, o, s)) /\ SameBut(h, Drop(h, o, s), o, s)
           /\ ~ Kept(h, o, s) => s \notin DOMAIN Drop(h, o, s).own[o]
<1> DEFINE O == Objects(h)
           g == Drop(h, o, s)
           f == h.own[o]
           e == Restrict(f, DOMAIN f \ {s})
<1>1. /\ DOMAIN f \subseteq Slots
      /\ \A t \in DOMAIN f : f[t] \in SlotType(O)
      /\ h.own = [p \in O |-> h.own[p]]
  BY SlotFacts DEF HeapOK, HeapOf
<1>2. CASE Kept(h, o, s)
  BY <1>2 DEF Drop, SameBut
<1>3. CASE ~ Kept(h, o, s)
  <2>1. e = [t \in DOMAIN f \ {s} |-> f[t]]
    BY DEF Restrict
  <2>2. g = [h EXCEPT !.own[o] = e]
    BY <1>1, <1>3 DEF Drop
  <2> HIDE DEF e
  <2>3. /\ e = [t \in DOMAIN e |-> e[t]] /\ DOMAIN e = DOMAIN f \ {s}
        /\ \A t \in DOMAIN e : e[t] = f[t]
    BY <2>1
  <2>4. e \in OwnType(O)
    BY <1>1, <2>3, OwnTyped
  <2>5. /\ HeapOK(g) /\ Objects(g) = O /\ g.proto = h.proto /\ g.frozen = h.frozen
        /\ g.own[o] = e /\ \A p \in O \ {o} : g.own[p] = h.own[p]
    BY <2>2, <2>4, OwnReplaced
  <2> HIDE DEF g
  <2>6. SameBut(h, g, o, s)
    BY <2>3, <2>5 DEF SameBut
  <2> QED  BY <2>3, <2>5, <2>6 DEF g
<1> QED  BY <1>2, <1>3
----------------------------------------------------------------------------
(* The walk. *)

\* What is found is in a slot of the object that holds it.
LEMMA HeldFacts ==
    ASSUME NEW h, HeapOK(h), NEW o \in Objects(h), NEW s, Has(h, o, s)
    PROVE  /\ Holder(h, o, s) \in Objects(h) /\ s \in DOMAIN h.own[Holder(h, o, s)]
           /\ Held(h, o, s) \in ValueType(Objects(h))
<1> DEFINE S == {p \in Places(h) : Holder(h, p, s) # Nowhere =>
                                       s \in DOMAIN h.own[Holder(h, p, s)]}
<1>1. Nowhere \in S
  BY HolderUnfolds DEF Places
<1>2. ASSUME NEW p \in Objects(h), h.proto[p] \in S PROVE p \in S
  BY <1>2, HolderUnfolds DEF Places
<1> HIDE DEF S
<1>3. Objects(h) \subseteq S
  BY <1>1, <1>2, PrototypeInduction
<1>4. Holder(h, o, s) # Nowhere /\ Holder(h, o, s) \in Objects(h)
  BY HolderUnfolds DEF Has
<1>5. s \in DOMAIN h.own[Holder(h, o, s)]
  BY <1>3, <1>4 DEF S
<1> QED  BY <1>4, <1>5, SlotFacts DEF Held

\* The object in a slot, if there is one.
Child(h, o, s) ==
    IF o # Nowhere /\ Has(h, o, s) /\ IsRef(Held(h, o, s)) THEN Held(h, o, s).to ELSE Nowhere

\* The walk goes on to an object exactly if the slot refers to it.
LEMMA ChildFacts ==
    ASSUME NEW h, HeapOK(h), NEW o \in Places(h), NEW s
    PROVE  /\ Child(h, o, s) \in Places(h)
           /\ Child(h, o, s) # Nowhere =>
                 o \in Objects(h) /\ Has(h, o, s) /\ Held(h, o, s) = Ref(Child(h, o, s))
           /\ \A p : o \in Objects(h) /\ Has(h, o, s) /\ Held(h, o, s) = Ref(p)
                         => Child(h, o, s) = p
<1>1. CASE o # Nowhere /\ Has(h, o, s) /\ IsRef(Held(h, o, s))
  <2>1. o \in Objects(h)
    BY <1>1 DEF Places
  <2>2. Held(h, o, s).to \in Objects(h) /\ Held(h, o, s) = Ref(Held(h, o, s).to)
    BY <1>1, <2>1, HeldFacts, Values
  <2>3. Child(h, o, s) = Held(h, o, s).to
    BY <1>1 DEF Child
  <2> QED  BY <1>1, <2>1, <2>2, <2>3, Kinds DEF Places
<1>2. CASE ~ (o # Nowhere /\ Has(h, o, s) /\ IsRef(Held(h, o, s)))
  <2>1. Child(h, o, s) = Nowhere
    BY <1>2 DEF Child
  <2>2. o \in Objects(h) => o # Nowhere
    BY SlotFacts
  <2> QED  BY <1>2, <2>1, <2>2, Kinds DEF Places
<1> QED  BY <1>1, <1>2

\* A name is a sequence of segments, of which there is one at least.
LEMMA NameFacts ==
    ASSUME NEW name \in Names
    PROVE  /\ Len(name) \in Nat \ {0} /\ DOMAIN name = 1 .. Len(name)
           /\ \A k \in 1 .. Len(name) : name[k] \in Slots \cup {Empty}
           /\ Last(name) = name[Len(name)] /\ Len(name) \in 1 .. Len(name)
<1>1. PICK n \in 1 .. MaxSegments : name \in [1 .. n -> Slots \cup {Empty}]
  BY DEF Names
<1>2. n \in Nat \ {0}
  BY PathAssumption
<1>3. name \in Seq(Slots \cup {Empty}) /\ Len(name) = n
  BY <1>1, <1>2, SeqDef, LenProperties
<1> QED  BY <1>1, <1>2, <1>3 DEF Last

Walks(h, name, parent) ==
    parent = [k \in 1 .. Len(name) |->
                IF name[k] = Empty THEN Nowhere
                ELSE IF k = 1 THEN Global ELSE Child(h, parent[k - 1], name[k - 1])]

\* The loop of find_parent, turn by turn.
LEMMA ParentsUnfold ==
    ASSUME NEW h, HeapOK(h), NEW name \in Names
    PROVE  /\ Parents(h, name)[1] = IF name[1] = Empty THEN Nowhere ELSE Global
           /\ \A k \in 1 .. Len(name) - 1 :
                 Parents(h, name)[k + 1] =
                     IF name[k + 1] = Empty THEN Nowhere
                     ELSE Child(h, Parents(h, name)[k], name[k])
           /\ \A k \in 1 .. Len(name) :
                 /\ Parents(h, name)[k] \in Places(h)
                 /\ Parents(h, name)[k] # Nowhere =>
                       Parents(h, name)[k] \in Objects(h) /\ name[k] \in Slots
<1> DEFINE D == 1 .. Len(name)
           V == Places(h)
           parent == CHOOSE parent : Walks(h, name, parent)
           rank == [k \in D |-> k]
           next == [k \in D |-> k - 1]
           stop == {k \in D : k = 1 \/ name[k] = Empty}
           base == [k \in D |-> IF name[k] = Empty THEN Nowhere ELSE Global]
           step == [k \in D |-> [o \in V |-> Child(h, o, name[k - 1])]]
<1>1. Len(name) \in Nat \ {0} /\ \A k \in D : name[k] \in Slots \cup {Empty}
  BY NameFacts
<1>2. Nowhere \in V /\ Global \in V /\ Nowhere \notin Objects(h)
  BY DEF Places, HeapOK, HeapOf
<1>3. \E g \in [D -> V] : \A k \in D : Unfolds(g, k, stop, base, step, next)
  <2>1. rank \in [D -> 0 .. Len(name)] /\ base \in [D -> V]
    BY <1>1, <1>2
  <2>2. step \in [D -> [V -> V]]
    BY ChildFacts
  <2>3. \A k \in D \ stop : next[k] \in D /\ rank[next[k]] < rank[k]
    BY <1>1
  <2> HIDE DEF D, V, rank, next, stop, base, step
  <2> QED  BY <1>1, <1>2, <2>1, <2>2, <2>3, Recursion
<1>4. PICK g \in [D -> V] : \A k \in D : Unfolds(g, k, stop, base, step, next)
  BY <1>3
<1>5. \A k \in D : g[k] = IF name[k] = Empty THEN Nowhere
                          ELSE IF k = 1 THEN Global ELSE Child(h, g[k - 1], name[k - 1])
  <2> SUFFICES ASSUME NEW k \in D
               PROVE  g[k] = IF name[k] = Empty THEN Nowhere
                             ELSE IF k = 1 THEN Global ELSE Child(h, g[k - 1], name[k - 1])
    OBVIOUS
  <2>1. CASE k \in stop
    BY <1>4, <2>1 DEF Unfolds
  <2>2. CASE k \notin stop
    <3>1. k - 1 \in D /\ next[k] = k - 1
      BY <1>1, <2>2
    <3>2. g[k] = step[k][g[next[k]]] /\ g[next[k]] \in V
      BY <1>4, <2>2, <3>1 DEF Unfolds
    <3>3. step[k] = [o \in V |-> Child(h, o, name[k - 1])]
      OBVIOUS
    <3> HIDE DEF V, step, next
    <3> QED  BY <2>2, <3>1, <3>2, <3>3
  <2> QED  BY <2>1, <2>2
<1>6. Walks(h, name, parent)
  <2>1. Walks(h, name, g)
    BY <1>5 DEF Walks
  <2> QED  BY <2>1
<1> HIDE DEF parent
<1>7. Parents(h, name) = parent
  BY DEF Parents, Walks, Child, parent
<1>8. \A k \in D : parent[k] = IF name[k] = Empty THEN Nowhere
                               ELSE IF k = 1 THEN Global ELSE Child(h, parent[k - 1], name[k - 1])
  BY <1>6 DEF Walks
<1>9. parent[1] = IF name[1] = Empty THEN Nowhere ELSE Global
  BY <1>1, <1>8
<1>10. \A k \in 1 .. Len(name) - 1 :
           parent[k + 1] = IF name[k + 1] = Empty THEN Nowhere
                           ELSE Child(h, parent[k], name[k])
  <2> SUFFICES ASSUME NEW k \in 1 .. Len(name) - 1
               PROVE  parent[k + 1] = IF name[k + 1] = Empty THEN Nowhere
                                      ELSE Child(h, parent[k], name[k])
    OBVIOUS
  <2>1. k + 1 \in D /\ k + 1 # 1 /\ (k + 1) - 1 = k
    BY <1>1
  <2> QED  BY <1>8, <2>1
<1>11. \A k \in D : parent[k] \in V
  <2> DEFINE S == {k \in D : parent[k] \in V}
  <2>1. 1 \in S
    BY <1>1, <1>2, <1>9
  <2>2. ASSUME NEW k \in 1 .. Len(name) - 1, k \in S PROVE k + 1 \in S
    BY <1>1, <1>2, <1>10, <2>2, ChildFacts
  <2>3. D \subseteq S
    BY <1>1, <2>1, <2>2, SegmentInduction
  <2> QED  BY <2>3
<1>12. \A k \in D : parent[k] # Nowhere => parent[k] \in Objects(h) /\ name[k] \in Slots
  BY <1>1, <1>8, <1>11 DEF Places
<1> HIDE DEF V
<1> QED  BY <1>7, <1>9, <1>10, <1>11, <1>12 DEF V
----------------------------------------------------------------------------
(* A slot that is not looked at does not matter. *)

\* Looking up another slot gives the same object, and the same value.
LEMMA LookedUpElsewhere ==
    ASSUME NEW h, HeapOK(h), NEW g, HeapOK(g), NEW o, NEW s, SameBut(h, g, o, s),
           NEW p \in Objects(h), NEW t \in Slots, <<o, s>> \notin Consulted(h, p, t)
    PROVE  /\ Holder(g, p, t) = Holder(h, p, t)
           /\ Has(g, p, t) <=> Has(h, p, t)
           /\ Has(h, p, t) => Held(g, p, t) = Held(h, p, t)
<1> DEFINE Same(q) == /\ Holder(g, q, t) = Holder(h, q, t)
                      /\ Has(h, q, t) => Held(g, q, t) = Held(h, q, t)
           S == {q \in Places(h) : <<o, s>> \notin Consulted(h, q, t) => Same(q)}
<1>1. Objects(g) = Objects(h) /\ g.proto = h.proto
  BY DEF SameBut
<1>2. Nowhere \in S
  BY HolderUnfolds DEF Places, Has
<1>3. ASSUME NEW q \in Objects(h), h.proto[q] \in S PROVE q \in S
  <2> SUFFICES ASSUME <<o, s>> \notin Consulted(h, q, t) PROVE Same(q)
    BY DEF Places
  <2>1. /\ <<q, t>> # <<o, s>>
        /\ t \notin DOMAIN h.own[q] => <<o, s>> \notin Consulted(h, h.proto[q], t)
    BY ConsultedUnfolds
  <2>2. /\ t \in DOMAIN g.own[q] <=> t \in DOMAIN h.own[q]
        /\ t \in DOMAIN h.own[q] => g.own[q][t] = h.own[q][t]
    BY <2>1 DEF SameBut
  <2>3. Holder(h, q, t) = IF t \in DOMAIN h.own[q] THEN q ELSE Holder(h, h.proto[q], t)
    BY HolderUnfolds
  <2>4. Holder(g, q, t) = IF t \in DOMAIN g.own[q] THEN q ELSE Holder(g, g.proto[q], t)
    BY <1>1, HolderUnfolds
  <2>5. CASE t \in DOMAIN h.own[q]
    BY <2>2, <2>3, <2>4, <2>5 DEF Held
  <2>6. CASE t \notin DOMAIN h.own[q]
    <3>1. Same(h.proto[q])
      BY <1>3, <2>1, <2>6
    <3> QED  BY <1>1, <2>2, <2>3, <2>4, <2>6, <3>1 DEF Has, Held
  <2> QED  BY <2>5, <2>6
<1> HIDE DEF S
<1>4. Objects(h) \subseteq S
  BY <1>2, <1>3, PrototypeInduction
<1>5. Same(p)
  BY <1>4 DEF S
<1> QED  BY <1>5 DEF Has

\* So it is with the objects along a name.
LEMMA WalksElsewhere ==
    ASSUME NEW h, HeapOK(h), NEW g, HeapOK(g), NEW o, NEW s, SameBut(h, g, o, s),
           NEW name \in Names, NEW n \in 1 .. Len(name),
           <<o, s>> \notin ReadFor(h, name, n - 1)
    PROVE  \A k \in 1 .. n : Parents(g, name)[k] = Parents(h, name)[k]
<1> DEFINE P == Parents(h, name)
           Q == Parents(g, name)
           S == {k \in 1 .. n : Q[k] = P[k]}
<1>1. Len(name) \in Nat \ {0} /\ n \in Nat
  BY NameFacts
<1>2. 1 \in S
  BY <1>1, ParentsUnfold
<1>3. ASSUME NEW k \in 1 .. n - 1, k \in S PROVE k + 1 \in S
  <2>1. k \in 1 .. Len(name) - 1 /\ k \in 1 .. Len(name) /\ k + 1 \in 1 .. n
    BY <1>1
  <2>2. Child(g, P[k], name[k]) = Child(h, P[k], name[k])
    <3>1. CASE P[k] = Nowhere
      BY <3>1 DEF Child
    <3>2. CASE P[k] # Nowhere
      <4>1. P[k] \in Objects(h) /\ name[k] \in Slots
        BY <2>1, <3>2, ParentsUnfold
      <4>2. Consulted(h, P[k], name[k]) \subseteq ReadFor(h, name, n - 1)
        BY <3>2 DEF ReadFor
      <4> HIDE DEF P
      <4>3. /\ Has(g, P[k], name[k]) <=> Has(h, P[k], name[k])
            /\ Has(h, P[k], name[k]) => Held(g, P[k], name[k]) = Held(h, P[k], name[k])
        BY <4>1, <4>2, LookedUpElsewhere
      <4> QED  BY <4>3 DEF Child
    <3> QED  BY <3>1, <3>2
  <2>3. /\ P[k + 1] = IF name[k + 1] = Empty THEN Nowhere ELSE Child(h, P[k], name[k])
        /\ Q[k + 1] = IF name[k + 1] = Empty THEN Nowhere ELSE Child(g, Q[k], name[k])
    BY <2>1, ParentsUnfold
  <2> QED  BY <1>3, <2>1, <2>2, <2>3
<1>4. 1 .. n \subseteq S
  <2> HIDE DEF S
  <2> QED  BY <1>1, <1>2, <1>3, SegmentInduction
<1> QED  BY <1>4

\* What find_parent finds has a last segment.
LEMMA FoundFacts ==
    ASSUME NEW h, HeapOK(h), NEW name \in Names, FindParent(h, name) # Nowhere
    PROVE  FindParent(h, name) \in Objects(h) /\ Last(name) \in Slots
BY NameFacts, ParentsUnfold DEF FindParent

\* And with what a name means.
LEMMA MeansElsewhere ==
    ASSUME NEW h, HeapOK(h), NEW g, HeapOK(g), NEW o, NEW s, SameBut(h, g, o, s),
           NEW name \in Names, <<o, s>> \notin Reads(h, name)
    PROVE  /\ Exists(g, name) <=> Exists(h, name)
           /\ Value(g, name) = Value(h, name)
<1> DEFINE n == Len(name)
           p == FindParent(h, name)
           t == Last(name)
<1>1. n \in Nat \ {0} /\ t = name[n] /\ n \in 1 .. n
  BY NameFacts
<1>2. ReadFor(h, name, n - 1) \subseteq Reads(h, name)
  BY <1>1 DEF Reads, ReadFor
<1>3. FindParent(g, name) = p
  BY <1>1, <1>2, WalksElsewhere DEF FindParent
<1>4. CASE p = Nowhere
  BY <1>3, <1>4 DEF Exists, Value
<1>5. CASE p # Nowhere
  <2>1. p \in Objects(h) /\ t \in Slots
    BY <1>5, FoundFacts
  <2>2. Consulted(h, p, t) \subseteq Reads(h, name)
    BY <1>1, <1>5 DEF Reads, ReadFor, FindParent
  <2> HIDE DEF p, t
  <2>3. /\ Has(g, p, t) <=> Has(h, p, t)
        /\ Has(h, p, t) => Held(g, p, t) = Held(h, p, t)
    BY <2>1, <2>2, LookedUpElsewhere
  <2> QED  BY <1>3, <1>5, <2>3 DEF Exists, Value, p, t
<1> QED  BY <1>4, <1>5
----------------------------------------------------------------------------
(* Every heap is typed. *)

\* Three elements are not four.
LEMMA ThreeAtMost ==
    ASSUME NEW a, NEW b, NEW c
    PROVE  Cardinality({a, b, c}) # 4
<1>1. ASSUME NEW S, NEW e, IsFiniteSet(S), NEW n \in Nat, Cardinality(S) \in 0 .. n
      PROVE  IsFiniteSet(S \cup {e}) /\ Cardinality(S \cup {e}) \in 0 .. n + 1
  <2>1. /\ IsFiniteSet(S \cup {e})
        /\ Cardinality(S \cup {e}) = IF e \in S THEN Cardinality(S) ELSE Cardinality(S) + 1
    BY <1>1, FS_AddElement
  <2> QED  BY <1>1, <2>1
<1>2. IsFiniteSet({a}) /\ Cardinality({a}) \in 0 .. 1
  <2>1. IsFiniteSet({a}) /\ Cardinality({a}) = 1
    BY ONLY FS_Singleton, Zenon
  <2> QED  BY ONLY <2>1
<1>3. IsFiniteSet({a} \cup {b}) /\ Cardinality({a} \cup {b}) \in 0 .. 1 + 1
  BY <1>1, <1>2
<1>4. Cardinality(({a} \cup {b}) \cup {c}) \in 0 .. 2 + 1
  <2>1. Cardinality({a} \cup {b}) \in 0 .. 2
    BY <1>3
  <2> QED  BY <1>1, <1>3, <2>1
<1>5. ({a} \cup {b}) \cup {c} = {a, b, c}
  OBVIOUS
<1>6. Cardinality({a, b, c}) \in 0 .. 3
  BY <1>4, <1>5
<1> QED  BY <1>6

\* The objects that JavaScript comes with are different.
LEMMA Distinct ==
    /\ Nowhere \notin {Global, Root, Function} /\ Root # Global /\ Root # Function
    /\ Nowhere \notin Others
<1>1. \A a, b, c : {Global, Root, Function, Nowhere} # {a, b, c}
  <2> SUFFICES ASSUME NEW a, NEW b, NEW c, {Global, Root, Function, Nowhere} = {a, b, c}
               PROVE  FALSE
    OBVIOUS
  <2>1. Cardinality({a, b, c}) = 4
    BY PathAssumption
  <2> QED  BY <2>1, ThreeAtMost
<1>2. Nowhere \notin {Global, Root, Function}
  <2> SUFFICES ASSUME Nowhere \in {Global, Root, Function} PROVE FALSE
    OBVIOUS
  <2>1. {Global, Root, Function, Nowhere} = {Global, Root, Function}
    OBVIOUS
  <2> QED  BY <1>1, <2>1
<1>3. Root # Global /\ Root # Function
  <2>1. Root = Global => {Global, Root, Function, Nowhere} = {Global, Function, Nowhere}
    OBVIOUS
  <2>2. Root = Function => {Global, Root, Function, Nowhere} = {Global, Function, Nowhere}
    OBVIOUS
  <2> QED  BY <1>1, <2>1, <2>2
<1> QED  BY <1>2, <1>3, PathAssumption

\* An object without slots.
LEMMA NoSlots ==
    ASSUME NEW objects
    PROVE  <<>> \in OwnType(objects)
<1>1. <<>> = [s \in {} |-> s] /\ DOMAIN <<>> = {}
  OBVIOUS
<1> QED  BY <1>1 DEF OwnType

\* A heap with more objects has room for what was in it.
LEMMA OwnMonotone ==
    ASSUME NEW objects, NEW more, objects \subseteq more
    PROVE  OwnType(objects) \subseteq OwnType(more)
<1>1. ValueType(objects) \subseteq ValueType(more)
  BY DEF ValueType
<1>2. SlotType(objects) \subseteq SlotType(more)
  BY <1>1 DEF SlotType
<1> QED  BY <1>2 DEF OwnType

\* A new object has a prototype that was there before, if any.
LEMMA MadeFacts ==
    ASSUME NEW h, HeapOK(h), NEW o \in Others \ Objects(h), NEW p \in Places(h)
    PROVE  /\ HeapOK(Made(h, o, p))
           /\ Objects(Made(h, o, p)) = Objects(h) \cup {o}
<1> DEFINE O == Objects(h)
           M == O \cup {o}
           g == Made(h, o, p)
<1>1. /\ h \in [own : [O -> OwnType(O)], proto : [O -> O \cup {Nowhere}], frozen : SUBSET O]
      /\ Nowhere \notin O /\ {Global, Root, Function} \subseteq O
      /\ Ranked(O, h.proto) /\ h.proto[Root] = Nowhere
  BY DEF HeapOK, HeapOf
<1>2. o # Nowhere /\ o \notin O
  BY Distinct
<1>3. /\ g.own = [q \in M |-> IF q = o THEN <<>> ELSE h.own[q]]
      /\ g.proto = [q \in M |-> IF q = o THEN p ELSE h.proto[q]]
      /\ g.frozen = h.frozen
      /\ g = [own |-> g.own, proto |-> g.proto, frozen |-> g.frozen]
  BY <1>1 DEF Made, With
<1> HIDE DEF g
<1>4. g.own \in [M -> OwnType(M)]
  BY <1>1, <1>2, <1>3, NoSlots, OwnMonotone
<1>5. g.proto \in [M -> M \cup {Nowhere}] /\ g.frozen \in SUBSET M /\ g.proto[Root] = Nowhere
  BY <1>1, <1>2, <1>3 DEF Places
<1>6. Ranked(M, g.proto)
  <2>1. PICK n \in Nat : \E rank \in [O \cup {Nowhere} -> 0 .. n] :
                             \A q \in O : rank[h.proto[q]] < rank[q]
    BY <1>1 DEF Ranked
  <2>2. PICK rank \in [O \cup {Nowhere} -> 0 .. n] : \A q \in O : rank[h.proto[q]] < rank[q]
    BY <2>1
  <2> DEFINE more == [q \in M \cup {Nowhere} |-> IF q = o THEN n + 1 ELSE rank[q]]
  <2>3. more \in [M \cup {Nowhere} -> 0 .. n + 1]
    BY <1>2
  <2>4. ASSUME NEW q \in M PROVE more[g.proto[q]] < more[q]
    <3>1. CASE q = o
      <4>1. g.proto[q] = p /\ p \in O \cup {Nowhere} /\ p # o
        BY <1>2, <1>3, <3>1 DEF Places
      <4>2. more[p] = rank[p] /\ rank[p] \in 0 .. n /\ more[q] = n + 1
        BY <3>1, <4>1
      <4> QED  BY <4>1, <4>2
    <3>2. CASE q # o
      <4>1. q \in O /\ g.proto[q] = h.proto[q] /\ h.proto[q] \in O \cup {Nowhere}
        BY <1>1, <1>3, <3>2
      <4>2. h.proto[q] # o
        BY <1>2, <4>1
      <4>3. more[h.proto[q]] = rank[h.proto[q]] /\ more[q] = rank[q]
        BY <3>2, <4>1, <4>2
      <4> QED  BY <2>2, <4>1, <4>3
    <3> QED  BY <3>1, <3>2
  <2> HIDE DEF more
  <2>5. n + 1 \in Nat
    OBVIOUS
  <2> QED  BY <2>3, <2>4, <2>5 DEF Ranked
<1>7. Objects(g) = M
  BY <1>3 DEF Objects
<1>8. HeapOf(g, M)
  <2>1. g \in [own : [M -> OwnType(M)], proto : [M -> M \cup {Nowhere}], frozen : SUBSET M]
    BY <1>3, <1>4, <1>5
  <2> QED  BY <1>1, <1>2, <1>5, <1>6, <2>1 DEF HeapOf
<1> QED  BY <1>7, <1>8 DEF HeapOK, g

\* A set that is under way.
SettingType ==
    [left : Nat, name : Names, parent : Objects(heap), value : [leaf : Anything]]

PathInv ==
    /\ HeapOK(heap)
    /\ Fetching => setting \in SettingType /\ Last(setting.name) \in Slots

\* JavaScript as it comes.
LEMMA PathInit == Init => PathInv
<1> SUFFICES ASSUME Init PROVE PathInv
  OBVIOUS
<1> DEFINE O == {Global, Root, Function}
<1>1. /\ heap.own = [o \in O |-> <<>>]
      /\ heap.proto = [o \in O |-> IF o = Root THEN Nowhere ELSE Root]
      /\ heap.frozen = {Function} /\ setting = NotSetting
      /\ heap = [own |-> heap.own, proto |-> heap.proto, frozen |-> heap.frozen]
  BY DEF Init
<1>2. Objects(heap) = O
  BY <1>1 DEF Objects
<1>3. heap.own \in [O -> OwnType(O)]
  BY <1>1, NoSlots
<1>4. heap.proto \in [O -> O \cup {Nowhere}] /\ heap.proto[Root] = Nowhere
  BY <1>1
<1>5. Ranked(O, heap.proto)
  <2> DEFINE rank == [o \in O \cup {Nowhere} |-> IF o = Nowhere THEN 0 ELSE IF o = Root THEN 1 ELSE 2]
  <2>1. rank \in [O \cup {Nowhere} -> 0 .. 2]
    OBVIOUS
  <2>2. \A o \in O : rank[heap.proto[o]] < rank[o]
    BY <1>1, Distinct
  <2> HIDE DEF rank
  <2>3. 2 \in Nat
    OBVIOUS
  <2> QED  BY <2>1, <2>2, <2>3 DEF Ranked
<1>6. HeapOf(heap, O)
  <2>1. heap \in [own : [O -> OwnType(O)], proto : [O -> O \cup {Nowhere}], frozen : SUBSET O]
    BY <1>1, <1>3, <1>4
  <2> QED  BY <1>4, <1>5, <2>1, Distinct DEF HeapOf
<1> QED  BY <1>1, <1>2, <1>6 DEF HeapOK, PathInv, Fetching

\* Values of set.
LEMMA SetValues ==
    ASSUME NEW objects
    PROVE  /\ \A l \in Leaves : Leaf(l) \in ValueType(objects) /\ Leaf(l) \in [leaf : Anything]
           /\ Leaf(Undefined) \in ValueType(objects)
           /\ \A o \in objects : Ref(o) \in ValueType(objects)
           /\ [leaf : Anything] \subseteq ValueType(objects)
BY DEF ValueType, Leaf, Ref, Anything

\* Both methods change the one slot that the name leads to, if it leads to any.
LEMMA MethodFacts ==
    ASSUME NEW h, HeapOK(h), NEW name \in Names
    PROVE  /\ \A v \in ValueType(Objects(h)) :
                 HeapOK(SetName(h, name, v)) /\ Objects(SetName(h, name, v)) = Objects(h)
           /\ HeapOK(RemoveName(h, name)) /\ Objects(RemoveName(h, name)) = Objects(h)
<1> DEFINE o == FindParent(h, name)
<1>1. CASE o = Nowhere
  BY <1>1 DEF SetName, RemoveName
<1>2. CASE o # Nowhere
  <2>1. o \in Objects(h) /\ Last(name) \in Slots
    BY <1>2, FoundFacts
  <2>2. /\ \A v : SetName(h, name, v) = Put(h, o, Last(name), v)
        /\ RemoveName(h, name) = Drop(h, o, Last(name))
    BY <1>2 DEF SetName, RemoveName
  <2> HIDE DEF o
  <2> QED  BY <2>1, <2>2, PutFacts, DropFacts DEF SameBut
<1> QED  BY <1>1, <1>2

\* A call, or a step of a script, makes one heap of another and takes no
\* object away.
Grows == HeapOK(heap') /\ Objects(heap) \subseteq Objects(heap')

\* No step of Perl or of a script makes the heap ill-formed, or loses objects.
LEMMA StepGrows ==
    ASSUME PathInv, Step
    PROVE  Grows
<1>1. HeapOK(heap)
  BY DEF PathInv
<1>2. ASSUME NEW name \in Names, Set(name) PROVE Grows
  <2>1. CASE \E l \in Leaves : Becomes(SetName(heap, name, Leaf(l)))
    <3>1. PICK l \in Leaves : heap' = SetName(heap, name, Leaf(l))
      BY <2>1 DEF Becomes
    <3> QED  BY <1>1, <3>1, SetValues, MethodFacts DEF Grows
  <2>2. ASSUME NEW o \in Others \ Objects(heap),
               Becomes(SetName(Made(heap, o, Root), name, Ref(o)))
        PROVE  Grows
    <3> DEFINE g == Made(heap, o, Root)
    <3>1. Root \in Places(heap)
      BY <1>1 DEF HeapOK, HeapOf, Places
    <3>2. HeapOK(g) /\ Objects(g) = Objects(heap) \cup {o}
      BY <1>1, <3>1, MadeFacts
    <3>3. heap' = SetName(g, name, Ref(o)) /\ Ref(o) \in ValueType(Objects(g))
      BY <2>2, <3>2, SetValues DEF Becomes
    <3> HIDE DEF g
    <3> QED  BY <3>2, <3>3, MethodFacts DEF Grows
  <2> QED  BY <1>2, <2>1, <2>2 DEF Set
<1>3. ASSUME NEW name \in Names, RemoveSlot(name) PROVE Grows
  <2>1. heap' = RemoveName(heap, name)
    BY <1>3 DEF RemoveSlot, Becomes
  <2> QED  BY <1>1, <2>1, MethodFacts DEF Grows
<1>4. ASSUME NEW o \in Objects(heap), Freeze(o) PROVE Grows
  <2>1. heap' = [heap EXCEPT !.frozen = @ \cup {o}]
    BY <1>4 DEF Freeze, Becomes
  <2>2. Objects(heap') = Objects(heap)
    BY <1>1, <2>1 DEF HeapOK, HeapOf, Objects
  <2>3. HeapOf(heap', Objects(heap))
    BY <1>1, <2>1 DEF HeapOK, HeapOf
  <2> QED  BY <2>2, <2>3 DEF Grows, HeapOK
<1>5. ASSUME NEW o \in Objects(heap), NEW s \in Slots, Create(o, s) PROVE Grows
  <2>1. PICK new \in Others \ Objects(heap), p \in Objects(heap) \cup {Nowhere} :
            heap' = Put(Made(heap, new, p), o, s, Ref(new))
    BY <1>5 DEF Create, Becomes
  <2> DEFINE g == Made(heap, new, p)
  <2>2. HeapOK(g) /\ Objects(g) = Objects(heap) \cup {new}
    BY <1>1, <2>1, MadeFacts DEF Places
  <2>3. heap' = Put(g, o, s, Ref(new)) /\ Ref(new) \in ValueType(Objects(g)) /\ o \in Objects(g)
    BY <2>1, <2>2, SetValues
  <2> HIDE DEF g
  <2>4. HeapOK(heap') /\ SameBut(g, heap', o, s)
    BY <2>2, <2>3, PutFacts
  <2> QED  BY <2>2, <2>4 DEF Grows, SameBut
<1>6. ASSUME NEW o \in Objects(heap), NEW s \in Slots, Assign(o, s) PROVE Grows
  <2>1. PICK v \in {Leaf(l) : l \in Leaves} \cup {Ref(p) : p \in Objects(heap)} :
            heap' = Put(heap, o, s, v)
    BY <1>6 DEF Assign, Becomes
  <2>2. v \in ValueType(Objects(heap))
    BY SetValues
  <2> QED  BY <1>1, <2>1, <2>2, PutFacts DEF Grows, SameBut
<1>7. ASSUME NEW s \in Slots, DeclareVar(s) PROVE Grows
  <2> DEFINE f == heap.own[Global]
             e == With(f, s, [value |-> Leaf(Undefined), fixed |-> TRUE])
  <2>1. Global \in Objects(heap) /\ heap.own = [p \in Objects(heap) |-> heap.own[p]]
    BY <1>1 DEF HeapOK, HeapOf
  <2>2. heap' = [heap EXCEPT !.own[Global] = e]
    BY <1>7, <2>1 DEF DeclareVar, Becomes
  <2>3. e \in OwnType(Objects(heap))
    <3>1. DOMAIN f \subseteq Slots /\ \A t \in DOMAIN f : f[t] \in SlotType(Objects(heap))
      BY <1>1, <2>1, SlotFacts
    <3>2. [value |-> Leaf(Undefined), fixed |-> TRUE] \in SlotType(Objects(heap))
      BY SetValues DEF SlotType
    <3>3. e = [t \in DOMAIN f \cup {s} |->
                  IF t = s THEN [value |-> Leaf(Undefined), fixed |-> TRUE] ELSE f[t]]
      BY DEF With
    <3> HIDE DEF e, f
    <3>4. e = [t \in DOMAIN e |-> e[t]] /\ DOMAIN e = DOMAIN f \cup {s}
      BY <3>3
    <3>5. \A t \in DOMAIN e : e[t] \in SlotType(Objects(heap))
      BY <3>1, <3>2, <3>3, <3>4
    <3> QED  BY <3>1, <3>4, <3>5, OwnTyped
  <2> HIDE DEF e
  <2> QED  BY <1>1, <2>1, <2>2, <2>3, OwnReplaced DEF Grows
<1> QED  BY <1>2, <1>3, <1>4, <1>5, <1>6, <1>7 DEF Step

\* Calls and scripts keep the types, and what set has found is still there
\* when the value comes.
LEMMA PathStep == PathInv /\ [Next]_vars => PathInv'
<1> SUFFICES ASSUME PathInv, [Next]_vars PROVE PathInv'
  OBVIOUS
<1>1. HeapOK(heap) /\ (Fetching => setting \in SettingType /\ Last(setting.name) \in Slots)
  BY DEF PathInv
<1>2. CASE Change
  <2>1. Grows
    BY <1>2, StepGrows DEF Change
  <2>2. CASE Fetching
    <3>1. setting.left \in Nat \ {0} /\ setting' = [setting EXCEPT !.left = @ - 1]
      BY <1>1, <1>2, <2>2 DEF Change, SettingType
    <3>2. setting.left - 1 \in Nat
      BY <3>1
    <3>3. setting' \in SettingType' /\ setting'.name = setting.name
      BY <1>1, <2>1, <2>2, <3>1, <3>2 DEF SettingType, Grows
    <3> QED  BY <1>1, <2>1, <2>2, <3>3 DEF PathInv, Grows
  <2>3. CASE ~ Fetching
    <3>1. setting' = setting
      BY <1>2, <2>3 DEF Change
    <3>2. ~ Fetching'
      BY <2>3, <3>1 DEF Fetching
    <3> QED  BY <2>1, <3>2 DEF PathInv, Grows
  <2> QED  BY <2>2, <2>3
<1>3. ASSUME NEW name \in TiedNames, SetTied(name) PROVE PathInv'
  <2>1. PICK l \in Leaves :
            setting' = [left |-> MaxFetch, name |-> name, parent |-> FindParent(heap, name),
                        value |-> Leaf(l)]
    BY <1>3 DEF SetTied
  <2>2. heap' = heap /\ FindParent(heap, name) # Nowhere /\ name \in Names
    BY <1>3, TiedAssumption DEF SetTied
  <2> QED  BY <1>1, <2>1, <2>2, FoundFacts, SetValues, PathAssumption DEF PathInv, SettingType
<1>4. CASE SetFetched
  <2>1. /\ heap' = Put(heap, setting.parent, Last(setting.name), setting.value)
        /\ setting' = NotSetting /\ Fetching
    BY <1>4 DEF SetFetched
  <2>2. setting.parent \in Objects(heap) /\ setting.value \in ValueType(Objects(heap))
        /\ Last(setting.name) \in Slots
    BY <1>1, <2>1, SetValues DEF SettingType
  <2>3. HeapOK(heap')
    BY <1>1, <2>1, <2>2, PutFacts
  <2> QED  BY <2>1, <2>3 DEF PathInv, Fetching
<1>5. CASE UNCHANGED vars
  BY <1>1, <1>5 DEF vars, PathInv, SettingType, Fetching
<1> QED  BY <1>2, <1>3, <1>4, <1>5 DEF Next

\* Every heap that can be built is well-formed.
LEMMA PathAlways == Spec => []PathInv
BY PathInit, PathStep, PTL DEF Spec
----------------------------------------------------------------------------
(* What a name means. *)

\* The walk got somewhere only if it got somewhere at each turn before.
LEMMA AllFound ==
    ASSUME NEW h, HeapOK(h), NEW name \in Names, FindParent(h, name) # Nowhere
    PROVE  /\ \A k \in 1 .. Len(name) :
                 Parents(h, name)[k] \in Objects(h) /\ name[k] \in Slots
           /\ \A k \in 1 .. Len(name) - 1 :
                 /\ Has(h, Parents(h, name)[k], name[k])
                 /\ Held(h, Parents(h, name)[k], name[k]) = Ref(Parents(h, name)[k + 1])
<1> DEFINE P == Parents(h, name)
           n == Len(name)
           S == {k \in 1 .. n : P[n + 1 - k] # Nowhere}
<1>1. n \in Nat \ {0}
  BY NameFacts
<1>2. ASSUME NEW k \in 1 .. n - 1, P[k + 1] # Nowhere
      PROVE  P[k] # Nowhere /\ Has(h, P[k], name[k]) /\ Held(h, P[k], name[k]) = Ref(P[k + 1])
  <2>1. P[k + 1] = Child(h, P[k], name[k]) /\ P[k] \in Places(h)
    BY <1>1, <1>2, ParentsUnfold
  <2> HIDE DEF P
  <2>2. P[k] \in Objects(h) /\ Has(h, P[k], name[k]) /\ Held(h, P[k], name[k]) = Ref(P[k + 1])
    BY <1>2, <2>1, ChildFacts
  <2> QED  BY <2>2, SlotFacts
<1>3. 1 .. n \subseteq S
  <2>1. 1 \in S
    BY <1>1 DEF FindParent
  <2>2. ASSUME NEW k \in 1 .. n - 1, k \in S PROVE k + 1 \in S
    <3>1. n - k \in 1 .. n - 1 /\ (n - k) + 1 = n + 1 - k /\ n + 1 - (k + 1) = n - k
          /\ k + 1 \in 1 .. n
      BY <1>1
    <3>2. P[(n - k) + 1] # Nowhere
      BY <2>2, <3>1
    <3>3. P[n - k] # Nowhere
      BY <1>2, <3>1, <3>2
    <3> QED  BY <3>1, <3>3
  <2> HIDE DEF S
  <2> QED  BY <1>1, <2>1, <2>2, SegmentInduction
<1>4. \A k \in 1 .. n : P[k] # Nowhere
  <2> SUFFICES ASSUME NEW k \in 1 .. n PROVE P[k] # Nowhere
    OBVIOUS
  <2>1. n + 1 - k \in 1 .. n /\ n + 1 - (n + 1 - k) = k
    BY <1>1
  <2>2. n + 1 - k \in S
    BY <1>3, <2>1
  <2> QED  BY <2>1, <2>2
<1>5. \A k \in 1 .. n : P[k] \in Objects(h) /\ name[k] \in Slots
  BY <1>4, ParentsUnfold
<1>6. \A k \in 1 .. n - 1 : Has(h, P[k], name[k]) /\ Held(h, P[k], name[k]) = Ref(P[k + 1])
  <2> SUFFICES ASSUME NEW k \in 1 .. n - 1
               PROVE  Has(h, P[k], name[k]) /\ Held(h, P[k], name[k]) = Ref(P[k + 1])
    OBVIOUS
  <2>1. P[k + 1] # Nowhere
    BY <1>1, <1>4
  <2> QED  BY <1>2, <2>1
<1> QED  BY <1>5, <1>6

\* A path of objects along the segments of a name, the last slot included.
Path(h, name, path) ==
    /\ path[1] = Global
    /\ \A k \in 1 .. Len(name) : Has(h, path[k], name[k])
    /\ \A k \in 1 .. Len(name) - 1 : Held(h, path[k], name[k]) = Ref(path[k + 1])

\* If there is such a path, the walk takes it.
LEMMA TakesPath ==
    ASSUME NEW h, HeapOK(h), NEW name \in Names, Empty \notin Range(name),
           NEW path \in [1 .. Len(name) -> Objects(h)], Path(h, name, path)
    PROVE  \A k \in 1 .. Len(name) : Parents(h, name)[k] = path[k]
<1> DEFINE P == Parents(h, name)
           n == Len(name)
           S == {k \in 1 .. n : P[k] = path[k]}
<1>1. n \in Nat \ {0} /\ \A k \in 1 .. n : name[k] # Empty
  BY NameFacts DEF Range
<1>2. 1 \in S
  BY <1>1, ParentsUnfold DEF Path
<1>3. ASSUME NEW k \in 1 .. n - 1, k \in S PROVE k + 1 \in S
  <2>1. k \in 1 .. n /\ k + 1 \in 1 .. n
    BY <1>1
  <2>2. P[k + 1] = Child(h, P[k], name[k])
    BY <1>1, <2>1, ParentsUnfold
  <2>3. /\ path[k] \in Objects(h) /\ Has(h, path[k], name[k])
        /\ Held(h, path[k], name[k]) = Ref(path[k + 1])
    BY <2>1 DEF Path
  <2>4. Child(h, path[k], name[k]) = path[k + 1]
    BY <2>3, ChildFacts DEF Places
  <2> QED  BY <1>3, <2>1, <2>2, <2>4
<1> HIDE DEF S
<1>4. 1 .. n \subseteq S
  BY <1>1, <1>2, <1>3, SegmentInduction
<1> QED  BY <1>4 DEF S

\* exists finds what the JavaScript expression of the name would find: a path
\* of objects along its segments, in any heap, cyclic or inherited, and for a
\* name of any length (find_parent and find_object, pl_v8.cc).
THEOREM WalksFollowPaths == Spec => []WalkFollowsPath
<1>1. ASSUME PathInv, NEW name \in Names
      PROVE  Exists(heap, name) <=>
                 /\ Empty \notin Range(name)
                 /\ \E path \in [1 .. Len(name) -> Objects(heap)] : Path(heap, name, path)
  <2> DEFINE n == Len(name)
             P == Parents(heap, name)
  <2>1. HeapOK(heap) /\ n \in Nat \ {0} /\ n \in 1 .. n /\ Last(name) = name[n]
        /\ DOMAIN name = 1 .. n
    BY <1>1, NameFacts DEF PathInv
  <2>2. ASSUME Exists(heap, name)
        PROVE  /\ Empty \notin Range(name)
               /\ \E path \in [1 .. Len(name) -> Objects(heap)] : Path(heap, name, path)
    <3>1. FindParent(heap, name) # Nowhere /\ Has(heap, P[n], name[n])
      BY <2>1, <2>2 DEF Exists, FindParent
    <3>2. /\ \A k \in 1 .. n : P[k] \in Objects(heap) /\ name[k] \in Slots
          /\ \A k \in 1 .. n - 1 :
                Has(heap, P[k], name[k]) /\ Held(heap, P[k], name[k]) = Ref(P[k + 1])
      BY <2>1, <3>1, AllFound
    <3>3. P[1] = Global
      <4>1. 1 \in 1 .. n /\ P[1] = IF name[1] = Empty THEN Nowhere ELSE Global
        BY <2>1, ParentsUnfold
      <4>2. name[1] \in Slots
        BY <3>2, <4>1
      <4> QED  BY <4>1, <4>2, PathAssumption
    <3>4. Empty \notin Range(name)
      BY <2>1, <3>2, PathAssumption DEF Range
    <3> DEFINE path == [k \in 1 .. n |-> P[k]]
    <3>5. path \in [1 .. n -> Objects(heap)]
      BY <3>2
    <3>6. Path(heap, name, path)
      <4>1. \A k \in 1 .. n : path[k] = P[k]
        OBVIOUS
      <4>2. \A k \in 1 .. n - 1 : k \in 1 .. n /\ k + 1 \in 1 .. n
        BY <2>1
      <4>3. \A k \in 1 .. n : Has(heap, P[k], name[k])
        <5> SUFFICES ASSUME NEW k \in 1 .. n PROVE Has(heap, P[k], name[k])
          OBVIOUS
        <5>1. \A m \in Nat : \A j \in 1 .. m : j = m \/ j \in 1 .. m - 1
          OBVIOUS
        <5>2. k = n \/ k \in 1 .. n - 1
          BY <2>1, <5>1
        <5> QED  BY <3>1, <3>2, <5>2
      <4> HIDE DEF path
      <4> QED  BY <2>1, <3>2, <3>3, <4>1, <4>2, <4>3 DEF Path
    <3> QED  BY <3>4, <3>5, <3>6
  <2>3. ASSUME Empty \notin Range(name),
               NEW path \in [1 .. Len(name) -> Objects(heap)], Path(heap, name, path)
        PROVE  Exists(heap, name)
    <3>1. P[n] = path[n]
      BY <2>1, <2>3, TakesPath
    <3>2. path[n] \in Objects(heap) /\ Has(heap, path[n], name[n])
      BY <2>1, <2>3 DEF Path
    <3>3. path[n] # Nowhere
      BY <2>1, <3>2, SlotFacts
    <3> QED  BY <2>1, <3>1, <3>2, <3>3 DEF Exists, FindParent
  <2> QED  BY <2>2, <2>3
<1>2. PathInv => WalkFollowsPath
  BY <1>1 DEF WalkFollowsPath, Path
<1> QED  BY <1>2, PathAlways, PTL
----------------------------------------------------------------------------
(* What set and remove do to the names. *)

\* A slot that was written is found at once.
LEMMA SetFinds ==
    ASSUME NEW h, HeapOK(h), NEW name \in Names, NEW v \in ValueType(Objects(h)),
           FindParent(h, name) # Nowhere, Aside(h, name),
           Writable(h, FindParent(h, name), Last(name))
    PROVE  Exists(SetName(h, name, v), name) /\ Value(SetName(h, name, v), name) = v
<1> DEFINE o == FindParent(h, name)
           s == Last(name)
           g == Put(h, o, s, v)
           n == Len(name)
<1>1. o \in Objects(h) /\ s \in Slots /\ n \in Nat \ {0} /\ n \in 1 .. n
  BY FoundFacts, NameFacts
<1>2. SetName(h, name, v) = g
  BY DEF SetName
<1>3. /\ HeapOK(g) /\ SameBut(h, g, o, s) /\ Objects(g) = Objects(h)
      /\ s \in DOMAIN g.own[o] /\ g.own[o][s].value = v
  <2> HIDE DEF o, s
  <2>1. Writable(h, o, s)
    BY DEF o, s
  <2> QED  BY <1>1, <2>1, PutFacts DEF SameBut
<1>4. FindParent(g, name) = o
  <2>1. <<o, s>> \notin ReadFor(h, name, n - 1)
    BY DEF Aside
  <2> HIDE DEF g, s
  <2>2. \A k \in 1 .. n : Parents(g, name)[k] = Parents(h, name)[k]
    BY <1>1, <1>3, <2>1, WalksElsewhere
  <2> QED  BY <1>1, <2>2 DEF FindParent
<1> HIDE DEF o, s, g
<1>5. Holder(g, o, s) = o /\ o # Nowhere
  BY <1>1, <1>3, HolderUnfolds, SlotFacts
<1>6. Exists(g, name) /\ Value(g, name) = v
  BY <1>3, <1>4, <1>5 DEF Exists, Value, Has, Held, s
<1> QED  BY <1>2, <1>6

\* After set, get gives the value that was set, in any heap: cyclic, with
\* prototypes that hold the slot, and with frozen objects elsewhere (set,
\* pl_v8.cc).
THEOREM GetGivesWhatWasSet == Spec => []SetThenGet
<1>1. PathInv => SetThenGet
  BY SetFinds, SetValues DEF PathInv, SetThenGet
<1> QED  BY <1>1, PathAlways, PTL

\* Looking up from an object only looks at objects of lower rank.
LEMMA LooksUpwards ==
    ASSUME NEW h, HeapOK(h), NEW o \in Objects(h), NEW s
    PROVE  h.proto[o] # Nowhere => <<o, s>> \notin Consulted(h, h.proto[o], s)
<1> DEFINE O == Objects(h)
<1>1. /\ h.proto \in [O -> O \cup {Nowhere}] /\ Ranked(O, h.proto) /\ Nowhere \notin O
  BY DEF HeapOK, HeapOf
<1>2. PICK n \in Nat : \E rank \in [O \cup {Nowhere} -> 0 .. n] :
                           \A q \in O : rank[h.proto[q]] < rank[q]
  BY <1>1 DEF Ranked
<1>3. PICK rank \in [O \cup {Nowhere} -> 0 .. n] : \A q \in O : rank[h.proto[q]] < rank[q]
  BY <1>2
<1> DEFINE S == {q \in O \cup {Nowhere} :
                    \A p \in O : <<p, s>> \in Consulted(h, q, s) => rank[p] <= rank[q]}
<1>4. Nowhere \in S
  BY ConsultedUnfolds
<1>5. ASSUME NEW q \in O, h.proto[q] \in S PROVE q \in S
  <2> SUFFICES ASSUME NEW p \in O, <<p, s>> \in Consulted(h, q, s) PROVE rank[p] <= rank[q]
    OBVIOUS
  <2>1. p = q \/ <<p, s>> \in Consulted(h, h.proto[q], s)
    BY ConsultedUnfolds
  <2>2. rank[h.proto[q]] < rank[q] /\ rank[h.proto[q]] \in Int /\ rank[q] \in Int /\ rank[p] \in Int
    BY <1>1, <1>3
  <2> QED  BY <1>5, <2>1, <2>2
<1>6. O \subseteq S
  <2> HIDE DEF S
  <2> QED  BY <1>4, <1>5, PrototypeInduction
<1>7. h.proto[o] \in S
  BY <1>1, <1>4, <1>6
<1>8. rank[h.proto[o]] < rank[o] /\ rank[h.proto[o]] \in Int /\ rank[o] \in Int
  BY <1>1, <1>3
<1> QED  BY <1>7, <1>8

\* After remove, a name exists only if its slot is inherited, in any heap
\* (remove, pl_v8.cc).
THEOREM RemovedIsGone == Spec => []RemoveThenExists
<1>1. ASSUME PathInv, NEW name \in Names, FindParent(heap, name) # Nowhere,
             ~ Kept(heap, FindParent(heap, name), Last(name)), Aside(heap, name)
      PROVE  Exists(RemoveName(heap, name), name) <=>
                 /\ heap.proto[FindParent(heap, name)] # Nowhere
                 /\ Has(heap, heap.proto[FindParent(heap, name)], Last(name))
  <2> DEFINE h == heap
             o == FindParent(h, name)
             s == Last(name)
             g == Drop(h, o, s)
             n == Len(name)
             q == h.proto[o]
  <2>1. /\ HeapOK(h) /\ o \in Objects(h) /\ s \in Slots /\ n \in Nat \ {0} /\ n \in 1 .. n
        /\ o # Nowhere
    BY <1>1, FoundFacts, NameFacts DEF PathInv
  <2>2. RemoveName(h, name) = g
    BY <1>1 DEF RemoveName
  <2>3. /\ HeapOK(g) /\ SameBut(h, g, o, s) /\ Objects(g) = Objects(h) /\ g.proto = h.proto
        /\ s \notin DOMAIN g.own[o]
    <3> HIDE DEF o, s
    <3>1. ~ Kept(h, o, s)
      BY <1>1 DEF o, s
    <3> QED  BY <2>1, <3>1, DropFacts DEF SameBut
  <2>4. FindParent(g, name) = o
    <3>1. <<o, s>> \notin ReadFor(h, name, n - 1)
      BY <1>1 DEF Aside
    <3> HIDE DEF g, s
    <3>2. \A k \in 1 .. n : Parents(g, name)[k] = Parents(h, name)[k]
      BY <2>1, <2>3, <3>1, WalksElsewhere
    <3> QED  BY <2>1, <3>2 DEF FindParent
  <2> HIDE DEF h, o, s, g
  <2>5. Holder(g, o, s) = Holder(g, q, s)
    BY <2>1, <2>3, HolderUnfolds
  <2>6. Has(g, o, s) <=> q # Nowhere /\ Has(h, q, s)
    <3>1. CASE q = Nowhere
      BY <2>3, <2>5, <3>1, HolderUnfolds DEF Has
    <3>2. CASE q # Nowhere
      <4>1. q \in Objects(h) /\ <<o, s>> \notin Consulted(h, q, s)
        BY <2>1, <3>2, SlotFacts, LooksUpwards
      <4>2. Has(g, q, s) <=> Has(h, q, s)
        BY <2>1, <2>3, <4>1, LookedUpElsewhere
      <4> QED  BY <2>5, <3>2, <4>2 DEF Has
    <3> QED  BY <3>1, <3>2
  <2>7. Exists(g, name) <=> Has(g, o, s)
    BY <2>1, <2>4 DEF Exists, s
  <2> QED  BY <2>2, <2>6, <2>7 DEF h, o, s
<1>2. PathInv => RemoveThenExists
  BY <1>1 DEF RemoveThenExists
<1> QED  BY <1>2, PathAlways, PTL

\* set and remove change the meaning of a name only if reading it looks at the
\* one slot that they wrote: they create no parents and reach into no prototype
\* (set, remove and find_parent, pl_v8.cc).
THEOREM OnlyReadersAreChanged == Spec => []OnlyReadersChange
<1>1. ASSUME PathInv, NEW name \in Names, NEW g, g # heap,
             g = RemoveName(heap, name) \/ \E l \in Leaves : g = SetName(heap, name, Leaf(l)),
             NEW other \in PlainNames,
             <<FindParent(heap, name), Last(name)>> \notin Reads(heap, other)
      PROVE  /\ Exists(g, other) = Exists(heap, other)
             /\ Value(g, other) = Value(heap, other)
  <2> DEFINE h == heap
             o == FindParent(h, name)
             s == Last(name)
  <2>1. HeapOK(h) /\ other \in Names
    BY <1>1 DEF PathInv, PlainNames
  <2>2. o # Nowhere
    BY <1>1 DEF SetName, RemoveName
  <2>3. o \in Objects(h) /\ s \in Slots
    BY <2>1, <2>2, FoundFacts
  <2>4. g = Drop(h, o, s) \/ \E l \in Leaves : g = Put(h, o, s, Leaf(l))
    BY <1>1, <2>2 DEF SetName, RemoveName
  <2> HIDE DEF o, s
  <2>5. HeapOK(g) /\ SameBut(h, g, o, s)
    BY <2>1, <2>3, <2>4, PutFacts, DropFacts, SetValues
  <2>6. (Exists(g, other) <=> Exists(h, other)) /\ Value(g, other) = Value(h, other)
    <3>1. <<o, s>> \notin Reads(h, other)
      BY <1>1 DEF o, s
    <3> HIDE DEF h
    <3> QED  BY <2>1, <2>5, <3>1, MeansElsewhere
  <2>7. Exists(g, other) \in BOOLEAN /\ Exists(h, other) \in BOOLEAN
    BY DEF Exists
  <2> QED  BY <2>6, <2>7
<1>2. PathInv => OnlyReadersChange
  <2> SUFFICES ASSUME PathInv PROVE OnlyReadersChange
    OBVIOUS
  <2> DEFINE changed(name) == {RemoveName(heap, name)} \cup
                              {SetName(heap, name, Leaf(l)) : l \in Leaves}
             changes == UNION {{<<FindParent(heap, name), Last(name)>>} \X (changed(name) \ {heap}) :
                                  name \in Names}
  <2>1. ASSUME NEW other \in PlainNames, NEW c \in changes, c[1] \notin Reads(heap, other)
        PROVE  /\ Exists(c[2], other) = Exists(heap, other)
               /\ Value(c[2], other) = Value(heap, other)
    <3>1. PICK name \in Names :
              c \in {<<FindParent(heap, name), Last(name)>>} \X (changed(name) \ {heap})
      OBVIOUS
    <3>2. c[1] = <<FindParent(heap, name), Last(name)>> /\ c[2] \in changed(name) \ {heap}
      BY <3>1
    <3>3. PICK g : g = c[2]
      OBVIOUS
    <3>4. /\ g # heap
          /\ g = RemoveName(heap, name) \/ \E l \in Leaves : g = SetName(heap, name, Leaf(l))
          /\ <<FindParent(heap, name), Last(name)>> \notin Reads(heap, other)
      BY <2>1, <3>2, <3>3
    <3>5. Exists(g, other) = Exists(heap, other) /\ Value(g, other) = Value(heap, other)
      BY <1>1, <3>4
    <3> QED  BY <3>3, <3>5
  <2> QED  BY <2>1 DEF OnlyReadersChange
<1> QED  BY <1>2, PathAlways, PTL

\* A set whose value is fetched from Perl writes where its name led when set
\* was called, whatever scripts have done to the heap meanwhile (set and
\* pl_perl_to_v8, pl_v8.cc).
THEOREM SetsLandWhereAsked == Spec => SetLandsWhereAsked
<1> DEFINE name == setting.name
           o == FindParent(heap, name)
           s == Last(name)
           Lands == Fetching /\ ~ Fetching' =>
               IF o = setting.parent
               THEN Writable(heap, o, s) /\ Aside(heap, name)
                        => Value(heap', name) = setting.value
               ELSE <<setting.parent, s>> \notin Reads(heap, name)
                        => /\ Exists(heap', name) = Exists(heap, name)
                           /\ Value(heap', name) = Value(heap, name)
<1>1. ASSUME PathInv, PathInv', [Next]_vars, Fetching, ~ Fetching' PROVE SetFetched
  <2>1. ASSUME Change PROVE FALSE
    <3>1. setting \in SettingType
      BY <1>1 DEF PathInv
    <3>2. setting.left \in Nat /\ setting.left # 0 /\ setting'.left = setting.left - 1
      BY <1>1, <2>1, <3>1 DEF Change, SettingType
    <3>3. setting'.left # -1
      BY <3>2
    <3>4. setting' = NotSetting
      BY <1>1 DEF Fetching
    <3> QED  BY <3>3, <3>4 DEF NotSetting
  <2>2. ASSUME UNCHANGED vars PROVE FALSE
    BY <1>1, <2>2 DEF vars, Fetching
  <2>3. ASSUME NEW tied \in TiedNames, SetTied(tied) PROVE FALSE
    BY <1>1, <2>3 DEF SetTied
  <2> QED  BY <1>1, <2>1, <2>2, <2>3 DEF Next
<1>2. ASSUME PathInv, PathInv', SetFetched PROVE Lands
  <2>1. /\ HeapOK(heap) /\ HeapOK(heap') /\ name \in Names /\ s \in Slots
        /\ setting.parent \in Objects(heap)
        /\ setting.value \in ValueType(Objects(heap))
        /\ heap' = Put(heap, setting.parent, s, setting.value)
    BY <1>2, SetValues DEF SetFetched, PathInv, SettingType
  <2>2. PICK p, v : p = setting.parent /\ v = setting.value
    OBVIOUS
  <2>3. PICK n : n = name
    OBVIOUS
  <2>4. PICK g : g = heap'
    OBVIOUS
  <2>5. SameBut(heap, g, p, s)
    <3> HIDE DEF s
    <3> QED  BY <2>1, <2>2, <2>4, PutFacts
  <2>6. CASE o = p
    <3>1. o # Nowhere
      BY <2>1, <2>2, <2>6, SlotFacts
    <3>2. g = SetName(heap, n, v)
      BY <2>1, <2>2, <2>3, <2>4, <2>6, <3>1 DEF SetName
    <3>3. Writable(heap, o, s) /\ Aside(heap, n) => Value(g, n) = v
      BY <2>1, <2>2, <2>3, <3>1, <3>2, SetFinds
    <3> QED  BY <2>2, <2>3, <2>4, <2>6, <3>3
  <2>7. CASE o # p
    <3>1. <<p, s>> \notin Reads(heap, n) =>
              (Exists(g, n) <=> Exists(heap, n)) /\ Value(g, n) = Value(heap, n)
      <4> HIDE DEF s
      <4> QED  BY <2>1, <2>3, <2>4, <2>5, MeansElsewhere
    <3>2. Exists(g, n) \in BOOLEAN /\ Exists(heap, n) \in BOOLEAN
      BY DEF Exists
    <3>3. <<p, s>> \notin Reads(heap, n) =>
              Exists(g, n) = Exists(heap, n) /\ Value(g, n) = Value(heap, n)
      BY <3>1, <3>2
    <3> QED  BY <2>2, <2>3, <2>4, <2>7, <3>3
  <2> QED  BY <2>6, <2>7
<1>3. PathInv /\ PathInv' /\ [Next]_vars => [Lands]_vars
  BY <1>1, <1>2
<1> HIDE DEF Lands
<1>4. Spec => [][Lands]_vars
  BY <1>3, PathAlways, PTL DEF Spec
<1> QED  BY <1>4 DEF SetLandsWhereAsked, Lands
----------------------------------------------------------------------------
(* instanceof. *)

\* The heap in which Root alone has slots, and has them all.
Fresh(h) ==
    [h EXCEPT !.own = [o \in Objects(h) |->
        IF o = Root THEN [s \in Slots |-> [value |-> Leaf(Undefined), fixed |-> TRUE]]
        ELSE <<>>]]

\* It is a heap like any other.
LEMMA FreshFacts ==
    ASSUME NEW h, HeapOK(h)
    PROVE  /\ HeapOK(Fresh(h)) /\ Objects(Fresh(h)) = Objects(h)
           /\ Fresh(h).proto = h.proto
           /\ \A o \in Objects(h) \ {Root} : DOMAIN Fresh(h).own[o] = {}
           /\ DOMAIN Fresh(h).own[Root] = Slots
<1> DEFINE O == Objects(h)
           T == OwnType(O)
           all == [s \in Slots |-> [value |-> Leaf(Undefined), fixed |-> TRUE]]
           own == [o \in O |-> IF o = Root THEN all ELSE <<>>]
           g == Fresh(h)
<1>1. /\ h \in [own : [O -> T], proto : [O -> O \cup {Nowhere}], frozen : SUBSET O]
      /\ Root \in O
  BY DEF HeapOK, HeapOf
<1>2. all \in T /\ DOMAIN all = Slots
  <2>1. Leaf(Undefined) \in ValueType(O)
    BY DEF ValueType, Leaf, Anything
  <2>2. [value |-> Leaf(Undefined), fixed |-> TRUE] \in SlotType(O)
    BY <2>1 DEF SlotType
  <2>3. all \in [Slots -> SlotType(O)]
    BY <2>2
  <2> QED  BY <2>3 DEF OwnType
<1>3. <<>> \in T
  BY NoSlots
<1> HIDE DEF T, all
<1>4. own \in [O -> T]
  BY <1>2, <1>3
<1>5. g = [h EXCEPT !.own = own]
  BY DEF Fresh, all
<1>6. /\ own[Root] = all /\ \A o \in O \ {Root} : own[o] = <<>>
  BY <1>1
<1> HIDE DEF own, g
<1>7. /\ g \in [own : [O -> T], proto : [O -> O \cup {Nowhere}], frozen : SUBSET O]
      /\ g.proto = h.proto /\ g.own = own
  BY <1>1, <1>4, <1>5
<1>8. Objects(g) = O
  BY <1>4, <1>7 DEF Objects
<1>9. HeapOK(g)
  BY <1>7, <1>8 DEF HeapOK, HeapOf, T
<1>10. DOMAIN <<>> = {}
  OBVIOUS
<1> QED  BY <1>2, <1>6, <1>7, <1>8, <1>9, <1>10 DEF g

\* In that heap an object other than Root has a slot exactly if Root is an
\* ancestor.
LEMMA FreshInherits ==
    ASSUME NEW h, HeapOK(h), NEW o \in Objects(h), NEW s \in Slots
    PROVE  Root \in Ancestors(h, o) <=> o # Root /\ Has(Fresh(h), o, s)
<1> DEFINE g == Fresh(h)
           S == {p \in Places(h) :
                    p # Nowhere =>
                       (Root \in Ancestors(h, p) <=> p # Root /\ Holder(g, p, s) # Nowhere)}
<1>1. /\ HeapOK(g) /\ Objects(g) = Objects(h) /\ g.proto = h.proto
      /\ \A p \in Objects(h) \ {Root} : DOMAIN g.own[p] = {}
      /\ DOMAIN g.own[Root] = Slots
  BY FreshFacts
<1>2. h.proto[Root] = Nowhere /\ Root \in Objects(h) /\ Nowhere \notin Objects(h)
  BY DEF HeapOK, HeapOf
<1> HIDE DEF g
<1>3. Nowhere \in S
  BY DEF Places
<1>4. ASSUME NEW p \in Objects(h), h.proto[p] \in S PROVE p \in S
  <2> DEFINE q == h.proto[p]
  <2>1. q \in Objects(h) \cup {Nowhere} /\ p # Nowhere
    BY SlotFacts
  <2>2. Ancestors(h, p) = IF q = Nowhere THEN {} ELSE {q} \cup Ancestors(h, q)
    BY AncestorsUnfold
  <2>3. CASE p = Root
    BY <1>2, <2>2, <2>3 DEF Places
  <2>4. CASE p # Root
    <3>1. Holder(g, p, s) = Holder(g, q, s)
      <4>1. p \in Objects(g) /\ s \notin DOMAIN g.own[p]
        BY <1>1, <2>4
      <4> QED  BY <1>1, <4>1, HolderUnfolds
    <3>2. CASE q = Nowhere
      <4>1. Holder(g, p, s) = Nowhere
        BY <1>1, <3>1, <3>2, HolderUnfolds
      <4> QED  BY <2>2, <3>2, <4>1 DEF Places
    <3>3. CASE q = Root
      <4>1. Holder(g, q, s) = Root
        BY <1>1, <1>2, <3>3, HolderUnfolds
      <4>2. Root \in Ancestors(h, p)
        BY <1>2, <2>2, <3>3
      <4> QED  BY <1>2, <2>4, <3>1, <4>1, <4>2 DEF Places
    <3>4. CASE q # Nowhere /\ q # Root
      <4>1. Root \in Ancestors(h, q) <=> Holder(g, q, s) # Nowhere
        BY <1>4, <3>4
      <4>2. Root \in Ancestors(h, p) <=> Root \in Ancestors(h, q)
        BY <2>2, <3>4
      <4> QED  BY <2>4, <3>1, <4>1, <4>2 DEF Places
    <3> QED  BY <3>2, <3>3, <3>4
  <2> QED  BY <2>3, <2>4
<1>5. o \in S
  <2> HIDE DEF S
  <2>1. Objects(h) \subseteq S
    BY <1>3, <1>4, PrototypeInduction
  <2> QED  BY <2>1
<1>6. o # Nowhere
  BY SlotFacts
<1> QED  BY <1>5, <1>6 DEF Has, g

\* instanceof says yes to an object exactly if it inherits from the class's
\* prototype, at any length of the chain (instanceof, pl_v8.cc).
THEOREM InstancesInherit == Spec => []InstanceOfInherits
<1>1. ASSUME HeapOK(heap), NEW oname \in Names, NEW cname \in Names,
             Exists(heap, cname), Value(heap, cname) = Ref(Function)
      PROVE  InstanceOf(heap, oname, cname) = "yes" <=>
                 /\ IsRef(Value(heap, oname)) /\ Value(heap, oname).to # Root
                 /\ \A s \in Slots : Has(Fresh(heap), Value(heap, oname).to, s)
  <2> DEFINE v == Value(heap, oname)
  <2>1. CASE ~ Exists(heap, oname)
    <3>1. ~ IsRef(v)
      BY <2>1, Kinds DEF Value
    <3> QED  BY <2>1, <3>1 DEF InstanceOf
  <2>2. CASE Exists(heap, oname)
    <3>1. FindParent(heap, oname) \in Objects(heap)
      BY <1>1, <2>2, FoundFacts DEF Exists
    <3>2. v \in ValueType(Objects(heap))
      BY <1>1, <2>2, <3>1, HeldFacts DEF Exists, Value
    <3>3. PICK s \in Slots : TRUE
      BY <1>1, FoundFacts DEF Exists
    <3> HIDE DEF v
    <3>4. IsRef(v) => v.to \in Objects(heap)
      BY <3>2, Values
    <3>5. IsRef(v) =>
             \A t \in Slots : Root \in Ancestors(heap, v.to)
                                  <=> v.to # Root /\ Has(Fresh(heap), v.to, t)
      BY <1>1, <3>4, FreshInherits
    <3>6. InstanceOf(heap, oname, cname) = "yes" <=>
              IsRef(v) /\ Root \in Ancestors(heap, v.to)
      BY <1>1, <2>2 DEF InstanceOf, v
    <3>7. IsRef(v) /\ Root \in Ancestors(heap, v.to) <=>
              IsRef(v) /\ v.to # Root /\ \A t \in Slots : Has(Fresh(heap), v.to, t)
      BY <3>3, <3>5
    <3> QED  BY <3>6, <3>7 DEF v
  <2> QED  BY <2>1, <2>2
<1>2. PathInv => InstanceOfInherits
  BY <1>1 DEF PathInv, InstanceOfInherits, Fresh
<1> QED  BY <1>2, PathAlways, PTL
=============================================================================
