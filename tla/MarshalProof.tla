---------------------------- MODULE MarshalProof ----------------------------
(***************************************************************************)
(* Proofs about the conversions of Marshal, and the text of ConsoleText,   *)
(* for every graph of Perl data, however large, shared or cyclic, and for  *)
(* every width of the numbers.                                             *)
(***************************************************************************)
EXTENDS ConsoleText, SequenceLemmas
----------------------------------------------------------------------------
(* Heaps: sequences of containers of any kind. *)

Heap(s) == s \in Seq(ToSet(s))

\* Every sequence is one of its own elements.
LEMMA HeapOf ==
    ASSUME NEW n \in Nat, NEW s, s = [i \in 1 .. n |-> s[i]]
    PROVE  Heap(s) /\ Len(s) = n /\ DOMAIN s = 1 .. n
<1>1. DOMAIN s = 1 .. n
  OBVIOUS
<1>2. \A i \in 1 .. n : s[i] \in ToSet(s)
  BY <1>1 DEF ToSet
<1> DEFINE T == ToSet(s)
<1> HIDE DEF T
<1>3. s \in [1 .. n -> T]
  BY <1>2 DEF T
<1>4. s \in Seq(T)
  BY <1>3, SeqDef
<1>5. Len(s) = n
  <2>1. Len(s) \in Nat /\ DOMAIN s = 1 .. Len(s)
    BY <1>4, LenProperties
  <2> QED  BY <1>1, <2>1
<1> QED  BY <1>1, <1>4, <1>5 DEF Heap, T

\* Making a container adds it at the end.
LEMMA Makes ==
    ASSUME NEW s, Heap(s), NEW e
    PROVE  /\ Heap(Append(s, e)) /\ Len(s) \in Nat /\ DOMAIN s = 1 .. Len(s)
           /\ DOMAIN Append(s, e) = 1 .. Len(s) + 1
           /\ Len(Append(s, e)) = Len(s) + 1
<1> DEFINE T == ToSet(s) \cup {e}
           t == Append(s, e)
           n == Len(s) + 1
<1> HIDE DEF T
<1>1. s \in Seq(ToSet(s)) /\ ToSet(s) \subseteq T /\ e \in T
  BY DEF Heap, T
<1>2. s \in Seq(T)
  BY <1>1, SeqMonotonic
<1>3. Len(s) \in Nat /\ DOMAIN s = 1 .. Len(s)
  BY <1>2, LenProperties
<1>4. t \in Seq(T) /\ Len(t) = n
  BY <1>1, <1>2, AppendProperties
<1>5. n \in Nat /\ t \in [1 .. n -> T]
  BY <1>3, <1>4, LenProperties
<1> HIDE DEF t
<1>6. t = [i \in 1 .. n |-> t[i]]
  BY <1>5
<1> HIDE DEF n
<1>7. Heap(t) /\ DOMAIN t = 1 .. n
  BY <1>5, <1>6, HeapOf
<1> QED  BY <1>3, <1>4, <1>7 DEF t, n

\* Storing a value in the container being filled makes and removes none.
LEMMA Fills ==
    ASSUME NEW s, Heap(s), NEW fs, NEW v
    PROVE  Heap(Filled(s, fs, v)) /\ DOMAIN Filled(s, fs, v) = DOMAIN s
<1> DEFINE t == Filled(s, fs, v)
<1>1. Len(s) \in Nat /\ DOMAIN s = 1 .. Len(s) /\ s = [i \in 1 .. Len(s) |-> s[i]]
  BY LenProperties DEF Heap
<1>2. t = [i \in 1 .. Len(s) |-> t[i]]
  <2>1. CASE fs = <<>>
    BY <1>1, <2>1 DEF Filled
  <2>2. CASE fs # <<>>
    <3>1. t = [s EXCEPT ![Last(fs).image].elems = Append(@, v)]
      BY <2>2 DEF Filled
    <3> HIDE DEF t
    <3>2. \A k, e : [s EXCEPT ![k] = e]
                       = [i \in 1 .. Len(s) |-> [s EXCEPT ![k] = e][i]]
      BY <1>1
    <3> QED  BY <3>1, <3>2
  <2> QED  BY <2>1, <2>2
<1> HIDE DEF t
<1>3. Heap(t) /\ DOMAIN t = 1 .. Len(s)
  BY <1>1, <1>2, HeapOf
<1> QED  BY <1>1, <1>3 DEF t
----------------------------------------------------------------------------
(* Types. *)

\* A container that is being filled: its node is one of the source, or of js.
Entry == [node : (DOMAIN source.nodes) \cup Nat, image : Nat, next : Nat]

HeapInv ==
    /\ TypeOK
    /\ Heap(js) /\ Heap(perl)
    /\ stack \in Seq(Entry)

\* A container that is opened joins those being filled, and what was seen.
LEMMA Pushes ==
    ASSUME stack \in Seq(Entry), source' = source,
           NEW n \in (DOMAIN source.nodes) \cup Nat, NEW k \in Nat, NEW R,
           \A i \in DOMAIN stack : <<stack[i].node, stack[i].image>> \in R,
           stack' = Append(stack, [node |-> n, image |-> k, next |-> 1])
    PROVE  /\ stack' \in Seq(Entry')
           /\ \A i \in DOMAIN stack' :
                 <<stack'[i].node, stack'[i].image>> \in R \cup {<<n, k>>}
<1> DEFINE e == [node |-> n, image |-> k, next |-> 1]
<1>1. e \in Entry /\ Entry' = Entry
  BY DEF Entry
<1>2. Len(stack) \in Nat /\ DOMAIN stack = 1 .. Len(stack)
  BY LenProperties
<1> DEFINE E == Entry
<1>3. E' = E
  BY <1>1
<1> HIDE DEF e, E
<1>4. stack \in Seq(E) /\ e \in E /\ stack' = Append(stack, e)
  BY <1>1 DEF e, E
<1>5. /\ stack' \in Seq(E) /\ Len(stack') = Len(stack) + 1
      /\ \A i \in 1 .. Len(stack) : stack'[i] = stack[i]
      /\ stack'[Len(stack) + 1] = e
  BY <1>4, AppendProperties
<1>6. DOMAIN stack' = 1 .. Len(stack) + 1
  BY <1>5, LenProperties
<1>7. e.node = n /\ e.image = k
  BY DEF e
<1>8. \A i \in DOMAIN stack' : <<stack'[i].node, stack'[i].image>> \in R \cup {<<n, k>>}
  <2> SUFFICES ASSUME NEW i \in 1 .. Len(stack) + 1
               PROVE  <<stack'[i].node, stack'[i].image>> \in R \cup {<<n, k>>}
    BY <1>6
  <2>1. CASE i \in 1 .. Len(stack)
    <3>1. stack'[i] = stack[i] /\ i \in DOMAIN stack
      BY <1>2, <1>5, <2>1
    <3> QED  BY <3>1
  <2>2. CASE i = Len(stack) + 1
    <3>1. stack'[i] = e
      BY <1>5, <2>2
    <3> QED  BY <1>7, <3>1
  <2>3. \A m \in Nat : \A j \in 1 .. m + 1 : j \in 1 .. m \/ j = m + 1
    OBVIOUS
  <2> QED  BY <1>2, <2>1, <2>2, <2>3
<1> QED  BY <1>3, <1>5, <1>8 DEF E

\* Before the first conversion both images are empty.
LEMMA HeapInit == TextInit => HeapInv
<1> SUFFICES ASSUME TextInit PROVE HeapInv
  OBVIOUS
<1>1. /\ phase = "to_js" /\ js = <<>> /\ perl = <<>> /\ p2j = {} /\ j2p = {}
      /\ stack = <<>>
  BY DEF TextInit, Init
<1>2. Heap(<<>>)
  BY EmptySeq DEF Heap
<1>3. DOMAIN stack = {}
  BY <1>1
<1>4. TypeOK
  BY <1>1, <1>3 DEF TypeOK
<1> QED  BY <1>1, <1>2, <1>4, EmptySeq DEF HeapInv

\* A heap is left alone, but for a value stored in the container being filled.
Stored ==
    /\ js' = js \/ \E v : js' = Filled(js, stack', v)
    /\ perl' = perl \/ \E v : perl' = Filled(perl, stack', v)

\* What was seen is kept, and the containers being filled, unless a conversion
\* is over.
Settled ==
    /\ UNCHANGED <<source, p2j, j2p>>
    /\ \/ UNCHANGED <<stack, phase>>
       \/ stack' = <<>> /\ phase' \in {"to_perl", "done", "released", "log"}

\* The steps that neither open nor close a container, nor go on to its next
\* element: values are converted, stored, returned and released.
LEMMA PlainStep ==
    ASSUME HeapInv, Settled, Stored
    PROVE  HeapInv'
<1>1. Heap(js') /\ DOMAIN js' = DOMAIN js
  BY Fills DEF HeapInv, Stored
<1>2. Heap(perl') /\ DOMAIN perl' = DOMAIN perl
  BY Fills DEF HeapInv, Stored
<1>3. stack' \in Seq(Entry') /\ Entry' = Entry
  BY EmptySeq DEF HeapInv, Entry, Settled
<1>4. TypeOK'
  <2>1. p2j' \subseteq (DOMAIN source'.nodes) \X (DOMAIN js')
    BY <1>1 DEF HeapInv, TypeOK, Settled
  <2>2. j2p' \subseteq (DOMAIN js') \X (DOMAIN perl')
    BY <1>1, <1>2 DEF HeapInv, TypeOK, Settled
  <2>3. phase' \in {"to_js", "to_perl", "done", "released", "log"}
    BY DEF HeapInv, TypeOK, Settled
  <2>4. \A i \in DOMAIN stack' : <<stack'[i].node, stack'[i].image>>
                                    \in (IF phase' = "to_js" THEN p2j' ELSE j2p')
    <3>1. CASE stack' = stack /\ phase' = phase
      BY <3>1 DEF HeapInv, TypeOK, Settled
    <3>2. CASE stack' = <<>>
      BY <3>2
    <3> QED  BY <3>1, <3>2 DEF Settled
  <2> QED  BY <2>1, <2>2, <2>3, <2>4 DEF TypeOK
<1> QED  BY <1>1, <1>2, <1>3, <1>4 DEF HeapInv

\* A container of Perl is opened: its image is made, and seen, before it is
\* filled.
LEMMA OpenStep ==
    ASSUME HeapInv, NEW n \in DOMAIN source.nodes, Open(n)
    PROVE  HeapInv'
<1> DEFINE e == [type |-> source.nodes[n].type, elems |-> <<>>]
           k == Len(js) + 1
<1>1. /\ phase = "to_js" /\ UNCHANGED <<source, phase, perl, j2p>>
      /\ js' = Append(js, e) /\ p2j' = p2j \cup {<<n, k>>}
      /\ stack' = Append(stack, [node |-> n, image |-> k, next |-> 1])
  BY DEF Open, ToJs
<1> HIDE DEF e
<1>2. /\ Heap(js') /\ Len(js) \in Nat /\ DOMAIN js = 1 .. Len(js)
      /\ DOMAIN js' = 1 .. k
  BY <1>1, Makes DEF HeapInv
<1>3. k \in Nat /\ DOMAIN js \subseteq DOMAIN js' /\ k \in DOMAIN js'
  BY <1>2
<1> HIDE DEF k
<1>4. \A i \in DOMAIN stack : <<stack[i].node, stack[i].image>> \in p2j
  BY <1>1 DEF HeapInv, TypeOK
<1>5. /\ stack' \in Seq(Entry')
      /\ \A i \in DOMAIN stack' :
            <<stack'[i].node, stack'[i].image>> \in p2j \cup {<<n, k>>}
  BY <1>1, <1>3, <1>4, Pushes DEF HeapInv
<1>6. TypeOK'
  <2>1. p2j' \subseteq (DOMAIN source'.nodes) \X (DOMAIN js')
    BY <1>1, <1>3 DEF HeapInv, TypeOK
  <2>2. j2p' \subseteq (DOMAIN js') \X (DOMAIN perl')
    BY <1>1, <1>3 DEF HeapInv, TypeOK
  <2> QED  BY <1>1, <1>5, <2>1, <2>2 DEF TypeOK
<1> QED  BY <1>1, <1>2, <1>5, <1>6 DEF HeapInv

\* So is one of JavaScript, whether the map missed it or not.
LEMMA OpenBackStep ==
    ASSUME HeapInv, NEW n \in DOMAIN js, OpenBack(n)
    PROVE  HeapInv'
<1> DEFINE e == [type |-> js[n].type, elems |-> <<>>]
           k == Len(perl) + 1
<1>1. /\ phase = "to_perl" /\ UNCHANGED <<source, phase, js, p2j>>
      /\ perl' = Append(perl, e) /\ j2p' = j2p \cup {<<n, k>>}
      /\ stack' = Append(stack, [node |-> n, image |-> k, next |-> 1])
  BY DEF OpenBack, ToPerl
<1> HIDE DEF e
<1>2. /\ Heap(perl') /\ Len(perl) \in Nat /\ DOMAIN perl = 1 .. Len(perl)
      /\ DOMAIN perl' = 1 .. k
  BY <1>1, Makes DEF HeapInv
<1>3. k \in Nat /\ DOMAIN perl \subseteq DOMAIN perl' /\ k \in DOMAIN perl'
  BY <1>2
<1>4. n \in Nat
  BY LenProperties DEF HeapInv, Heap
<1> HIDE DEF k
<1>5. \A i \in DOMAIN stack : <<stack[i].node, stack[i].image>> \in j2p
  BY <1>1 DEF HeapInv, TypeOK
<1>6. /\ stack' \in Seq(Entry')
      /\ \A i \in DOMAIN stack' :
            <<stack'[i].node, stack'[i].image>> \in j2p \cup {<<n, k>>}
  BY <1>1, <1>3, <1>4, <1>5, Pushes DEF HeapInv
<1>7. TypeOK'
  <2>1. p2j' \subseteq (DOMAIN source'.nodes) \X (DOMAIN js')
    BY <1>1 DEF HeapInv, TypeOK
  <2>2. j2p' \subseteq (DOMAIN js') \X (DOMAIN perl')
    BY <1>1, <1>3 DEF HeapInv, TypeOK
  <2> QED  BY <1>1, <1>6, <2>1, <2>2 DEF TypeOK
<1> QED  BY <1>1, <1>2, <1>6, <1>7 DEF HeapInv

\* The next element of the container being filled is taken.
LEMMA ElementStep == ASSUME HeapInv, Element PROVE HeapInv'
<1> DEFINE n == Len(stack)
           f == [stack[n] EXCEPT !.next = stack[n].next + 1]
<1>1. /\ stack # <<>> /\ stack' = [stack EXCEPT ![n] = f]
      /\ UNCHANGED <<source, phase, js, perl, p2j, j2p>>
  BY DEF Element, Filling
<1>2. n \in 1 .. n /\ DOMAIN stack = 1 .. n
  <2>1. n \in Nat \ {0} /\ DOMAIN stack = 1 .. n
    BY <1>1, EmptySeq, LenProperties DEF HeapInv
  <2> QED  BY <2>1
<1>3. stack[n] \in Entry
  BY <1>2, ElementOfSeq DEF HeapInv
<1> HIDE DEF n
<1>4. f \in Entry /\ f.node = stack[n].node /\ f.image = stack[n].image
  BY <1>3 DEF Entry
<1> HIDE DEF f
<1> DEFINE E == Entry
<1>5. E' = E
  BY <1>1 DEF Entry
<1> HIDE DEF E
<1>6. stack \in Seq(E) /\ f \in E
  BY <1>4 DEF E, HeapInv
<1>7. /\ stack' \in Seq(E) /\ Len(stack') = n
      /\ \A i \in 1 .. n : stack'[i] = IF i = n THEN f ELSE stack[i]
  BY <1>1, <1>2, <1>6, ExceptSeq DEF n
<1>8. DOMAIN stack' = 1 .. n
  BY <1>7, LenProperties
<1>9. \A i \in DOMAIN stack' : /\ stack'[i].node = stack[i].node
                               /\ stack'[i].image = stack[i].image
  BY <1>4, <1>7, <1>8
<1>10. TypeOK'
  BY <1>1, <1>2, <1>8, <1>9 DEF HeapInv, TypeOK
<1>11. stack' \in Seq(Entry')
  BY <1>5, <1>7 DEF E
<1> QED  BY <1>1, <1>10, <1>11 DEF HeapInv

\* A container is filled, and stored in the one below.
LEMMA CloseStep == ASSUME HeapInv, Close PROVE HeapInv'
<1>1. /\ stack # <<>> /\ stack' = Front(stack)
      /\ UNCHANGED <<source, phase, p2j, j2p>>
  BY DEF Close, Filling
<1>2. Heap(js') /\ DOMAIN js' = DOMAIN js
  BY Fills DEF HeapInv, Close
<1>3. Heap(perl') /\ DOMAIN perl' = DOMAIN perl
  BY Fills DEF HeapInv, Close
<1> DEFINE E == Entry
<1>4. E' = E
  BY <1>1 DEF Entry
<1> HIDE DEF E
<1>5. stack \in Seq(E)
  BY DEF E, HeapInv
<1>6. /\ stack' \in Seq(E) /\ Len(stack') = Len(stack) - 1
      /\ \A i \in 1 .. Len(stack) - 1 : stack'[i] = stack[i]
      /\ Len(stack) \in Nat \ {0}
  BY <1>1, <1>5, FrontFacts
<1>7. DOMAIN stack' = 1 .. Len(stack) - 1 /\ DOMAIN stack = 1 .. Len(stack)
  BY <1>5, <1>6, LenProperties
<1>8. DOMAIN stack' \subseteq DOMAIN stack
  BY <1>6, <1>7
<1>9. \A i \in DOMAIN stack' : stack'[i] = stack[i]
  BY <1>6, <1>7
<1>10. TypeOK'
  BY <1>1, <1>2, <1>3, <1>8, <1>9 DEF HeapInv, TypeOK
<1>11. stack' \in Seq(Entry')
  BY <1>4, <1>6 DEF E
<1> QED  BY <1>2, <1>3, <1>10, <1>11 DEF HeapInv

\* A sub makes a function of JavaScript, which is not recorded.
LEMMA CodeStep ==
    ASSUME HeapInv, NEW n \in DOMAIN source.nodes, ConvertCode(n)
    PROVE  HeapInv'
<1> DEFINE e == [type |-> "code", elems |-> <<[func |-> Len(func) + 1]>>]
           made == Append(js, e)
<1>1. /\ UNCHANGED <<source, phase, perl, p2j, j2p, stack>>
      /\ js' = Filled(made, stack, Ref(Len(made)))
  BY DEF ConvertCode, ToJs
<1> HIDE DEF e
<1>2. /\ Heap(made) /\ Len(js) \in Nat /\ DOMAIN js = 1 .. Len(js)
      /\ DOMAIN made = 1 .. Len(js) + 1
  BY Makes DEF HeapInv
<1> HIDE DEF made
<1>3. Heap(js') /\ DOMAIN js' = DOMAIN made
  BY <1>1, <1>2, Fills
<1>4. DOMAIN js \subseteq DOMAIN js'
  BY <1>2, <1>3
<1>5. Entry' = Entry
  BY <1>1 DEF Entry
<1>6. TypeOK'
  <2>1. p2j' \subseteq (DOMAIN source'.nodes) \X (DOMAIN js')
    BY <1>1, <1>4 DEF HeapInv, TypeOK
  <2>2. j2p' \subseteq (DOMAIN js') \X (DOMAIN perl')
    BY <1>1, <1>4 DEF HeapInv, TypeOK
  <2> QED  BY <1>1, <2>1, <2>2 DEF HeapInv, TypeOK
<1> QED  BY <1>1, <1>3, <1>5, <1>6 DEF HeapInv

\* Every step of set, of get and of the console.
LEMMA HeapStep ==
    ASSUME HeapInv, [TextNext]_consoleVars
    PROVE  HeapInv'
<1>1. ASSUME NEW n \in DOMAIN source.nodes, Deref(n) \/ Reuse(n)
      PROVE  HeapInv'
  <2>1. Settled /\ Stored
    BY <1>1 DEF Deref, Reuse, ToJs, Settled, Stored
  <2> QED  BY <2>1, PlainStep
<1>2. ASSUME NEW n \in DOMAIN js, ConvertCodeBack(n) \/ ReuseBack(n)
      PROVE  HeapInv'
  <2>1. Settled /\ Stored
    BY <1>2 DEF ConvertCodeBack, ReuseBack, ToPerl, Settled, Stored
  <2> QED  BY <2>1, PlainStep
<1>3. CASE ConvertLeaf
  <2>1. Settled /\ Stored
    BY <1>3 DEF ConvertLeaf, Settled, Stored
  <2> QED  BY <2>1, PlainStep
<1>4. CASE ConvertLeafBack
  <2>1. Settled /\ Stored
    BY <1>4 DEF ConvertLeafBack, Settled, Stored
  <2> QED  BY <2>1, PlainStep
<1>5. CASE Get \/ Deliver \/ Log
  <2>1. Settled /\ Stored
    BY <1>5 DEF Get, Deliver, Log, Idle, Settled, Stored
  <2> QED  BY <2>1, PlainStep
<1>6. CASE Release
  <2>1. /\ UNCHANGED <<source, js, perl, p2j, j2p, stack>>
        /\ phase = "done" /\ phase' = "released"
    BY <1>6 DEF Release
  <2> QED  BY <2>1 DEF HeapInv, TypeOK, Heap, Entry
<1>7. CASE UNCHANGED vars
  <2>1. Settled /\ Stored
    BY <1>7 DEF vars, Settled, Stored
  <2> QED  BY <2>1, PlainStep
<1>8. CASE WriteValue \/ WriteEnd \/ UNCHANGED consoleVars
  BY <1>7, <1>8 DEF WriteValue, WriteEnd, consoleVars
<1>9. CASE Next
  BY <1>1, <1>2, <1>3, <1>4, <1>5, <1>6, <1>9,
     OpenStep, OpenBackStep, ElementStep, CloseStep, CodeStep DEF Next
<1> QED  BY <1>5, <1>8, <1>9 DEF TextNext

\* Whatever the graph, what was seen relates nodes of the source to objects of
\* JavaScript, and these to containers of Perl, that exist; and a container
\* is recorded as seen for as long as it is being filled.
THEOREM HeapsTyped == TextSpec => []TypeOK
<1>1. HeapInv => TypeOK
  BY DEF HeapInv
<1>2. HeapInv /\ [TextNext]_consoleVars => HeapInv'
  BY HeapStep
<1> QED  BY HeapInit, <1>1, <1>2, PTL DEF TextSpec
----------------------------------------------------------------------------
(* Sharing. *)

\* Only opening a container adds to what set has seen.
LEMMA OnlyOpenSees ==
    ASSUME [TextNext]_consoleVars, p2j' # p2j
    PROVE  \E n \in DOMAIN source.nodes : Open(n)
BY DEF TextNext, Next, consoleVars, vars, Deref, ConvertCode, Reuse,
       ConvertCodeBack, ReuseBack, OpenBack, ConvertLeaf, ConvertLeafBack,
       Element, Close, Get, Deliver, Release, Log, WriteValue, WriteEnd, ToPerl

\* The image of a container that is opened is new, and so is the container.
LEMMA SharingStep ==
    ASSUME HeapInv, SharingKept, [TextNext]_consoleVars
    PROVE  SharingKept'
<1>1. CASE p2j' = p2j
  BY <1>1 DEF SharingKept
<1>2. CASE p2j' # p2j
  <2>1. PICK n \in DOMAIN source.nodes : Open(n)
    BY <1>2, OnlyOpenSees
  <2> DEFINE k == Len(js) + 1
  <2>2. p2j' = p2j \cup {<<n, k>>} /\ ~ Has(p2j, n)
    BY <2>1 DEF Open
  <2>3. Len(js) \in Nat /\ DOMAIN js = 1 .. Len(js)
    BY LenProperties DEF HeapInv, Heap
  <2>4. k \notin DOMAIN js
    BY <2>3
  <2> HIDE DEF k
  <2>5. \A p \in p2j : p[1] # n /\ p[2] # k
    BY <2>2, <2>4 DEF HeapInv, TypeOK, Has
  <2> SUFFICES ASSUME NEW p \in p2j \cup {<<n, k>>}, NEW q \in p2j \cup {<<n, k>>}
               PROVE  p[1] = q[1] <=> p[2] = q[2]
    BY <2>2 DEF SharingKept
  <2>6. CASE p \in p2j /\ q \in p2j
    BY <2>6 DEF SharingKept
  <2>7. CASE p = <<n, k>> /\ q = <<n, k>>
    BY <2>7
  <2>8. CASE p \in p2j /\ q = <<n, k>>
    BY <2>5, <2>8
  <2>9. CASE q \in p2j /\ p = <<n, k>>
    BY <2>5, <2>9
  <2> QED  BY <2>6, <2>7, <2>8, <2>9
<1> QED  BY <1>1, <1>2

\* set keeps sharing and cycles, whatever the graph: it makes one object of
\* JavaScript for each container of Perl that it reaches, however often, and
\* none stands for two of them.
THEOREM SharingIsKept == TextSpec => []SharingKept
<1>1. TextInit => HeapInv /\ SharingKept
  BY HeapInit DEF TextInit, Init, SharingKept
<1>2. HeapInv /\ SharingKept /\ [TextNext]_consoleVars => HeapInv' /\ SharingKept'
  BY HeapStep, SharingStep
<1> QED  BY <1>1, <1>2, PTL DEF TextSpec
----------------------------------------------------------------------------
(* A conversion as a walk: of the graph from, building the containers onto. *)
(* M relates a value to what it may become, T to the container to which it  *)
(* leads.  While idle is FALSE the value wait is being converted.           *)

Box(e) == e = [type |-> e.type, elems |-> e.elems]
IsFrame(f) == f = [node |-> f.node, image |-> f.image, next |-> f.next]

\* b holds what the first n values of a may become.
Prefix(a, b, n, M) ==
    /\ Heap(a) /\ Heap(b) /\ n \in 0 .. Len(a) /\ Len(b) = n
    /\ \A j \in 1 .. n : a[j] # Hole /\ <<a[j], b[j]>> \in M

Shape(from, onto, met, stk) ==
    /\ Heap(onto) /\ Heap(stk)
    /\ \A k \in DOMAIN onto : Box(onto[k])
    /\ \A p \in met : /\ p = <<p[1], p[2]>> /\ p[2] \in DOMAIN onto
                       /\ from[p[1]].type \in Containers
                       /\ onto[p[2]].type = from[p[1]].type
    /\ \A p, q \in met : p[2] = q[2] => p[1] = q[1]
    /\ \A i \in DOMAIN stk : /\ IsFrame(stk[i]) /\ stk[i].next \in Nat \ {0}
                             /\ <<stk[i].node, stk[i].image>> \in met
    /\ \A i, j \in DOMAIN stk : stk[i].image = stk[j].image => i = j

\* The container on top is between two values.
Rests(from, onto, f, M) ==
    Prefix(from[f.node].elems, onto[f.image].elems, f.next - 1, M)

\* One of the values of a container is being converted.
Busy(from, onto, f, M) ==
    /\ Prefix(from[f.node].elems, onto[f.image].elems, f.next - 2, M)
    /\ f.next - 1 \in 1 .. Len(from[f.node].elems)
    /\ from[f.node].elems[f.next - 1] # Hole

InFlight(from, f) == from[f.node].elems[f.next - 1]

Frames(from, onto, stk, idle, wait, M, T) ==
    \A i \in DOMAIN stk :
        IF i = Len(stk)
        THEN IF idle THEN Rests(from, onto, stk[i], M)
             ELSE Busy(from, onto, stk[i], M) /\ InFlight(from, stk[i]) = wait
        ELSE Busy(from, onto, stk[i], M) /\ <<InFlight(from, stk[i]), stk[i + 1].node>> \in T

AtRoot(stk, idle, wait, root, res, M, T) ==
    IF stk = <<>> THEN IF idle THEN <<root, res>> \in M ELSE wait = root
    ELSE <<root, stk[1].node>> \in T

\* A container is complete up to its first hole.
Complete(a, b, M) == \E n \in Nat : Prefix(a, b, n, M) /\ (n < Len(a) => a[n + 1] = Hole)

Closed(from, onto, met, stk, M) ==
    \A p \in met : (\A i \in DOMAIN stk : stk[i].image # p[2]) =>
        Complete(from[p[1]].elems, onto[p[2]].elems, M)

Walk(from, onto, met, stk, idle, wait, root, res, M, T) ==
    /\ Shape(from, onto, met, stk)
    /\ Frames(from, onto, stk, idle, wait, M, T)
    /\ AtRoot(stk, idle, wait, root, res, M, T)
    /\ Closed(from, onto, met, stk, M)

\* Adding at the end keeps what is there.
LEMMA Adds ==
    ASSUME NEW s, Heap(s), NEW e
    PROVE  /\ Heap(Append(s, e)) /\ Len(s) \in Nat /\ DOMAIN s = 1 .. Len(s)
           /\ DOMAIN Append(s, e) = 1 .. Len(s) + 1
           /\ Len(Append(s, e)) = Len(s) + 1
           /\ \A i \in 1 .. Len(s) : Append(s, e)[i] = s[i]
           /\ Append(s, e)[Len(s) + 1] = e
<1> DEFINE T == ToSet(s) \cup {e}
<1> HIDE DEF T
<1>1. s \in Seq(ToSet(s)) /\ ToSet(s) \subseteq T /\ e \in T
  BY DEF Heap, T
<1>2. s \in Seq(T)
  BY <1>1, SeqMonotonic
<1> QED  BY <1>1, <1>2, Makes, AppendProperties

\* A value is added to one container.
LEMMA FillFacts ==
    ASSUME NEW s, Heap(s), \A i \in DOMAIN s : Box(s[i]), NEW fs, fs # <<>>,
           NEW k \in DOMAIN s, k = Last(fs).image, NEW v, NEW t, t = Filled(s, fs, v)
    PROVE  /\ Heap(t) /\ DOMAIN t = DOMAIN s /\ \A i \in DOMAIN t : Box(t[i])
           /\ \A i \in DOMAIN s : t[i].type = s[i].type
           /\ t[k].elems = Append(s[k].elems, v)
           /\ \A i \in DOMAIN s \ {k} : t[i] = s[i]
<1>1. Len(s) \in Nat /\ DOMAIN s = 1 .. Len(s) /\ s = [i \in 1 .. Len(s) |-> s[i]]
      /\ t = [s EXCEPT ![k].elems = Append(@, v)]
  BY LenProperties DEF Heap, Filled
<1>2. /\ DOMAIN t = DOMAIN s /\ t[k] = [s[k] EXCEPT !.elems = Append(@, v)]
      /\ \A i \in DOMAIN s \ {k} : t[i] = s[i]
      /\ t = [i \in 1 .. Len(s) |-> t[i]]
  BY <1>1
<1>3. t[k] = [type |-> s[k].type, elems |-> Append(s[k].elems, v)]
  <2>1. PICK x, b : s[k] = [type |-> x, elems |-> b]
    BY DEF Box
  <2>2. t[k] = [s[k] EXCEPT !.elems = Append(b, v)]
    BY <1>2, <2>1
  <2>3. [[type |-> x, elems |-> b] EXCEPT !.elems = Append(b, v)]
            = [type |-> x, elems |-> Append(b, v)]
    OBVIOUS
  <2> QED  BY <2>1, <2>2, <2>3
<1>4. Heap(t)
  BY <1>1, <1>2, HeapOf
<1>5. Box(t[k]) /\ t[k].type = s[k].type /\ t[k].elems = Append(s[k].elems, v)
  BY <1>3 DEF Box
<1> QED  BY <1>2, <1>4, <1>5

\* What may become of values only widens.
LEMMA PrefixWidens ==
    ASSUME NEW a, NEW b, NEW n, NEW M, NEW N, M \subseteq N
    PROVE  /\ Prefix(a, b, n, M) => Prefix(a, b, n, N)
           /\ Complete(a, b, M) => Complete(a, b, N)
BY DEF Prefix, Complete

\* One more value of a has been converted.
LEMMA PrefixGrows ==
    ASSUME NEW a, NEW b, NEW n, NEW M, Prefix(a, b, n, M), n + 1 \in 1 .. Len(a),
           a[n + 1] # Hole, NEW v, <<a[n + 1], v>> \in M
    PROVE  Prefix(a, Append(b, v), n + 1, M)
<1>1. n \in Nat /\ Len(b) = n /\ Heap(b) /\ Heap(a) /\ Len(a) \in Nat
  BY Adds DEF Prefix
<1>2. /\ Heap(Append(b, v)) /\ Len(Append(b, v)) = n + 1
      /\ \A i \in 1 .. n : Append(b, v)[i] = b[i]
      /\ Append(b, v)[n + 1] = v
  BY <1>1, Adds
<1> DEFINE c == Append(b, v)
<1> HIDE DEF c
<1>3. \A j \in 1 .. n + 1 : j = n + 1 \/ j \in 1 .. n
  BY <1>1
<1>4. \A j \in 1 .. n + 1 : a[j] # Hole /\ <<a[j], c[j]>> \in M
  BY <1>2, <1>3 DEF Prefix, c
<1>5. n + 1 \in 0 .. Len(a)
  BY <1>1
<1> QED  BY <1>1, <1>2, <1>4, <1>5 DEF Prefix, c

\* What is on the stack has been met, and is there.
LEMMA ShapeFacts ==
    ASSUME NEW from, NEW onto, NEW met, NEW stk, Shape(from, onto, met, stk)
    PROVE  /\ Len(onto) \in Nat /\ DOMAIN onto = 1 .. Len(onto)
           /\ Len(stk) \in Nat /\ DOMAIN stk = 1 .. Len(stk)
           /\ \A i \in DOMAIN stk :
                 /\ stk[i].image \in DOMAIN onto
                 /\ from[stk[i].node].type \in Containers
           /\ \A p \in met, i \in DOMAIN stk : stk[i].image = p[2] => stk[i].node = p[1]
<1>1. Heap(onto) /\ Heap(stk)
  BY DEF Shape
<1>2. ASSUME NEW i \in DOMAIN stk
      PROVE  stk[i].image \in DOMAIN onto /\ from[stk[i].node].type \in Containers
  <2>1. <<stk[i].node, stk[i].image>> \in met
    BY DEF Shape
  <2>2. PICK p \in met : p = <<stk[i].node, stk[i].image>>
    BY <2>1
  <2>3. p[1] = stk[i].node /\ p[2] = stk[i].image
    BY <2>2
  <2> QED  BY <2>3 DEF Shape
<1>3. ASSUME NEW p \in met, NEW i \in DOMAIN stk, stk[i].image = p[2]
      PROVE  stk[i].node = p[1]
  <2>1. PICK q \in met : q = <<stk[i].node, stk[i].image>>
    BY DEF Shape
  <2>2. q[1] = stk[i].node /\ q[2] = stk[i].image
    BY <2>1
  <2> QED  BY <1>3, <2>2 DEF Shape
<1> QED  BY <1>1, <1>2, <1>3, Adds

\* A walk does not see what is added to its containers elsewhere.
LEMMA WalkKept ==
    ASSUME NEW from, NEW onto, NEW met, NEW stk, NEW idle, NEW wait, NEW root, NEW res,
           NEW M, NEW T, Walk(from, onto, met, stk, idle, wait, root, res, M, T),
           NEW new, \A k \in DOMAIN onto : new[k] = onto[k],
           NEW N, M \subseteq N
    PROVE  /\ Frames(from, new, stk, idle, wait, N, T)
           /\ AtRoot(stk, idle, wait, root, res, N, T)
           /\ Closed(from, new, met, stk, N)
<1>1. Shape(from, onto, met, stk) /\ Frames(from, onto, stk, idle, wait, M, T)
      /\ AtRoot(stk, idle, wait, root, res, M, T) /\ Closed(from, onto, met, stk, M)
  BY DEF Walk
<1>2. ASSUME NEW i \in DOMAIN stk
      PROVE  /\ Rests(from, onto, stk[i], M) => Rests(from, new, stk[i], N)
             /\ Busy(from, onto, stk[i], M) => Busy(from, new, stk[i], N)
  <2>1. new[stk[i].image].elems = onto[stk[i].image].elems
    BY <1>1, ShapeFacts
  <2> QED  BY <2>1, PrefixWidens DEF Rests, Busy
<1>3. Frames(from, new, stk, idle, wait, N, T)
  <2> SUFFICES ASSUME NEW i \in DOMAIN stk
               PROVE  IF i = Len(stk)
                      THEN IF idle THEN Rests(from, new, stk[i], N)
                           ELSE Busy(from, new, stk[i], N) /\ InFlight(from, stk[i]) = wait
                      ELSE /\ Busy(from, new, stk[i], N)
                           /\ <<InFlight(from, stk[i]), stk[i + 1].node>> \in T
    BY DEF Frames
  <2> QED  BY <1>1, <1>2 DEF Frames
<1>4. AtRoot(stk, idle, wait, root, res, N, T)
  BY <1>1 DEF AtRoot
<1>5. Closed(from, new, met, stk, N)
  <2> SUFFICES ASSUME NEW p \in met, \A i \in DOMAIN stk : stk[i].image # p[2]
               PROVE  Complete(from[p[1]].elems, new[p[2]].elems, N)
    BY DEF Closed
  <2>1. new[p[2]].elems = onto[p[2]].elems
    BY <1>1 DEF Shape
  <2>2. Complete(from[p[1]].elems, onto[p[2]].elems, M)
    BY <1>1 DEF Closed
  <2> QED  BY <2>1, <2>2, PrefixWidens
<1> QED  BY <1>3, <1>4, <1>5

\* The last place of a sequence that holds anything is one of its places.
LEMMA HeapEnd ==
    ASSUME NEW s, Heap(s), s # <<>>
    PROVE  Len(s) # 0 /\ Len(s) \in Nat /\ DOMAIN s = 1 .. Len(s) /\ Len(s) \in DOMAIN s
<1>1. Len(s) # 0 /\ Len(s) \in Nat /\ DOMAIN s = 1 .. Len(s)
  BY EmptySeq, LenProperties DEF Heap
<1>2. \A n \in Nat : n # 0 => n \in 1 .. n
  OBVIOUS
<1> QED  BY ONLY <1>1, <1>2

\* Something that is no container is made.
LEMMA WalkGrows ==
    ASSUME NEW from, NEW onto, NEW met, NEW stk, NEW idle, NEW wait, NEW root, NEW res,
           NEW M, NEW T, Walk(from, onto, met, stk, idle, wait, root, res, M, T),
           NEW e, Box(e), NEW new, new = Append(onto, e), NEW N, M \subseteq N
    PROVE  Walk(from, new, met, stk, idle, wait, root, res, N, T)
<1>1. Shape(from, onto, met, stk)
  BY DEF Walk
<1>2. /\ Heap(new) /\ Len(onto) \in Nat /\ DOMAIN onto = 1 .. Len(onto)
      /\ DOMAIN new = 1 .. Len(onto) + 1
      /\ \A k \in 1 .. Len(onto) : new[k] = onto[k]
      /\ new[Len(onto) + 1] = e
  BY <1>1, Adds DEF Shape
<1>3. \A k \in DOMAIN new : k \in DOMAIN onto \/ k = Len(onto) + 1
  BY <1>2
<1>4. \A k \in DOMAIN onto : k \in DOMAIN new /\ new[k] = onto[k]
  BY <1>2
<1>5. Shape(from, new, met, stk)
  <2>1. \A k \in DOMAIN new : Box(new[k])
    BY ONLY <1>1, <1>2, <1>3, <1>4, Box(e) DEF Shape
  <2>2. \A p \in met : /\ p = <<p[1], p[2]>> /\ p[2] \in DOMAIN new
                        /\ from[p[1]].type \in Containers
                        /\ new[p[2]].type = from[p[1]].type
    BY ONLY <1>1, <1>4 DEF Shape
  <2>3. \A p, q \in met : p[2] = q[2] => p[1] = q[1]
    BY ONLY <1>1 DEF Shape
  <2> QED  BY ONLY <1>1, <1>2, <2>1, <2>2, <2>3 DEF Shape
<1>6. /\ Frames(from, new, stk, idle, wait, N, T)
      /\ AtRoot(stk, idle, wait, root, res, N, T)
      /\ Closed(from, new, met, stk, N)
  BY ONLY Walk(from, onto, met, stk, idle, wait, root, res, M, T), M \subseteq N,
          <1>4, WalkKept
<1> QED  BY ONLY <1>5, <1>6 DEF Walk

\* A container is opened for the value that was waiting.
LEMMA WalkOpens ==
    ASSUME NEW from, NEW onto, NEW met, NEW stk, NEW wait, NEW root, NEW res,
           NEW M, NEW T, Walk(from, onto, met, stk, FALSE, wait, root, res, M, T),
           NEW n, <<wait, n>> \in T, from[n].type \in Containers, Heap(from[n].elems),
           NEW k, k = Len(onto) + 1,
           NEW new, new = Append(onto, [type |-> from[n].type, elems |-> <<>>]),
           NEW more, more = Append(stk, [node |-> n, image |-> k, next |-> 1]),
           NEW N, M \subseteq N, NEW any
    PROVE  Walk(from, new, met \cup {<<n, k>>}, more, TRUE, any, root, res, N, T)
<1> DEFINE e == [type |-> from[n].type, elems |-> <<>>]
           f == [node |-> n, image |-> k, next |-> 1]
           seen2 == met \cup {<<n, k>>}
<1>1. /\ Shape(from, onto, met, stk)
      /\ Len(onto) \in Nat /\ DOMAIN onto = 1 .. Len(onto)
      /\ Len(stk) \in Nat /\ DOMAIN stk = 1 .. Len(stk)
  BY ShapeFacts DEF Walk
<1>2. /\ Heap(new) /\ DOMAIN new = 1 .. k
      /\ \A j \in 1 .. Len(onto) : new[j] = onto[j]
      /\ new[k] = e
  BY <1>1, Adds DEF Shape
<1>3. /\ Heap(more) /\ Len(more) = Len(stk) + 1 /\ DOMAIN more = 1 .. Len(stk) + 1
      /\ \A i \in 1 .. Len(stk) : more[i] = stk[i]
      /\ more[Len(stk) + 1] = f
  BY <1>1, Adds DEF Shape
<1>4. /\ k \notin DOMAIN onto
      /\ \A j \in DOMAIN new : j \in DOMAIN onto \/ j = k
      /\ \A j \in DOMAIN onto : j \in DOMAIN new /\ new[j] = onto[j]
      /\ k \in DOMAIN new
  BY <1>1, <1>2
<1>5. \A i \in DOMAIN more :
          \/ i \in DOMAIN stk /\ i # Len(stk) + 1 /\ more[i] = stk[i]
          \/ i = Len(stk) + 1 /\ more[i] = f
  BY <1>1, <1>3
<1>6. e.type = from[n].type /\ e.elems = <<>> /\ Box(e) /\ IsFrame(f)
      /\ f.node = n /\ f.image = k /\ f.next = 1
  BY DEF Box, IsFrame
<1> HIDE DEF e, f
<1>7. \A p \in met : p[2] \in DOMAIN onto /\ p[2] # k
  BY <1>1, <1>4 DEF Shape
<1>8. \A i \in DOMAIN stk : stk[i].image \in DOMAIN onto /\ stk[i].image # k
  BY <1>1, <1>4, ShapeFacts
<1>9. Shape(from, new, seen2, more)
  <2>1. \A j \in DOMAIN new : Box(new[j])
    BY <1>1, <1>2, <1>4, <1>6 DEF Shape
  <2>2. ASSUME NEW p \in seen2
        PROVE  /\ p = <<p[1], p[2]>> /\ p[2] \in DOMAIN new
               /\ from[p[1]].type \in Containers
               /\ new[p[2]].type = from[p[1]].type
    <3>1. CASE p \in met
      BY <1>1, <1>4, <3>1 DEF Shape
    <3>2. CASE p = <<n, k>>
      BY <1>2, <1>4, <1>6, <3>2
    <3> QED  BY <3>1, <3>2
  <2>3. ASSUME NEW p \in seen2, NEW q \in seen2, p[2] = q[2] PROVE p[1] = q[1]
    <3>1. CASE p \in met /\ q \in met
      BY <1>1, <2>3, <3>1 DEF Shape
    <3>2. CASE p = <<n, k>> /\ q = <<n, k>>
      BY <3>2
    <3>3. CASE p \in met /\ q = <<n, k>>
      BY <1>7, <2>3, <3>3
    <3>4. CASE p = <<n, k>> /\ q \in met
      BY <1>7, <2>3, <3>4
    <3> QED  BY <3>1, <3>2, <3>3, <3>4
  <2>4. ASSUME NEW i \in DOMAIN more
        PROVE  /\ IsFrame(more[i]) /\ more[i].next \in Nat \ {0}
               /\ <<more[i].node, more[i].image>> \in seen2
    BY <1>1, <1>5, <1>6 DEF Shape
  <2>5. ASSUME NEW i \in DOMAIN more, NEW j \in DOMAIN more, more[i].image = more[j].image
        PROVE  i = j
    <3>1. CASE i \in DOMAIN stk /\ j \in DOMAIN stk
      <4>1. more[i] = stk[i] /\ more[j] = stk[j]
        BY <1>1, <1>3, <3>1
      <4> QED  BY <1>1, <2>5, <3>1, <4>1 DEF Shape
    <3> QED  BY <1>5, <1>6, <1>8, <2>5, <3>1
  <2> HIDE DEF seen2
  <2> QED  BY <1>2, <1>3, <2>1, <2>2, <2>3, <2>4, <2>5 DEF Shape
<1>10. /\ Frames(from, new, stk, FALSE, wait, N, T)
       /\ AtRoot(stk, FALSE, wait, root, res, N, T)
       /\ Closed(from, new, met, stk, N)
  BY <1>4, WalkKept
<1>11. Frames(from, new, more, TRUE, any, N, T)
  <2> SUFFICES ASSUME NEW i \in DOMAIN more
               PROVE  IF i = Len(more) THEN Rests(from, new, more[i], N)
                      ELSE /\ Busy(from, new, more[i], N)
                           /\ <<InFlight(from, more[i]), more[i + 1].node>> \in T
    BY DEF Frames
  <2>1. CASE i = Len(stk) + 1
    <3>1. Len(from[n].elems) \in Nat /\ Heap(<<>>) /\ Len(<<>>) = 0
      BY Adds, EmptySeq DEF Heap
    <3>2. Prefix(from[n].elems, <<>>, 0, N)
      BY <3>1 DEF Prefix
    <3>3. Rests(from, new, f, N)
      BY <1>2, <1>6, <3>2 DEF Rests
    <3> QED  BY <1>3, <1>5, <2>1, <3>3
  <2>2. CASE i \in DOMAIN stk /\ i # Len(stk) + 1 /\ more[i] = stk[i]
    <3>1. CASE i = Len(stk)
      <4>1. Busy(from, new, stk[i], N) /\ InFlight(from, stk[i]) = wait
        BY <1>10, <2>2, <3>1 DEF Frames
      <4>2. more[i + 1].node = n
        BY <1>3, <1>6, <3>1
      <4> QED  BY <1>3, <2>2, <4>1, <4>2
    <3>2. CASE i # Len(stk)
      <4>1. Busy(from, new, stk[i], N) /\ <<InFlight(from, stk[i]), stk[i + 1].node>> \in T
        BY <1>10, <2>2, <3>2 DEF Frames
      <4>2. more[i + 1] = stk[i + 1]
        BY <1>1, <1>3, <2>2, <3>2
      <4> QED  BY <1>3, <2>2, <4>1, <4>2
    <3> QED  BY <3>1, <3>2
  <2> QED  BY <1>5, <2>1, <2>2
<1>12. AtRoot(more, TRUE, any, root, res, N, T)
  <2>1. more # <<>> /\ 1 \in DOMAIN more
    <3>1. \A x \in Nat : 1 \in 1 .. x + 1 /\ x + 1 # 0
      OBVIOUS
    <3>2. 1 \in DOMAIN more /\ Len(more) # 0
      BY ONLY <1>1, <1>3, <3>1
    <3> QED  BY ONLY <3>2, EmptySeq
  <2>2. CASE stk = <<>>
    <3>1. wait = root /\ Len(stk) = 0
      BY <1>10, <2>2, EmptySeq DEF AtRoot
    <3>2. more[1] = f
      BY <1>3, <3>1
    <3> QED  BY <1>6, <2>1, <3>1, <3>2 DEF AtRoot
  <2>3. CASE stk # <<>>
    <3>1. 1 \in 1 .. Len(stk)
      <4>1. Len(stk) # 0
        BY <1>1, <2>3, EmptySeq DEF Shape, Heap
      <4> QED  BY <1>1, <4>1
    <3>2. more[1] = stk[1]
      BY <1>3, <3>1
    <3> QED  BY <1>10, <2>1, <2>3, <3>2 DEF AtRoot
  <2> QED  BY <2>2, <2>3
<1>13. Closed(from, new, seen2, more, N)
  <2> SUFFICES ASSUME NEW p \in seen2, \A i \in DOMAIN more : more[i].image # p[2]
               PROVE  Complete(from[p[1]].elems, new[p[2]].elems, N)
    BY DEF Closed
  <2>1. p # <<n, k>>
    <3>1. Len(stk) + 1 \in DOMAIN more /\ more[Len(stk) + 1].image = k
      BY <1>1, <1>3, <1>6
    <3> QED  BY <3>1
  <2>2. p \in met
    BY <2>1
  <2>3. \A i \in DOMAIN stk : stk[i].image # p[2]
    BY <1>1, <1>3
  <2> QED  BY <1>10, <2>2, <2>3 DEF Closed
<1> QED  BY <1>9, <1>11, <1>12, <1>13 DEF Walk

\* The next value of the container on top is taken.
LEMMA WalkTakes ==
    ASSUME NEW from, NEW onto, NEW met, NEW stk, NEW any, NEW root, NEW res,
           NEW M, NEW T, Walk(from, onto, met, stk, TRUE, any, root, res, M, T),
           stk # <<>>, NEW f, f = stk[Len(stk)],
           f.next <= Len(from[f.node].elems), from[f.node].elems[f.next] # Hole,
           NEW more, more = [stk EXCEPT ![Len(stk)].next = @ + 1],
           NEW wait, wait = from[f.node].elems[f.next]
    PROVE  Walk(from, onto, met, more, FALSE, wait, root, res, M, T)
<1> DEFINE m == Len(stk)
           g == [node |-> f.node, image |-> f.image, next |-> f.next + 1]
<1>1. /\ Shape(from, onto, met, stk) /\ Frames(from, onto, stk, TRUE, any, M, T)
      /\ m \in Nat \ {0} /\ DOMAIN stk = 1 .. m /\ m \in DOMAIN stk
  <2>1. Shape(from, onto, met, stk) /\ Frames(from, onto, stk, TRUE, any, M, T)
    BY DEF Walk
  <2>2. m # 0
    BY <2>1, EmptySeq DEF Shape, Heap
  <2>3. Len(stk) \in Nat /\ DOMAIN stk = 1 .. Len(stk)
    BY <2>1, ShapeFacts
  <2>4. \A x \in Nat : x # 0 => x \in Nat \ {0} /\ x \in 1 .. x
    OBVIOUS
  <2>5. m \in Nat \ {0} /\ m \in 1 .. m
    BY <2>2, <2>3, <2>4
  <2> HIDE DEF m
  <2>6. DOMAIN stk = 1 .. m
    BY <2>3 DEF m
  <2> QED  BY <2>1, <2>5, <2>6
<1>2. IsFrame(f) /\ f.next \in Nat \ {0} /\ Rests(from, onto, f, M)
  BY <1>1 DEF Shape, Frames
<1>3. g.node = f.node /\ g.image = f.image /\ g.next = f.next + 1 /\ IsFrame(g)
  BY DEF IsFrame
<1>4. [f EXCEPT !.next = f.next + 1] = g
  <2>1. PICK a, b, c : f = [node |-> a, image |-> b, next |-> c]
    BY <1>2 DEF IsFrame
  <2> QED  BY <2>1
<1> HIDE DEF g, m
<1>5. more = [stk EXCEPT ![m] = g]
  BY <1>4 DEF m
<1>6. /\ Heap(more) /\ Len(more) = m /\ DOMAIN more = 1 .. m
      /\ more[m] = g /\ \A i \in 1 .. m : i # m => more[i] = stk[i]
  <2>1. stk = [i \in 1 .. m |-> stk[i]]
    BY LenProperties, <1>1 DEF Heap, Shape, m
  <2>2. more = [i \in 1 .. m |-> more[i]]
    BY <1>5, <2>1
  <2> QED  BY <1>1, <1>5, <2>2, HeapOf
<1>7. \A i \in DOMAIN more : /\ more[i].node = stk[i].node /\ more[i].image = stk[i].image
                             /\ IsFrame(more[i]) /\ more[i].next \in Nat \ {0}
  <2> SUFFICES ASSUME NEW i \in 1 .. m
               PROVE  /\ more[i].node = stk[i].node /\ more[i].image = stk[i].image
                      /\ IsFrame(more[i]) /\ more[i].next \in Nat \ {0}
    BY <1>6
  <2>1. CASE i = m
    BY <1>2, <1>3, <1>6, <2>1 DEF m
  <2>2. CASE i # m
    BY <1>1, <1>6, <2>2 DEF Shape
  <2> QED  BY <2>1, <2>2
<1>8. Shape(from, onto, met, more)
  <2>1. \A i \in DOMAIN more : <<more[i].node, more[i].image>> \in met
    BY <1>1, <1>6, <1>7 DEF Shape
  <2>2. \A i, j \in DOMAIN more : more[i].image = more[j].image => i = j
    <3>1. \A i, j \in DOMAIN stk : stk[i].image = stk[j].image => i = j
      BY ONLY <1>1 DEF Shape
    <3>2. DOMAIN more = DOMAIN stk /\ \A i \in DOMAIN more : more[i].image = stk[i].image
      BY ONLY <1>1, <1>6, <1>7
    <3> QED  BY ONLY <3>1, <3>2
  <2> QED  BY <1>1, <1>6, <1>7, <2>1, <2>2 DEF Shape
<1>9. Frames(from, onto, more, FALSE, wait, M, T)
  <2> SUFFICES ASSUME NEW i \in 1 .. m
               PROVE  /\ Busy(from, onto, more[i], M)
                      /\ IF i = m THEN InFlight(from, more[i]) = wait
                         ELSE <<InFlight(from, more[i]), more[i + 1].node>> \in T
    BY <1>6 DEF Frames
  <2>1. CASE i = m
    <3>1. g.next - 1 = f.next /\ g.next - 2 = f.next - 1
      <4>1. \A x \in Nat : \A y : y = x + 1 => y - 1 = x /\ y - 2 = x - 1
        OBVIOUS
      <4> QED  BY <1>2, <1>3, <4>1
    <3>2. Prefix(from[g.node].elems, onto[g.image].elems, g.next - 2, M)
      BY <1>2, <1>3, <3>1 DEF Rests
    <3>3. Len(from[g.node].elems) \in Nat
      BY <3>2, Adds DEF Prefix
    <3>4. f.next \in 1 .. Len(from[f.node].elems)
      BY <1>2, <1>3, <3>3
    <3>5. Busy(from, onto, g, M) /\ InFlight(from, g) = wait
      BY <1>3, <3>1, <3>2, <3>4 DEF Busy, InFlight
    <3> QED  BY <1>6, <2>1, <3>5
  <2>2. CASE i # m
    <3>1. Busy(from, onto, stk[i], M) /\ <<InFlight(from, stk[i]), stk[i + 1].node>> \in T
      BY <1>1, <2>2 DEF Frames, m
    <3>2. i + 1 \in 1 .. m
      <4>1. \A x \in Nat : \A y \in 1 .. x : y # x => y + 1 \in 1 .. x
        OBVIOUS
      <4>2. m \in Nat
        BY ONLY <1>1
      <4> QED  BY ONLY <2>2, <4>1, <4>2, i \in 1 .. m
    <3>3. more[i + 1].node = stk[i + 1].node
      BY ONLY <1>6, <1>7, <3>2
    <3> QED  BY <1>6, <2>2, <3>1, <3>3
  <2> QED  BY <2>1, <2>2
<1>10. AtRoot(more, FALSE, wait, root, res, M, T)
  <2>1. 1 \in DOMAIN more /\ more # <<>> /\ more[1].node = stk[1].node
    <3>1. \A x \in Nat \ {0} : 1 \in 1 .. x /\ x # 0
      OBVIOUS
    <3>2. 1 \in DOMAIN more /\ Len(more) # 0
      BY ONLY <1>1, <1>6, <3>1
    <3> QED  BY ONLY <1>7, <3>2, EmptySeq
  <2> QED  BY <2>1 DEF AtRoot, Walk
<1>11. Closed(from, onto, met, more, M)
  <2> SUFFICES ASSUME NEW p \in met, \A i \in DOMAIN more : more[i].image # p[2]
               PROVE  Complete(from[p[1]].elems, onto[p[2]].elems, M)
    BY DEF Closed
  <2>1. \A i \in DOMAIN stk : stk[i].image # p[2]
    BY <1>1, <1>6, <1>7
  <2> QED  BY <2>1 DEF Closed, Walk
<1> QED  BY <1>8, <1>9, <1>10, <1>11 DEF Walk

\* The container on top is complete, and is what the one below was waiting for.
LEMMA WalkPops ==
    ASSUME NEW from, NEW onto, NEW met, NEW stk, NEW any, NEW root, NEW res,
           NEW M, NEW T, Walk(from, onto, met, stk, TRUE, any, root, res, M, T),
           stk # <<>>, NEW f, f = stk[Len(stk)],
           f.next <= Len(from[f.node].elems) => from[f.node].elems[f.next] = Hole,
           NEW less, less = Front(stk),
           \A a, n, k : <<a, n>> \in T /\ <<n, k>> \in met => <<a, Ref(k)>> \in M
    PROVE  \E wait : /\ Walk(from, onto, met, less, FALSE, wait, root, res, M, T)
                     /\ <<wait, Ref(f.image)>> \in M
<1> DEFINE m == Len(stk)
           wait == IF m = 1 THEN root ELSE InFlight(from, stk[m - 1])
<1>1. /\ Shape(from, onto, met, stk) /\ Frames(from, onto, stk, TRUE, any, M, T)
      /\ m \in Nat \ {0} /\ DOMAIN stk = 1 .. m /\ m \in DOMAIN stk
  <2>1. Shape(from, onto, met, stk) /\ Frames(from, onto, stk, TRUE, any, M, T)
    BY DEF Walk
  <2>2. m # 0
    BY <2>1, EmptySeq DEF Shape, Heap
  <2>3. Len(stk) \in Nat /\ DOMAIN stk = 1 .. Len(stk)
    BY <2>1, ShapeFacts
  <2>4. \A x \in Nat : x # 0 => x \in Nat \ {0} /\ x \in 1 .. x
    OBVIOUS
  <2>5. m \in Nat \ {0} /\ m \in 1 .. m
    BY <2>2, <2>3, <2>4
  <2> HIDE DEF m
  <2>6. DOMAIN stk = 1 .. m
    BY <2>3 DEF m
  <2> QED  BY <2>1, <2>5, <2>6
<1>2. /\ Heap(less) /\ Len(less) = m - 1 /\ DOMAIN less = 1 .. m - 1
      /\ \A i \in 1 .. m - 1 : less[i] = stk[i] /\ i \in DOMAIN stk /\ i # m
  <2>1. stk \in Seq(ToSet(stk))
    BY <1>1 DEF Shape, Heap
  <2>2. /\ Len(less) = m - 1 /\ \A i \in 1 .. m - 1 : less[i] = stk[i]
        /\ less \in Seq(ToSet(stk))
    BY <2>1, FrontFacts
  <2>3. less = [i \in 1 .. m - 1 |-> less[i]] /\ m - 1 \in Nat
    BY <1>1, <2>2, LenProperties
  <2> QED  BY <1>1, <2>2, <2>3, HeapOf
<1>3. <<f.node, f.image>> \in met /\ f.next \in Nat \ {0} /\ Rests(from, onto, f, M)
  BY <1>1 DEF Shape, Frames
<1>4. <<wait, f.node>> \in T
  <2>1. CASE m = 1
    BY <2>1 DEF Walk, AtRoot
  <2>2. CASE m # 1
    <3>1. m - 1 \in DOMAIN stk /\ m - 1 # m /\ (m - 1) + 1 = m
      <4>1. \A x \in Nat \ {0} : x # 1 => x - 1 \in 1 .. x /\ x - 1 # x /\ (x - 1) + 1 = x
        OBVIOUS
      <4> HIDE DEF m
      <4> QED  BY <1>1, <2>2, <4>1
    <3>2. <<InFlight(from, stk[m - 1]), stk[(m - 1) + 1].node>> \in T
      BY <1>1, <3>1 DEF Frames
    <3> QED  BY <2>2, <3>1, <3>2
  <2> QED  BY <2>1, <2>2
<1> HIDE DEF wait, m
<1>5. <<wait, Ref(f.image)>> \in M
  BY <1>3, <1>4
<1>6. Shape(from, onto, met, less)
  BY <1>1, <1>2 DEF Shape
<1>7. Frames(from, onto, less, FALSE, wait, M, T)
  <2> SUFFICES ASSUME NEW i \in 1 .. m - 1
               PROVE  /\ Busy(from, onto, less[i], M)
                      /\ IF i = m - 1 THEN InFlight(from, less[i]) = wait
                         ELSE <<InFlight(from, less[i]), less[i + 1].node>> \in T
    BY <1>2 DEF Frames
  <2>1. Busy(from, onto, stk[i], M) /\ <<InFlight(from, stk[i]), stk[i + 1].node>> \in T
    BY <1>1, <1>2 DEF Frames, m
  <2>2. CASE i = m - 1
    <3>1. wait = InFlight(from, stk[i])
      BY <1>1, <2>2 DEF wait
    <3> QED  BY <1>2, <2>1, <2>2, <3>1
  <2>3. CASE i # m - 1
    <3>1. i + 1 \in 1 .. m - 1
      BY <1>1, <2>3
    <3> QED  BY <1>2, <2>1, <2>3, <3>1
  <2> QED  BY <2>2, <2>3
<1>8. AtRoot(less, FALSE, wait, root, res, M, T)
  <2>1. CASE m = 1
    <3>1. less = <<>>
      BY <1>2, <2>1, EmptySeq DEF Heap
    <3> QED  BY <2>1, <3>1 DEF AtRoot, wait
  <2>2. CASE m # 1
    <3>1. 1 \in 1 .. m - 1 /\ less # <<>> /\ less[1] = stk[1]
      BY <1>1, <1>2, <2>2, EmptySeq
    <3> QED  BY <3>1 DEF AtRoot, Walk
  <2> QED  BY <2>1, <2>2
<1>9. Closed(from, onto, met, less, M)
  <2> SUFFICES ASSUME NEW p \in met, \A i \in DOMAIN less : less[i].image # p[2]
               PROVE  Complete(from[p[1]].elems, onto[p[2]].elems, M)
    BY DEF Closed
  <2>1. CASE p[2] = f.image
    <3>1. p[1] = f.node
      BY <1>1, <2>1, ShapeFacts DEF m
    <3>2. Prefix(from[f.node].elems, onto[f.image].elems, f.next - 1, M)
      BY <1>3 DEF Rests
    <3>3. f.next - 1 \in Nat /\ (f.next - 1) + 1 = f.next
          /\ Len(from[f.node].elems) \in Nat
      <4>1. \A x \in Nat \ {0} : x - 1 \in Nat /\ (x - 1) + 1 = x
        OBVIOUS
      <4>2. Len(from[f.node].elems) \in Nat
        BY ONLY <3>2, Adds DEF Prefix
      <4> QED  BY ONLY <1>3, <4>1, <4>2
    <3>4. f.next - 1 < Len(from[f.node].elems) =>
              from[f.node].elems[(f.next - 1) + 1] = Hole
      BY <3>3
    <3> QED  BY <2>1, <3>1, <3>2, <3>3, <3>4 DEF Complete
  <2>2. CASE p[2] # f.image
    <3>1. \A i \in DOMAIN stk : i = m \/ i \in 1 .. m - 1
      BY <1>1
    <3>2. \A i \in DOMAIN stk : stk[i].image # p[2]
      BY <1>2, <2>2, <3>1 DEF m
    <3> QED  BY <3>2 DEF Closed, Walk
  <2> QED  BY <2>1, <2>2
<1> QED  BY <1>5, <1>6, <1>7, <1>8, <1>9 DEF Walk

\* What the waiting value has become is stored, or returned.
LEMMA WalkStores ==
    ASSUME NEW from, NEW onto, NEW met, NEW stk, NEW wait, NEW root, NEW res,
           NEW M, NEW T, Walk(from, onto, met, stk, FALSE, wait, root, res, M, T),
           NEW N, M \subseteq N, NEW v, <<wait, v>> \in N,
           NEW new, new = Filled(onto, stk, v),
           NEW out, out = (IF stk = <<>> THEN v ELSE res), NEW any
    PROVE  Walk(from, new, met, stk, TRUE, any, root, out, N, T)
<1>1. /\ Shape(from, onto, met, stk) /\ Frames(from, onto, stk, FALSE, wait, N, T)
      /\ AtRoot(stk, FALSE, wait, root, res, N, T) /\ Closed(from, onto, met, stk, N)
  <2>1. Shape(from, onto, met, stk) /\ \A k \in DOMAIN onto : onto[k] = onto[k]
    BY DEF Walk
  <2> QED  BY <2>1, WalkKept
<1>2. CASE stk = <<>>
  <2>1. new = onto /\ out = v /\ DOMAIN stk = {}
    BY <1>2 DEF Filled
  <2>2. Frames(from, new, stk, TRUE, any, N, T)
    BY <2>1 DEF Frames
  <2>3. AtRoot(stk, TRUE, any, root, out, N, T)
    BY <1>1, <1>2, <2>1 DEF AtRoot
  <2> QED  BY <1>1, <2>1, <2>2, <2>3 DEF Walk
<1>3. CASE stk # <<>>
  <2> DEFINE m == Len(stk)
             f == stk[m]
             k == f.image
  <2>1. m \in DOMAIN stk /\ DOMAIN stk = 1 .. m
    <3>1. m # 0
      BY <1>1, <1>3, EmptySeq DEF Shape, Heap
    <3>2. m \in Nat /\ DOMAIN stk = 1 .. m
      BY <1>1, ShapeFacts
    <3>3. \A x \in Nat : x # 0 => x \in 1 .. x
      OBVIOUS
    <3> HIDE DEF m
    <3> QED  BY <3>1, <3>2, <3>3
  <2>2. Last(stk) = f /\ out = res
    BY <1>3 DEF Last
  <2>3. k \in DOMAIN onto
    BY <1>1, <2>1, ShapeFacts
  <2> HIDE DEF k
  <2>4. /\ Heap(new) /\ DOMAIN new = DOMAIN onto /\ \A i \in DOMAIN new : Box(new[i])
        /\ \A i \in DOMAIN onto : new[i].type = onto[i].type
        /\ new[k].elems = Append(onto[k].elems, v)
        /\ \A i \in DOMAIN onto \ {k} : new[i] = onto[i]
    <3>1. Heap(onto) /\ \A i \in DOMAIN onto : Box(onto[i])
      BY <1>1 DEF Shape
    <3> QED  BY <1>3, <2>2, <2>3, <3>1, FillFacts DEF k
  <2>5. Shape(from, new, met, stk)
    BY <1>1, <2>4 DEF Shape
  <2>6. Frames(from, new, stk, TRUE, any, N, T)
    <3> SUFFICES ASSUME NEW i \in DOMAIN stk
                 PROVE  IF i = m THEN Rests(from, new, stk[i], N)
                        ELSE /\ Busy(from, new, stk[i], N)
                             /\ <<InFlight(from, stk[i]), stk[i + 1].node>> \in T
      BY DEF Frames
    <3>1. CASE i = m
      <4>1. Busy(from, onto, f, N) /\ InFlight(from, f) = wait /\ f.next \in Nat \ {0}
        BY <1>1, <2>1 DEF Frames, Shape
      <4> HIDE DEF f
      <4>2. /\ Prefix(from[f.node].elems, onto[k].elems, f.next - 2, N)
            /\ f.next - 1 \in 1 .. Len(from[f.node].elems)
            /\ from[f.node].elems[f.next - 1] # Hole
            /\ <<from[f.node].elems[f.next - 1], v>> \in N
        BY <4>1 DEF Busy, InFlight, k
      <4>3. \A x \in Nat : (x - 2) + 1 = x - 1
        OBVIOUS
      <4>4. (f.next - 2) + 1 = f.next - 1
        BY <4>1, <4>3
      <4>5. Prefix(from[f.node].elems, Append(onto[k].elems, v), (f.next - 2) + 1, N)
        BY <4>2, <4>4, PrefixGrows
      <4>6. Rests(from, new, f, N)
        BY <2>4, <4>4, <4>5 DEF Rests, k
      <4> QED  BY <3>1, <4>6 DEF f
    <3>2. CASE i # m
      <4>1. stk[i].image # k
        BY <1>1, <2>1, <3>2 DEF Shape, k
      <4>2. stk[i].image \in DOMAIN onto
        BY <1>1, ShapeFacts
      <4>3. new[stk[i].image] = onto[stk[i].image]
        BY <2>4, <4>1, <4>2
      <4>4. Busy(from, onto, stk[i], N) /\ <<InFlight(from, stk[i]), stk[i + 1].node>> \in T
        BY <1>1, <3>2 DEF Frames
      <4> QED  BY <3>2, <4>3, <4>4 DEF Busy
    <3> QED  BY <3>1, <3>2
  <2>7. AtRoot(stk, TRUE, any, root, out, N, T)
    BY <1>1, <1>3 DEF AtRoot
  <2>8. Closed(from, new, met, stk, N)
    <3> SUFFICES ASSUME NEW p \in met, \A i \in DOMAIN stk : stk[i].image # p[2]
                 PROVE  Complete(from[p[1]].elems, new[p[2]].elems, N)
      BY DEF Closed
    <3>1. p[2] # k /\ p[2] \in DOMAIN onto
      BY <1>1, <2>1 DEF Shape, k
    <3>2. new[p[2]] = onto[p[2]]
      BY <2>4, <3>1
    <3> QED  BY <1>1, <3>2 DEF Closed
  <2> QED  BY <2>5, <2>6, <2>7, <2>8 DEF Walk
<1> QED  BY <1>2, <1>3
----------------------------------------------------------------------------
(* References to scalars. *)

\* The function that Behind is defined by.
Chases(g, c) ==
    c = [k \in 0 .. Len(g.nodes) |->
            [w \in ValuesOf(g) |->
                IF k > 0 /\ IsScalar(g, w)
                THEN c[k - 1][g.nodes[w.to].elems[1]] ELSE w]]

\* What a value leads to is no scalar, and is the same from every scalar on the
\* way.
LEMMA BehindFacts ==
    ASSUME NEW g, IsGraph(g), NEW v \in ValuesOf(g)
    PROVE  /\ Behind(g, v) \in ValuesOf(g)
           /\ ~ IsScalar(g, v) => Behind(g, v) = v
           /\ ~ IsScalar(g, Behind(g, v))
           /\ IsScalar(g, v) => /\ g.nodes[v.to].elems[1] \in ValuesOf(g)
                                /\ Behind(g, v) = Behind(g, g.nodes[v.to].elems[1])
           /\ v # Hole => Behind(g, v) # Hole
<1> DEFINE L == Len(g.nodes)
           O == DOMAIN g.nodes
           D == 0 .. L
           V == ValuesOf(g)
           F == [V -> V]
           inner(w) == g.nodes[w.to].elems[1]
           c == CHOOSE x : Chases(g, x)
           stop == {0}
           start == [w \in V |-> w]
           base == [k \in D |-> start]
           step == [k \in D |-> [d \in F |->
                       [w \in V |-> IF IsScalar(g, w) THEN d[inner(w)] ELSE w]]]
           next == [k \in D |-> k - 1]
           rank == [k \in D |-> k]
<1>1. L \in Nat /\ O = 1 .. L /\ L \in D
  BY DEF IsGraph
<1>2. ASSUME NEW w \in V, IsScalar(g, w)
      PROVE  inner(w) \in V /\ inner(w) # Hole /\ w.to \in O /\ w # Hole
             /\ g.nodes[w.to].type = "scalar"
  <2>1. IsPerlValue(g, w) /\ IsRef(w) /\ g.nodes[w.to].type = "scalar"
    BY <1>2 DEF IsGraph, IsScalar
  <2>2. w.to \in O /\ w # Hole
    BY <2>1 DEF IsPerlValue, IsRef, IsInt, Number, Leaf, Hole
  <2>3. /\ g.nodes[w.to].elems \in Seq(V)
        /\ Len(g.nodes[w.to].elems) = 1
        /\ g.nodes[w.to].elems[1] # Hole
    BY <2>1, <2>2 DEF IsGraph
  <2>4. inner(w) \in V
    <3> HIDE DEF V
    <3>1. 1 \in 1 .. Len(g.nodes[w.to].elems)
      BY <2>3
    <3> QED  BY <2>3, <3>1, ElementOfSeq
  <2> QED  BY <2>1, <2>2, <2>3, <2>4
<1>3. v \in V
  OBVIOUS
<1> HIDE DEF V, inner, c, L, O
<1>4. \E e \in [D -> F] : \A k \in D : Unfolds(e, k, stop, base, step, next)
  <2>1. start \in F
    OBVIOUS
  <2>2. base \in [D -> F]
    BY <2>1
  <2>3. ASSUME NEW e \in F
        PROVE  [w \in V |-> IF IsScalar(g, w) THEN e[inner(w)] ELSE w] \in F
    BY <1>2
  <2>4. step \in [D -> [F -> F]]
    BY <2>3
  <2>5. rank \in [D -> 0 .. L] /\ \A k \in D \ stop : next[k] \in D /\ rank[next[k]] < rank[k]
    BY <1>1
  <2> HIDE DEF start, base, step, stop, D, rank, next, F
  <2> QED  BY <1>1, <2>1, <2>2, <2>4, <2>5, Recursion
<1>5. PICK e \in [D -> F] : \A k \in D : Unfolds(e, k, stop, base, step, next)
  BY <1>4
<1>6. ASSUME NEW k \in D
      PROVE  e[k] = [w \in V |-> IF k > 0 /\ IsScalar(g, w)
                                 THEN e[k - 1][inner(w)] ELSE w]
  <2>1. CASE k = 0
    <3>1. e[k] = base[k] /\ base[k] = start
      BY <1>5, <2>1 DEF Unfolds
    <3> QED  BY <2>1, <3>1
  <2>2. CASE k # 0
    <3>1. k > 0 /\ k - 1 \in D /\ e[k - 1] \in F
      BY <1>1, <2>2
    <3>2. e[k] = step[k][e[k - 1]]
      BY <1>5, <2>2 DEF Unfolds
    <3>3. step[k] = [d \in F |->
                       [w \in V |-> IF IsScalar(g, w) THEN d[inner(w)] ELSE w]]
      OBVIOUS
    <3> HIDE DEF step, F
    <3> QED  BY <3>1, <3>2, <3>3
  <2> QED  BY <2>1, <2>2
<1>7. Chases(g, c)
  <2>1. Chases(g, e)
    <3>1. e = [k \in D |-> [w \in V |-> IF k > 0 /\ IsScalar(g, w)
                                        THEN e[k - 1][inner(w)] ELSE w]]
      BY <1>6
    <3> QED  BY <3>1 DEF Chases, L, V, inner
  <2> QED  BY <2>1 DEF c
<1>8. Behind(g, v) = c[L][v] /\ \A w : Behind(g, w) = c[L][w]
  BY DEF Behind, Chases, c, L
<1>9. ASSUME NEW k \in D, NEW w \in V
      PROVE  c[k][w] = IF k > 0 /\ IsScalar(g, w) THEN c[k - 1][inner(w)] ELSE w
  <2>1. c = [j \in D |-> [x \in V |-> IF j > 0 /\ IsScalar(g, x)
                                    THEN c[j - 1][inner(x)] ELSE x]]
    BY <1>7 DEF Chases, L, V, inner
  <2> HIDE DEF D
  <2>2. c[k] = [x \in V |-> IF k > 0 /\ IsScalar(g, x) THEN c[k - 1][inner(x)] ELSE x]
    BY <2>1
  <2> QED  BY <2>2
<1>10. PICK rk \in [O -> 1 .. L] :
          \A n \in O : g.nodes[n].type = "scalar" /\ IsRef(g.nodes[n].elems[1]) =>
                           rk[g.nodes[n].elems[1].to] < rk[n]
  BY DEF IsGraph, O, L
<1> DEFINE Ends(n, w, k) == /\ c[k][w] = c[L][inner(w)] /\ c[k][w] \in V
                            /\ ~ IsScalar(g, c[k][w]) /\ c[k][w] # Hole
           S == {n \in O : \A w \in V : IsScalar(g, w) /\ w.to = n =>
                               \A k \in D : k >= rk[n] => Ends(n, w, k)}
<1>11. \A n \in O : (\A m \in O : rk[m] < rk[n] => m \in S) => n \in S
  <2> SUFFICES ASSUME NEW n \in O, \A m \in O : rk[m] < rk[n] => m \in S,
                      NEW w \in V, IsScalar(g, w), w.to = n,
                      NEW k \in D, k >= rk[n]
               PROVE  Ends(n, w, k)
    OBVIOUS
  <2>1. /\ k - 1 \in D /\ k > 0 /\ L \in D /\ L >= rk[n] /\ rk[n] \in 1 .. L
        /\ c[k][w] = c[k - 1][inner(w)]
    <3>1. rk[n] \in 1 .. L
      BY <1>10
    <3>2. k - 1 \in D /\ k > 0 /\ L \in D /\ L >= rk[n]
      BY <1>1, <3>1
    <3> HIDE DEF D
    <3> QED  BY <1>9, <3>1, <3>2
  <2>2. inner(w) \in V /\ inner(w) # Hole
    BY <1>2
  <2>3. CASE ~ IsScalar(g, inner(w))
    <3>1. c[k - 1][inner(w)] = inner(w) /\ c[L][inner(w)] = inner(w)
      <4> HIDE DEF D
      <4> QED  BY <1>9, <2>1, <2>2, <2>3
    <3> QED  BY <2>1, <2>2, <2>3, <3>1
  <2>4. CASE IsScalar(g, inner(w))
    <3>1. inner(w).to \in O /\ rk[inner(w).to] < rk[n] /\ rk[inner(w).to] \in 1 .. L
      <4>1. inner(w).to \in O /\ IsRef(inner(w)) /\ inner(w) = g.nodes[n].elems[1]
            /\ g.nodes[n].type = "scalar"
        BY <1>2, <2>2, <2>4 DEF IsScalar, inner
      <4> QED  BY <1>10, <4>1
    <3>2. inner(w).to \in S
      BY <3>1
    <3>3. k - 1 >= rk[inner(w).to] /\ L >= rk[inner(w).to]
      <4>1. rk[n] \in Int /\ k \in Int /\ L \in Int /\ rk[inner(w).to] \in Int
        BY <1>1, <2>1, <3>1
      <4>2. rk[inner(w).to] < rk[n] /\ k >= rk[n] /\ L >= rk[n]
        BY <2>1, <3>1
      <4> QED  BY <4>1, <4>2
    <3>4. Ends(inner(w).to, inner(w), k - 1) /\ Ends(inner(w).to, inner(w), L)
      BY <2>1, <2>2, <2>4, <3>2, <3>3
    <3>5. c[k - 1][inner(w)] = c[L][inner(w)]
      BY <3>4
    <3> QED  BY <2>1, <3>4, <3>5
  <2> QED  BY <2>3, <2>4
<1>12. O \subseteq S
  <2>1. L \in Nat /\ rk \in [O -> 0 .. L]
    BY <1>1
  <2> HIDE DEF S
  <2> QED  BY ONLY <1>11, <2>1, RankInduction
<1>13. CASE IsScalar(g, v)
  <2>1. v.to \in O /\ rk[v.to] \in 1 .. L
    BY <1>2, <1>3, <1>10, <1>13
  <2>2. L >= rk[v.to]
    BY <1>1, <2>1
  <2>3. Ends(v.to, v, L)
    BY <1>1, <1>3, <1>12, <1>13, <2>1, <2>2
  <2> QED  BY <1>2, <1>3, <1>8, <1>13, <2>3 DEF V, inner
<1>14. CASE ~ IsScalar(g, v)
  <2>1. c[L][v] = v
    <3> HIDE DEF D
    <3> QED  BY <1>1, <1>3, <1>9, <1>14
  <2> QED  BY <1>3, <1>8, <1>14, <2>1 DEF V
<1> QED  BY <1>13, <1>14
----------------------------------------------------------------------------
(* Values. *)

\* A value of Perl data is a reference to one of its nodes, a number or
\* another leaf.
LEMMA PerlValues ==
    ASSUME NEW g, IsGraph(g), NEW v \in ValuesOf(g)
    PROVE  /\ v # Leaf("none")
           /\ IsRef(v) => v = Ref(v.to) /\ v.to \in DOMAIN g.nodes /\ ~ IsLeaf(v)
           /\ IsLeaf(v) => ~ IsRef(v)
           /\ IsLeaf(v) \/ IsRef(v)
           /\ IsInt(v) => /\ v = Number(v.int) /\ v.int \in Int
                          /\ v.int <= 2 ^ Width - 1
           /\ IsLeaf(v) /\ ~ IsInt(v) =>
                 v = Leaf(v.leaf) /\ v.leaf \notin {"none", "null", "undefined"}
<1>1. IsPerlValue(g, v)
  BY DEF IsGraph
<1>2. CASE IsRef(v) /\ v = Ref(v.to) /\ v.to \in DOMAIN g.nodes
  BY <1>2 DEF IsRef, IsInt, IsLeaf, Ref, Leaf
<1>3. CASE IsInt(v) /\ v = Number(v.int) /\ v.int \in - 2 ^ (Width - 1) .. 2 ^ Width - 1
  BY <1>3, GraphsAssumption DEF IsRef, IsInt, IsLeaf, Number, Leaf
<1>4. CASE "leaf" \in DOMAIN v /\ v = Leaf(v.leaf)
           /\ v.leaf \notin {"none", "null", "undefined"}
  BY <1>4 DEF IsRef, IsInt, IsLeaf, Leaf
<1> QED  BY <1>1, <1>2, <1>3, <1>4 DEF IsPerlValue

\* So is every value that a node of it holds.
LEMMA PerlElements ==
    ASSUME NEW g, IsGraph(g), NEW n \in DOMAIN g.nodes
    PROVE  /\ Heap(g.nodes[n].elems)
           /\ \A i \in 1 .. Len(g.nodes[n].elems) : g.nodes[n].elems[i] \in ValuesOf(g)
<1> DEFINE s == g.nodes[n].elems
           V == ValuesOf(g)
<1>1. s \in Seq(V)
  BY DEF IsGraph
<1> HIDE DEF s, V
<1>2. /\ Len(s) \in Nat /\ s = [i \in 1 .. Len(s) |-> s[i]]
      /\ \A i \in 1 .. Len(s) : s[i] \in V
  BY <1>1, LenProperties, ElementOfSeq
<1> QED  BY <1>2, HeapOf DEF s, V

\* The nearest double to an integer that the mantissa holds is itself.
LEMMA DoubleIsExact ==
    ASSUME NEW n \in Int, Abs(n) <= 2 ^ Mantissa
    PROVE  Double(n) = n
<1> DEFINE P == 2 ^ Mantissa
           Doubles == {m * 2 ^ e : m \in 0 .. P, e \in 0 .. Width - Mantissa}
           a == Abs(n)
           off(x) == Abs(a - x)
           Nearest(x) == \A b \in Doubles \ {x} :
                            off(x) < off(b) \/ (off(x) = off(b) /\ x % (4 * off(x)) = 0)
           d == CHOOSE x \in Doubles : Nearest(x)
<1>1. P \in Int /\ a \in 0 .. P
  <2>1. P \in Int
    BY GraphsAssumption
  <2>2. a \in Nat
    BY DEF Abs
  <2> HIDE DEF P, a
  <2>3. a <= P
    BY DEF P, a
  <2> QED  BY <2>1, <2>2, <2>3
<1>2. a \in Doubles
  <2>1. 2 ^ 0 = 1
    OBVIOUS
  <2>2. 0 \in 0 .. Width - Mantissa
    BY GraphsAssumption
  <2> HIDE DEF P, a
  <2>3. a = a * 2 ^ 0
    BY <1>1, <2>1
  <2>4. \E m \in 0 .. P, e \in 0 .. Width - Mantissa : a = m * 2 ^ e
    BY ONLY <1>1, <2>2, <2>3
  <2> QED  BY <2>4
<1>3. \A x \in Doubles : x \in Int
  <2> SUFFICES ASSUME NEW m \in 0 .. P, NEW e \in 0 .. Width - Mantissa
               PROVE  m * 2 ^ e \in Int
    OBVIOUS
  <2>1. m \in Int /\ e \in Nat /\ 2 ^ e \in Int
    BY <1>1, GraphsAssumption
  <2>2. \A x, y \in Int : x * y \in Int
    OBVIOUS
  <2> QED  BY <2>1, <2>2
<1> HIDE DEF Doubles
<1>4. a \in Int
  BY <1>1
<1> HIDE DEF a, P
<1>5. off(a) = 0 /\ \A x \in Doubles : off(x) \in Int /\ (x # a => off(x) > 0)
  <2>1. \A x \in Int : Abs(a - x) \in Int /\ (x # a => Abs(a - x) > 0) /\ Abs(a - a) = 0
    BY <1>4 DEF Abs
  <2> QED  BY <1>2, <1>3, <2>1
<1>6. Nearest(a)
  BY <1>5
<1>7. \A x \in Doubles : Nearest(x) => x = a
  <2> SUFFICES ASSUME NEW x \in Doubles, Nearest(x), x # a PROVE FALSE
    OBVIOUS
  <2>1. a \in Doubles \ {x}
    BY <1>2
  <2>2. off(x) < off(a) \/ off(x) = off(a)
    BY <2>1
  <2> HIDE DEF off
  <2> QED  BY <1>2, <1>5, <2>2
<1>8. d = a
  <2> HIDE DEF Nearest
  <2> QED  BY <1>2, <1>6, <1>7
<1>9. Double(n) = IF n < 0 THEN - d ELSE d
  BY DEF Double, Doubles, P, a
<1>10. a = IF n < 0 THEN - n ELSE n
  BY DEF a, Abs
<1> HIDE DEF d
<1> QED  BY <1>8, <1>9, <1>10

\* A leaf survives both conversions, but for a number that a long or a double
\* does not hold: then it is still a number.
LEMMA LeafFacts ==
    ASSUME NEW g, IsGraph(g), NEW v \in ValuesOf(g), IsLeaf(v), v # Hole,
           NEW r \in BOOLEAN, NEW w, w = LeafToJs(v, r)
    PROVE  /\ IsLeaf(w) /\ ~ IsRef(w) /\ w # Hole /\ w # Leaf("none")
           /\ IsLeaf(LeafToPerl(w)) /\ SameLeaf(v, r, LeafToPerl(w))
<1>1. CASE IsInt(v)
  <2> DEFINE n == v.int
             val == LongOf(n)
  <2>1. n \in Int /\ n <= 2 ^ Width - 1
    BY <1>1, PerlValues
  <2>2. MaxIV \in Int /\ 1 <= MaxIV /\ 2 ^ Width \in Int
    <3>1. 2 ^ (Width - 1) \in Int /\ 2 ^ Width \in Int
      BY GraphsAssumption
    <3>2. 1 < 2 ^ (Width - 1)
      BY GraphsAssumption
    <3> QED  BY <3>1, <3>2 DEF MaxIV
  <2> HIDE DEF n
  <2>3. val \in Int /\ (n <= MaxIV => val = n) /\ (n > MaxIV => val < 0)
    <3>1. \A x, y, m \in Int : x <= y - 1 => x - y < 0 /\ x - y \in Int /\ (x <= m => ~ x > m)
      OBVIOUS
    <3> HIDE DEF MaxIV
    <3>2. CASE n <= MaxIV
      BY <2>1, <2>2, <3>1, <3>2 DEF LongOf
    <3>3. CASE ~ n <= MaxIV
      <4>1. n > MaxIV
        BY <2>1, <2>2, <3>3
      <4> QED  BY <2>1, <2>2, <3>1, <4>1 DEF LongOf
    <3> QED  BY <3>2, <3>3
  <2> HIDE DEF val, MaxIV
  <2>4. (val = 0 <=> n = 0) /\ (val = 1 <=> n = 1)
    BY <2>1, <2>2, <2>3
  <2>5. w = CASE r /\ val = 0 -> Leaf("false")
              [] r /\ val = 1 -> Leaf("true")
              [] OTHER -> Number(Double(val))
    BY <1>1 DEF LeafToJs, val, n
  <2>6. \A b : /\ r /\ n = 0 /\ b = Leaf("false") => SameLeaf(v, r, b)
               /\ r /\ n = 1 /\ b = Leaf("true") => SameLeaf(v, r, b)
               /\ ~ (r /\ n = 0) /\ ~ (r /\ n = 1) /\ IsInt(b) /\ (Exact(n) => b.int = n)
                     => SameLeaf(v, r, b)
    <3> SUFFICES ASSUME NEW b PROVE
               /\ r /\ n = 0 /\ b = Leaf("false") => SameLeaf(v, r, b)
               /\ r /\ n = 1 /\ b = Leaf("true") => SameLeaf(v, r, b)
               /\ ~ (r /\ n = 0) /\ ~ (r /\ n = 1) /\ IsInt(b) /\ (Exact(n) => b.int = n)
                     => SameLeaf(v, r, b)
      OBVIOUS
    <3>1. ASSUME r, n = 0, b = Leaf("false") PROVE SameLeaf(v, r, b)
      BY <1>1, <3>1 DEF SameLeaf, n
    <3>2. ASSUME r, n = 1, b = Leaf("true") PROVE SameLeaf(v, r, b)
      BY <1>1, <3>2 DEF SameLeaf, n
    <3>3. ASSUME ~ (r /\ n = 0), ~ (r /\ n = 1), IsInt(b), Exact(n) => b.int = n
          PROVE  SameLeaf(v, r, b)
      BY <1>1, <3>3 DEF SameLeaf, n
    <3> QED  BY <3>1, <3>2, <3>3
  <2>7. CASE r /\ n = 0
    <3>1. w = Leaf("false")
      BY <2>4, <2>5, <2>7
    <3>2. IsLeaf(w) /\ ~ IsRef(w) /\ w # Hole /\ w # Leaf("none") /\ LeafToPerl(w) = w
      BY <3>1 DEF Leaf, IsLeaf, IsRef, Hole, LeafToPerl
    <3> QED  BY <2>7, <2>6, <3>1, <3>2
  <2>8. CASE r /\ n = 1
    <3>1. w = Leaf("true")
      BY <2>4, <2>5, <2>8
    <3>2. IsLeaf(w) /\ ~ IsRef(w) /\ w # Hole /\ w # Leaf("none") /\ LeafToPerl(w) = w
      BY <3>1 DEF Leaf, IsLeaf, IsRef, Hole, LeafToPerl
    <3> QED  BY <2>8, <2>6, <3>1, <3>2
  <2>9. CASE ~ (r /\ n = 0) /\ ~ (r /\ n = 1)
    <3>1. w = Number(Double(val))
      BY <2>4, <2>5, <2>9
    <3>2. /\ IsLeaf(w) /\ ~ IsRef(w) /\ w # Hole /\ w # Leaf("none")
          /\ IsInt(w) /\ w.int = Double(val) /\ LeafToPerl(w) = w
      BY <3>1 DEF Number, Leaf, IsLeaf, IsRef, IsInt, Hole, LeafToPerl
    <3>3. Exact(n) => Double(val) = n
      <4> SUFFICES ASSUME Exact(n) PROVE Double(n) = n
        BY <2>3 DEF Exact
      <4> QED  BY <2>1, DoubleIsExact DEF Exact
    <3> QED  BY <2>9, <2>6, <3>2, <3>3
  <2> QED  BY <2>7, <2>8, <2>9
<1>2. CASE ~ IsInt(v)
  <2>1. v = Leaf(v.leaf) /\ v.leaf \notin {"none", "null", "undefined"} /\ v.leaf # "hole"
    BY <1>2, PerlValues DEF Hole
  <2>2. w = IF v = Leaf("undef") THEN Leaf("null") ELSE v
    BY <1>2 DEF LeafToJs
  <2>3. CASE v = Leaf("undef")
    <3>1. w = Leaf("null") /\ LeafToPerl(w) = v
      BY <2>2, <2>3 DEF LeafToPerl
    <3> QED  BY <1>2, <2>3, <3>1 DEF Leaf, IsLeaf, IsRef, Hole, SameLeaf
  <2>4. CASE v # Leaf("undef")
    <3>1. w = v
      BY <2>2, <2>4
    <3>2. v \notin {Leaf("null"), Leaf("undefined"), Leaf("none"), Leaf("hole")}
      BY <2>1 DEF Leaf
    <3>3. LeafToPerl(w) = v
      BY <3>1, <3>2 DEF LeafToPerl
    <3> QED  BY <1>2, <3>1, <3>2, <3>3, PerlValues DEF SameLeaf, Hole
  <2> QED  BY <2>3, <2>4
<1> QED  BY <1>1, <1>2
----------------------------------------------------------------------------
(* What set makes of the values of g, in the objects h, having seen m. *)

JsLeaves(g) == {LeafToJs(v, r) : v \in {x \in ValuesOf(g) : IsLeaf(x) /\ x # Hole},
                                 r \in BOOLEAN}
Outcomes(g, h) == JsLeaves(g) \cup {Ref(k) : k \in DOMAIN h}

\* p[2] is what the value p[1] may become.
Turns(g, h, m, p) ==
    LET v == Behind(g, p[1])
    IN  \/ IsLeaf(v) /\ p[2] = LeafToJs(v, v # p[1])
        \/ /\ IsRef(v) /\ g.nodes[v.to].type = "code"
           /\ IsRef(p[2]) /\ h[p[2].to].type = "code"
        \/ IsRef(v) /\ IsRef(p[2]) /\ <<v.to, p[2].to>> \in m

Becomes(g, h, m) == {p \in ValuesOf(g) \X Outcomes(g, h) : Turns(g, h, m, p)}
Leads(g) == {p \in ValuesOf(g) \X DOMAIN g.nodes : Behind(g, p[1]) = Ref(p[2])}

\* An object is a function of a coderef, or holds what set makes of values.
Made(g, h) ==
    \A k \in DOMAIN h :
        IF h[k].type = "code" THEN "func" \in DOMAIN h[k].elems[1]
        ELSE Heap(h[k].elems) /\ \A i \in 1 .. Len(h[k].elems) : h[k].elems[i] \in Outcomes(g, h)

Setting(g, h, m, stk, idle, wait, res) ==
    /\ Made(g, h)
    /\ Walk(g.nodes, h, m, stk, idle, wait, g.root, res, Becomes(g, h, m), Leads(g))

\* What an object is stays.
Extends(h, new) ==
    \A k \in DOMAIN h : k \in DOMAIN new /\ new[k].type = h[k].type

\* What values become: leaves, or objects.
LEMMA OutcomeFacts ==
    ASSUME NEW g, IsGraph(g), NEW h, NEW w \in Outcomes(g, h)
    PROVE  /\ w # Hole /\ w # Leaf("none")
           /\ IsRef(w) => w = Ref(w.to) /\ w.to \in DOMAIN h /\ ~ IsLeaf(w)
           /\ IsLeaf(w) => w \in JsLeaves(g) /\ ~ IsRef(w)
           /\ IsLeaf(w) \/ IsRef(w)
<1>1. CASE w \in JsLeaves(g)
  <2>1. PICK v \in {x \in ValuesOf(g) : IsLeaf(x) /\ x # Hole}, r \in BOOLEAN :
                w = LeafToJs(v, r)
    BY <1>1 DEF JsLeaves
  <2>2. IsLeaf(w) /\ ~ IsRef(w) /\ w # Hole /\ w # Leaf("none")
    BY <2>1, LeafFacts
  <2> QED  BY <1>1, <2>2
<1>2. CASE w \in {Ref(k) : k \in DOMAIN h}
  <2>1. PICK k \in DOMAIN h : w = Ref(k)
    BY <1>2
  <2>2. IsRef(w) /\ ~ IsLeaf(w) /\ w.to = k /\ w # Hole /\ w # Leaf("none")
    BY <2>1 DEF Ref, IsRef, IsLeaf, IsInt, Hole, Leaf
  <2> QED  BY <2>1, <2>2
<1> QED  BY <1>1, <1>2 DEF Outcomes

\* With more objects, and more of them seen, more is possible.
LEMMA BecomesWidens ==
    ASSUME NEW g, IsGraph(g), NEW h, NEW m, NEW new, NEW n,
           Extends(h, new), m \subseteq n
    PROVE  /\ Outcomes(g, h) \subseteq Outcomes(g, new)
           /\ Becomes(g, h, m) \subseteq Becomes(g, new, n)
<1>1. Outcomes(g, h) \subseteq Outcomes(g, new)
  BY DEF Outcomes, Extends
<1>2. ASSUME NEW p \in Becomes(g, h, m)
      PROVE  p \in Becomes(g, new, n)
  <2>1. p \in ValuesOf(g) \X Outcomes(g, h) /\ Turns(g, h, m, p)
    BY DEF Becomes
  <2>2. IsRef(p[2]) => p[2].to \in DOMAIN h
    BY <2>1, OutcomeFacts
  <2>3. IsRef(p[2]) => new[p[2].to].type = h[p[2].to].type
    BY <2>2 DEF Extends
  <2>4. Turns(g, new, n, p)
    BY <2>1, <2>3 DEF Turns
  <2> QED  BY <1>1, <2>1, <2>4 DEF Becomes
<1> QED  BY <1>1, <1>2

\* Made of what is there, and of what is added.
LEMMA MadeWidens ==
    ASSUME NEW g, IsGraph(g), NEW h, NEW new, Extends(h, new), Made(g, h),
           \A k \in DOMAIN new :
              \/ k \in DOMAIN h /\ new[k].elems = h[k].elems
              \/ new[k].type = "code" /\ "func" \in DOMAIN new[k].elems[1]
              \/ /\ new[k].type # "code" /\ Heap(new[k].elems)
                 /\ \A i \in 1 .. Len(new[k].elems) : new[k].elems[i] \in Outcomes(g, new)
    PROVE  Made(g, new)
<1>1. Outcomes(g, h) \subseteq Outcomes(g, new)
  <2>1. {} \subseteq {}
    OBVIOUS
  <2> QED  BY <2>1, BecomesWidens
<1> SUFFICES ASSUME NEW k \in DOMAIN new
             PROVE  IF new[k].type = "code" THEN "func" \in DOMAIN new[k].elems[1]
                    ELSE /\ Heap(new[k].elems)
                         /\ \A i \in 1 .. Len(new[k].elems) :
                               new[k].elems[i] \in Outcomes(g, new)
  BY DEF Made
<1>2. CASE k \in DOMAIN h /\ new[k].elems = h[k].elems
  <2>1. new[k].type = h[k].type
    BY <1>2 DEF Extends
  <2> QED  BY <1>1, <1>2, <2>1 DEF Made
<1> QED  BY <1>2

\* A container that is opened, and seen, is what leads to it becomes.
LEMMA LeadsTurns ==
    ASSUME NEW g, NEW h, NEW m, NEW stk, Shape(g.nodes, h, m, stk),
           NEW a, NEW n, NEW k, <<a, n>> \in Leads(g), <<n, k>> \in m
    PROVE  <<a, Ref(k)>> \in Becomes(g, h, m)
<1>1. a \in ValuesOf(g) /\ Behind(g, a) = Ref(n)
  BY DEF Leads
<1>2. k \in DOMAIN h
  BY DEF Shape
<1>3. Ref(k) \in Outcomes(g, h)
  BY <1>2 DEF Outcomes
<1>4. IsRef(Ref(n)) /\ Ref(n).to = n /\ IsRef(Ref(k)) /\ Ref(k).to = k
  BY DEF Ref, IsRef
<1>5. Turns(g, h, m, <<a, Ref(k)>>)
  BY <1>1, <1>4 DEF Turns
<1> QED  BY <1>1, <1>3, <1>5 DEF Becomes

\* A value that is stored changes one container, which keeps its type.
LEMMA StoredFacts ==
    ASSUME NEW from, NEW onto, NEW met, NEW stk, Shape(from, onto, met, stk),
           NEW v, NEW new, new = Filled(onto, stk, v)
    PROVE  /\ Extends(onto, new)
           /\ \A k \in DOMAIN new :
                 /\ k \in DOMAIN onto
                 /\ \/ new[k].elems = onto[k].elems
                    \/ /\ new[k].type # "code" /\ onto[k].type # "code"
                       /\ new[k].elems = Append(onto[k].elems, v)
<1>1. CASE stk = <<>>
  <2>1. new = onto
    BY <1>1 DEF Filled
  <2> QED  BY <2>1 DEF Extends
<1>2. CASE stk # <<>>
  <2> DEFINE j == Len(stk)
             k == stk[j].image
  <2>1. j \in DOMAIN stk
    <3>1. j # 0 /\ j \in Nat /\ DOMAIN stk = 1 .. j
      BY <1>2, ShapeFacts, EmptySeq DEF Shape, Heap
    <3>2. \A x \in Nat : x # 0 => x \in 1 .. x
      OBVIOUS
    <3> HIDE DEF j
    <3> QED  BY <3>1, <3>2
  <2>2. Last(stk).image = k
    BY DEF Last
  <2>3. k \in DOMAIN onto /\ onto[k].type = from[stk[j].node].type
        /\ from[stk[j].node].type \in Containers
    <3>1. PICK p \in met : p = <<stk[j].node, stk[j].image>>
      BY <2>1 DEF Shape
    <3>2. p[1] = stk[j].node /\ p[2] = k
      BY <3>1
    <3> QED  BY <3>2 DEF Shape
  <2>4. onto[k].type # "code"
    BY <2>3 DEF Containers
  <2> HIDE DEF k, j
  <2>5. Heap(onto) /\ \A i \in DOMAIN onto : Box(onto[i])
    BY DEF Shape
  <2>6. /\ DOMAIN new = DOMAIN onto
        /\ \A i \in DOMAIN onto : new[i].type = onto[i].type
        /\ new[k].elems = Append(onto[k].elems, v)
        /\ \A i \in DOMAIN onto \ {k} : new[i] = onto[i]
    BY <1>2, <2>2, <2>3, <2>5, FillFacts
  <2>7. Extends(onto, new)
    BY <2>6 DEF Extends
  <2>8. new[k].type # "code"
    BY <2>3, <2>4, <2>6
  <2> QED  BY <2>4, <2>6, <2>7, <2>8
<1> QED  BY <1>1, <1>2

\* Adding an outcome.
LEMMA OutcomesAdded ==
    ASSUME NEW s, Heap(s), NEW S, \A i \in 1 .. Len(s) : s[i] \in S, NEW v \in S
    PROVE  /\ Heap(Append(s, v))
           /\ \A i \in 1 .. Len(Append(s, v)) : Append(s, v)[i] \in S
<1> DEFINE t == Append(s, v)
<1>1. /\ Heap(t) /\ Len(s) \in Nat /\ Len(t) = Len(s) + 1 /\ t[Len(s) + 1] = v
      /\ \A i \in 1 .. Len(s) : t[i] = s[i]
  BY Adds
<1> HIDE DEF t
<1>2. \A n \in Nat : \A i \in 1 .. n + 1 : i \in 1 .. n \/ i = n + 1
  OBVIOUS
<1>3. ASSUME NEW i \in 1 .. Len(s) + 1 PROVE t[i] \in S
  BY <1>1, <1>2
<1> QED  BY <1>1, <1>3 DEF t

\* What the waiting value has become is stored.
LEMMA SettingStores ==
    ASSUME NEW g, IsGraph(g), NEW h, NEW m, NEW stk, NEW wait, NEW res,
           Setting(g, h, m, stk, FALSE, wait, res),
           NEW v, <<wait, v>> \in Becomes(g, h, m),
           NEW new, new = Filled(h, stk, v),
           NEW out, out = (IF stk = <<>> THEN v ELSE res)
    PROVE  Setting(g, new, m, stk, TRUE, Hole, out)
<1> DEFINE M == Becomes(g, h, m)
           N == Becomes(g, new, m)
<1>1. /\ Made(g, h)
      /\ Walk(g.nodes, h, m, stk, FALSE, wait, g.root, res, M, Leads(g))
  BY DEF Setting
<1>2. Shape(g.nodes, h, m, stk)
  BY <1>1 DEF Walk
<1>3. /\ Extends(h, new)
      /\ \A k \in DOMAIN new :
            /\ k \in DOMAIN h
            /\ \/ new[k].elems = h[k].elems
               \/ /\ new[k].type # "code" /\ h[k].type # "code"
                  /\ new[k].elems = Append(h[k].elems, v)
  BY <1>2, StoredFacts
<1>4. M \subseteq N /\ Outcomes(g, h) \subseteq Outcomes(g, new)
  <2>1. m \subseteq m
    OBVIOUS
  <2> QED  BY <1>3, <2>1, BecomesWidens
<1>5. v \in Outcomes(g, new)
  BY <1>4 DEF Becomes
<1>6. Made(g, new)
  <2>1. ASSUME NEW k \in DOMAIN new, new[k].elems # h[k].elems
        PROVE  /\ new[k].type # "code" /\ Heap(new[k].elems)
               /\ \A i \in 1 .. Len(new[k].elems) : new[k].elems[i] \in Outcomes(g, new)
    <3>1. /\ k \in DOMAIN h /\ new[k].type # "code" /\ h[k].type # "code"
          /\ new[k].elems = Append(h[k].elems, v)
      BY <1>3, <2>1
    <3>2. /\ Heap(h[k].elems)
          /\ \A i \in 1 .. Len(h[k].elems) : h[k].elems[i] \in Outcomes(g, new)
      BY <1>1, <1>4, <3>1 DEF Made
    <3> DEFINE t == h[k].elems
               S == Outcomes(g, new)
    <3> HIDE DEF t, S
    <3>3. Heap(t) /\ (\A i \in 1 .. Len(t) : t[i] \in S) /\ v \in S
      BY <1>5, <3>2 DEF t, S
    <3>4. /\ Heap(Append(t, v))
          /\ \A i \in 1 .. Len(Append(t, v)) : Append(t, v)[i] \in S
      BY ONLY <3>3, OutcomesAdded
    <3>5. new[k].elems = Append(t, v)
      BY <3>1 DEF t
    <3> QED  BY <3>1, <3>4, <3>5 DEF S
  <2> QED  BY <1>1, <1>3, <2>1, MadeWidens
<1> HIDE DEF M, N
<1>7. <<wait, v>> \in N
  BY <1>4 DEF M
<1>8. Walk(g.nodes, new, m, stk, TRUE, Hole, g.root, out, N, Leads(g))
  BY <1>1, <1>4, <1>7, WalkStores
<1> QED  BY <1>6, <1>8 DEF Setting, N
----------------------------------------------------------------------------
(* The steps of set. *)

\* A scalar that was followed led from wait to the value that is converted.
Awaited(g, wait, visit) ==
    /\ wait \in ValuesOf(g)
    /\ visit.value \in ValuesOf(g) /\ visit.value # Hole
    /\ visit.ref \in BOOLEAN
    /\ Behind(g, wait) = Behind(g, visit.value)
    /\ IF visit.ref THEN IsScalar(g, wait) ELSE visit.value = wait

Sets(g, h, m, stk, visit, res) ==
    IF visit = Nothing THEN Setting(g, h, m, stk, TRUE, Hole, res)
    ELSE \E wait : Awaited(g, wait, visit) /\ Setting(g, h, m, stk, FALSE, wait, res)

SetNow == Sets(source, js, p2j, stack, pending, result)

\* The first value that is no scalar is what is behind the one that waits.
LEMMA Arrives ==
    ASSUME NEW g, IsGraph(g), NEW wait, NEW visit, Awaited(g, wait, visit),
           ~ IsScalar(g, visit.value)
    PROVE  Behind(g, wait) = visit.value /\ visit.ref = (visit.value # wait)
<1>1. Behind(g, visit.value) = visit.value
  BY BehindFacts DEF Awaited
<1>2. CASE visit.ref = TRUE
  BY <1>1, <1>2 DEF Awaited
<1>3. CASE visit.ref = FALSE
  BY <1>1, <1>3 DEF Awaited
<1> QED  BY <1>2, <1>3 DEF Awaited

\* A leaf is converted.
LEMMA SetLeaf == ASSUME IsGraph(source), SetNow, ConvertLeaf PROVE SetNow'
<1> DEFINE v == LeafToJs(pending.value, pending.ref)
<1>1. /\ pending # Nothing /\ IsLeaf(pending.value)
      /\ js' = Filled(js, stack, v) /\ result' = (IF stack = <<>> THEN v ELSE result)
      /\ pending' = Nothing /\ UNCHANGED <<source, p2j, stack>>
  BY DEF ConvertLeaf, Returned
<1>2. PICK wait : /\ Awaited(source, wait, pending)
                  /\ Setting(source, js, p2j, stack, FALSE, wait, result)
  BY <1>1 DEF SetNow, Sets
<1>3. /\ pending.value \in ValuesOf(source) /\ pending.value # Hole
      /\ pending.ref \in BOOLEAN /\ wait \in ValuesOf(source)
  BY <1>2 DEF Awaited
<1>4. ~ IsScalar(source, pending.value)
  BY <1>1, <1>3, PerlValues DEF IsScalar
<1>5. Behind(source, wait) = pending.value /\ pending.ref = (pending.value # wait)
  BY <1>2, <1>4, Arrives
<1>6. v \in Outcomes(source, js)
  BY <1>1, <1>3 DEF Outcomes, JsLeaves
<1>7. Turns(source, js, p2j, <<wait, v>>)
  BY <1>1, <1>5 DEF Turns
<1> HIDE DEF v
<1>8. <<wait, v>> \in Becomes(source, js, p2j)
  BY <1>3, <1>6, <1>7 DEF Becomes
<1>9. Setting(source, js', p2j, stack, TRUE, Hole, result')
  BY <1>1, <1>2, <1>8, SettingStores
<1> QED  BY <1>1, <1>9 DEF SetNow, Sets

\* What a reference to a container or a sub is converted for.
LEMMA SetReaches ==
    ASSUME IsGraph(source), SetNow, NEW n \in DOMAIN source.nodes, ToJs(n),
           source.nodes[n].type # "scalar"
    PROVE  \E wait : /\ Setting(source, js, p2j, stack, FALSE, wait, result)
                     /\ <<wait, n>> \in Leads(source) /\ wait \in ValuesOf(source)
                     /\ Behind(source, wait) = Ref(n)
<1>1. pending # Nothing /\ IsRef(pending.value) /\ pending.value.to = n
  BY DEF ToJs
<1>2. PICK wait : /\ Awaited(source, wait, pending)
                  /\ Setting(source, js, p2j, stack, FALSE, wait, result)
  BY <1>1 DEF SetNow, Sets
<1>3. wait \in ValuesOf(source) /\ pending.value \in ValuesOf(source)
  BY <1>2 DEF Awaited
<1>4. pending.value = Ref(n)
  BY <1>1, <1>3, PerlValues
<1>5. ~ IsScalar(source, pending.value)
  BY <1>1 DEF IsScalar
<1>6. Behind(source, wait) = Ref(n)
  BY <1>2, <1>4, <1>5, Arrives
<1>7. <<wait, n>> \in Leads(source)
  BY <1>3, <1>6 DEF Leads
<1> QED  BY <1>2, <1>3, <1>6, <1>7

\* A container that was seen is not converted again.
LEMMA SetReuse ==
    ASSUME IsGraph(source), SetNow, NEW n \in DOMAIN source.nodes, Reuse(n)
    PROVE  SetNow'
<1>1. /\ ToJs(n) /\ source.nodes[n].type # "scalar" /\ pending' = Nothing
      /\ UNCHANGED <<source, p2j, stack>>
  BY DEF Reuse, ToJs, Containers
<1>2. PICK p \in p2j : /\ p[1] = n /\ js' = Filled(js, stack, Ref(p[2]))
                       /\ result' = (IF stack = <<>> THEN Ref(p[2]) ELSE result)
  BY DEF Reuse, Returned
<1>3. PICK wait : /\ Setting(source, js, p2j, stack, FALSE, wait, result)
                  /\ <<wait, n>> \in Leads(source)
  BY <1>1, SetReaches
<1>4. Shape(source.nodes, js, p2j, stack)
  BY <1>3 DEF Setting, Walk
<1>5. p = <<n, p[2]>>
  BY <1>2, <1>4 DEF Shape
<1>6. <<n, p[2]>> \in p2j
  BY <1>5
<1>7. <<wait, Ref(p[2])>> \in Becomes(source, js, p2j)
  BY <1>3, <1>4, <1>6, LeadsTurns
<1>8. Setting(source, js', p2j, stack, TRUE, Hole, result')
  BY <1>2, <1>3, <1>7, SettingStores
<1> QED  BY <1>1, <1>8 DEF SetNow, Sets

\* A scalar is followed.
LEMMA SetDeref ==
    ASSUME IsGraph(source), SetNow, NEW n \in DOMAIN source.nodes, Deref(n)
    PROVE  SetNow'
<1> DEFINE inner == source.nodes[n].elems[1]
<1>1. /\ pending # Nothing /\ IsRef(pending.value) /\ pending.value.to = n
      /\ source.nodes[n].type = "scalar" /\ pending' = Visit(inner, TRUE)
      /\ UNCHANGED <<source, js, p2j, stack, result>>
  BY DEF Deref, ToJs
<1>2. PICK wait : /\ Awaited(source, wait, pending)
                  /\ Setting(source, js, p2j, stack, FALSE, wait, result)
  BY <1>1 DEF SetNow, Sets
<1>3. IsScalar(source, pending.value) /\ pending.value \in ValuesOf(source)
  BY <1>1, <1>2 DEF IsScalar, Awaited
<1>4. inner \in ValuesOf(source) /\ Behind(source, pending.value) = Behind(source, inner)
  BY <1>1, <1>3, BehindFacts
<1>5. inner # Hole
  BY <1>1 DEF IsGraph
<1>6. IsScalar(source, wait)
  BY <1>2, <1>3 DEF Awaited
<1> HIDE DEF inner
<1>7. pending'.value = inner /\ pending'.ref = TRUE /\ pending' # Nothing
  BY <1>1 DEF Visit, Nothing
<1>8. Awaited(source, wait, pending')
  BY <1>2, <1>4, <1>5, <1>6, <1>7 DEF Awaited
<1> QED  BY <1>1, <1>2, <1>7, <1>8 DEF SetNow, Sets

\* A sub is made a function, and what waits becomes it.
LEMMA SettingGrows ==
    ASSUME NEW g, IsGraph(g), NEW h, NEW m, NEW stk, NEW wait, NEW res,
           Setting(g, h, m, stk, FALSE, wait, res),
           NEW j, NEW e, e = [type |-> "code", elems |-> <<[func |-> j]>>],
           NEW new, new = Append(h, e),
           NEW n \in DOMAIN g.nodes, g.nodes[n].type = "code",
           wait \in ValuesOf(g), Behind(g, wait) = Ref(n)
    PROVE  /\ Setting(g, new, m, stk, FALSE, wait, res)
           /\ <<wait, Ref(Len(new))>> \in Becomes(g, new, m)
<1> DEFINE M == Becomes(g, h, m)
           N == Becomes(g, new, m)
<1>1. Made(g, h) /\ Walk(g.nodes, h, m, stk, FALSE, wait, g.root, res, M, Leads(g))
  BY DEF Setting
<1>2. /\ Len(h) \in Nat /\ DOMAIN h = 1 .. Len(h) /\ DOMAIN new = 1 .. Len(h) + 1
      /\ Len(new) = Len(h) + 1 /\ new[Len(h) + 1] = e
      /\ \A k \in 1 .. Len(h) : new[k] = h[k]
  BY <1>1, Adds DEF Walk, Shape
<1>3. Box(e) /\ e.type = "code" /\ "func" \in DOMAIN e.elems[1]
  BY DEF Box
<1> HIDE DEF M, N
<1>4. Extends(h, new)
  BY <1>2 DEF Extends
<1>5. M \subseteq N
  <2>1. m \subseteq m
    OBVIOUS
  <2> QED  BY <1>4, <2>1, BecomesWidens DEF M, N
<1>6. Made(g, new)
  <2>1. \A k \in DOMAIN new : k \in DOMAIN h \/ k = Len(h) + 1
    BY <1>2
  <2>2. \A k \in DOMAIN new :
           \/ k \in DOMAIN h /\ new[k].elems = h[k].elems
           \/ new[k].type = "code" /\ "func" \in DOMAIN new[k].elems[1]
    BY <1>2, <1>3, <2>1
  <2> QED  BY <1>1, <1>4, <2>2, MadeWidens
<1>7. Walk(g.nodes, new, m, stk, FALSE, wait, g.root, res, N, Leads(g))
  BY <1>1, <1>3, <1>5, WalkGrows
<1> DEFINE k == Len(new)
<1>8. k \in DOMAIN new /\ new[k].type = "code"
  BY <1>2, <1>3
<1> HIDE DEF k
<1>9. Ref(k) \in Outcomes(g, new)
  BY <1>8 DEF Outcomes
<1>10. IsRef(Ref(n)) /\ Ref(n).to = n /\ IsRef(Ref(k)) /\ Ref(k).to = k
  BY DEF Ref, IsRef
<1>11. Turns(g, new, m, <<wait, Ref(k)>>)
  BY <1>8, <1>10 DEF Turns
<1>12. <<wait, Ref(k)>> \in N
  BY <1>9, <1>11 DEF Becomes, N
<1> QED  BY <1>6, <1>7, <1>12 DEF Setting, N, k

\* A sub is converted.
LEMMA SetCode ==
    ASSUME IsGraph(source), SetNow, NEW n \in DOMAIN source.nodes, ConvertCode(n)
    PROVE  SetNow'
<1> DEFINE e == [type |-> "code", elems |-> <<[func |-> Len(func) + 1]>>]
           made == Append(js, e)
           v == Ref(Len(made))
<1>1. /\ ToJs(n) /\ source.nodes[n].type = "code" /\ source.nodes[n].type # "scalar"
      /\ js' = Filled(made, stack, v) /\ result' = (IF stack = <<>> THEN v ELSE result)
      /\ pending' = Nothing /\ UNCHANGED <<source, p2j, stack>>
  BY DEF ConvertCode, ToJs, Returned
<1>2. PICK wait : /\ Setting(source, js, p2j, stack, FALSE, wait, result)
                  /\ wait \in ValuesOf(source) /\ Behind(source, wait) = Ref(n)
  BY <1>1, SetReaches
<1>3. /\ Setting(source, made, p2j, stack, FALSE, wait, result)
      /\ <<wait, v>> \in Becomes(source, made, p2j)
  BY <1>1, <1>2, SettingGrows
<1> HIDE DEF made, v
<1>4. Setting(source, js', p2j, stack, TRUE, Hole, result')
  BY <1>1, <1>3, SettingStores
<1> QED  BY <1>1, <1>4 DEF SetNow, Sets

\* A container is opened.
LEMMA SetOpen ==
    ASSUME IsGraph(source), SetNow, NEW n \in DOMAIN source.nodes, Open(n)
    PROVE  SetNow'
<1> DEFINE k == Len(js) + 1
           e == [type |-> source.nodes[n].type, elems |-> <<>>]
           M == Becomes(source, js, p2j)
           N == Becomes(source, js', p2j')
<1>1. /\ ToJs(n) /\ source.nodes[n].type \in Containers
      /\ source.nodes[n].type \notin {"scalar", "code"}
      /\ js' = Append(js, e) /\ p2j' = p2j \cup {<<n, k>>}
      /\ stack' = Append(stack, [node |-> n, image |-> k, next |-> 1])
      /\ pending' = Nothing /\ UNCHANGED <<source, result>>
  BY DEF Open, ToJs, Containers
<1>2. PICK wait : /\ Setting(source, js, p2j, stack, FALSE, wait, result)
                  /\ <<wait, n>> \in Leads(source)
  BY <1>1, SetReaches
<1>3. /\ Made(source, js)
      /\ Walk(source.nodes, js, p2j, stack, FALSE, wait, source.root, result, M, Leads(source))
  BY <1>2 DEF Setting
<1>4. /\ Len(js) \in Nat /\ DOMAIN js = 1 .. Len(js) /\ DOMAIN js' = 1 .. Len(js) + 1
      /\ js'[Len(js) + 1] = e /\ \A i \in 1 .. Len(js) : js'[i] = js[i]
  BY <1>1, <1>3, Adds DEF Walk, Shape
<1>5. e.type = source.nodes[n].type /\ e.elems = <<>> /\ Heap(<<>>) /\ Len(<<>>) = 0
  BY EmptySeq DEF Heap
<1>6. Extends(js, js')
  BY <1>4 DEF Extends
<1> HIDE DEF M, N
<1>7. M \subseteq N
  <2>1. p2j \subseteq p2j'
    BY <1>1
  <2> QED  BY <1>6, <2>1, BecomesWidens DEF M, N
<1>8. Made(source, js')
  <2>1. \A i \in DOMAIN js' : i \in DOMAIN js \/ i = Len(js) + 1
    BY <1>4
  <2>2. ASSUME NEW i \in DOMAIN js', i \notin DOMAIN js
        PROVE  /\ js'[i].type # "code" /\ Heap(js'[i].elems)
               /\ \A j \in 1 .. Len(js'[i].elems) :
                     js'[i].elems[j] \in Outcomes(source, js')
    BY <1>1, <1>4, <1>5, <2>1, <2>2
  <2>3. \A i \in DOMAIN js : js'[i].elems = js[i].elems
    BY <1>4
  <2> QED  BY <1>3, <1>6, <2>2, <2>3, MadeWidens
<1>9. Heap(source.nodes[n].elems)
  BY PerlElements
<1>10. Walk(source.nodes, js', p2j', stack', TRUE, Hole, source.root, result, N, Leads(source))
  BY <1>1, <1>2, <1>3, <1>7, <1>9, WalkOpens
<1>11. Setting(source, js', p2j', stack', TRUE, Hole, result)
  BY <1>8, <1>10 DEF Setting, N
<1> QED  BY <1>1, <1>11 DEF SetNow, Sets

\* The next element is taken.
LEMMA SetElement ==
    ASSUME HeapInv, IsGraph(source), SetNow, phase = "to_js", Element
    PROVE  SetNow'
<1> DEFINE f == stack[Len(stack)]
           s == source.nodes[f.node].elems
           wait == s[f.next]
<1>1. /\ pending = Nothing /\ stack # <<>> /\ Last(stack) = f
      /\ f.next <= Len(s) /\ wait # Hole
      /\ pending' = Visit(wait, FALSE)
      /\ stack' = [stack EXCEPT ![Len(stack)].next = @ + 1]
      /\ UNCHANGED <<source, js, p2j, result>>
  BY DEF Element, Filling, Finished, Elems, Last
<1>2. Setting(source, js, p2j, stack, TRUE, Hole, result)
  BY <1>1 DEF SetNow, Sets
<1>3. /\ Made(source, js)
      /\ Walk(source.nodes, js, p2j, stack, TRUE, Hole, source.root, result,
              Becomes(source, js, p2j), Leads(source))
  BY <1>2 DEF Setting
<1>4. Len(stack) \in DOMAIN stack
  <2>1. Heap(stack)
    BY ONLY <1>3 DEF Walk, Shape
  <2> QED  BY ONLY <1>1, <2>1, HeapEnd
<1>5. f.next \in Nat \ {0} /\ <<f.node, f.image>> \in p2j
  BY <1>3, <1>4 DEF Walk, Shape
<1>6. f.node \in DOMAIN source.nodes
  BY <1>5 DEF HeapInv, TypeOK
<1> HIDE DEF f
<1>7. Heap(s) /\ \A i \in 1 .. Len(s) : s[i] \in ValuesOf(source)
  BY <1>6, PerlElements
<1> HIDE DEF s
<1>8. f.next \in 1 .. Len(s)
  <2>1. Len(s) \in Nat
    BY <1>7, Adds
  <2> QED  BY <1>1, <1>5, <2>1
<1>9. wait \in ValuesOf(source)
  BY <1>7, <1>8
<1> HIDE DEF wait
<1>10. pending'.value = wait /\ pending'.ref = FALSE /\ pending' # Nothing
  <2>1. wait # Leaf("none")
    BY <1>9, PerlValues
  <2> QED  BY <1>1, <2>1 DEF Visit, Nothing
<1>11. Awaited(source, wait, pending')
  BY <1>1, <1>9, <1>10 DEF Awaited
<1>12. Walk(source.nodes, js, p2j, stack', FALSE, wait, source.root, result,
            Becomes(source, js, p2j), Leads(source))
  BY <1>1, <1>3, WalkTakes DEF f, s, wait
<1>13. Setting(source, js, p2j, stack', FALSE, wait, result)
  BY <1>3, <1>12 DEF Setting
<1> QED  BY <1>1, <1>10, <1>11, <1>13 DEF SetNow, Sets

\* A container is complete.
LEMMA SetClose ==
    ASSUME IsGraph(source), SetNow, phase = "to_js", Close
    PROVE  SetNow'
<1> DEFINE f == stack[Len(stack)]
           s == source.nodes[f.node].elems
           v == Ref(f.image)
           M == Becomes(source, js, p2j)
<1>1. /\ pending = Nothing /\ stack # <<>> /\ Last(stack) = f
      /\ (f.next <= Len(s) => s[f.next] = Hole)
      /\ stack' = Front(stack)
      /\ js' = Filled(js, stack', v) /\ result' = (IF stack' = <<>> THEN v ELSE result)
      /\ UNCHANGED <<source, p2j, pending>>
  BY DEF Close, Filling, Finished, Elems, Last, Returned
<1>2. Made(source, js) /\ Walk(source.nodes, js, p2j, stack, TRUE, Hole, source.root,
                               result, M, Leads(source))
  BY <1>1 DEF SetNow, Sets, Setting
<1>3. Shape(source.nodes, js, p2j, stack)
  BY <1>2 DEF Walk
<1>4. \A a, n, k : <<a, n>> \in Leads(source) /\ <<n, k>> \in p2j => <<a, Ref(k)>> \in M
  BY <1>3, LeadsTurns
<1> HIDE DEF M
<1>5. PICK wait : /\ Walk(source.nodes, js, p2j, stack', FALSE, wait, source.root,
                          result, M, Leads(source))
                  /\ <<wait, v>> \in M
  BY <1>1, <1>2, <1>4, WalkPops
<1>6. Setting(source, js, p2j, stack', FALSE, wait, result)
  BY <1>2, <1>5 DEF Setting, M
<1> HIDE DEF v
<1>7. Setting(source, js', p2j, stack', TRUE, Hole, result')
  BY <1>1, <1>5, <1>6, SettingStores DEF M
<1> QED  BY <1>1, <1>7 DEF SetNow, Sets
----------------------------------------------------------------------------
(* What get makes of objects, in the containers pl, having seen m. *)

Answers(g, h, pl) ==
    {LeafToPerl(w) : w \in JsLeaves(g)} \cup {h[k].elems[1] : k \in DOMAIN h}
    \cup {Ref(k) : k \in DOMAIN pl}

TurnsBack(h, m, p) ==
    \/ IsLeaf(p[1]) /\ p[2] = LeafToPerl(p[1])
    \/ IsRef(p[1]) /\ h[p[1].to].type = "code" /\ "func" \in DOMAIN p[2]
    \/ IsRef(p[1]) /\ IsRef(p[2]) /\ <<p[1].to, p[2].to>> \in m

BecomesBack(g, h, pl, m) == {p \in Outcomes(g, h) \X Answers(g, h, pl) : TurnsBack(h, m, p)}
LeadsBack(g, h) == {p \in Outcomes(g, h) \X DOMAIN h : p[1] = Ref(p[2])}

\* root is what set has returned.
Getting(g, h, pl, m, stk, idle, wait, root, res) ==
    Walk(h, pl, m, stk, idle, wait, root, res, BecomesBack(g, h, pl, m), LeadsBack(g, h))

Gets(g, h, pl, m, stk, visit, root, res) ==
    IF visit = Nothing THEN Getting(g, h, pl, m, stk, TRUE, Hole, root, res)
    ELSE /\ visit.value \in Outcomes(g, h)
         /\ Getting(g, h, pl, m, stk, FALSE, visit.value, root, res)

GetNow == \E root : /\ Setting(source, js, p2j, <<>>, TRUE, Hole, root)
                    /\ Gets(source, js, perl, j2p, stack, pending, root, result)

\* With more containers, and more of them seen, more is possible.
LEMMA BackWidens ==
    ASSUME NEW g, NEW h, NEW pl, NEW m, NEW new, NEW n, Extends(pl, new), m \subseteq n
    PROVE  BecomesBack(g, h, pl, m) \subseteq BecomesBack(g, h, new, n)
<1>1. Answers(g, h, pl) \subseteq Answers(g, h, new)
  BY DEF Answers, Extends
<1>2. \A p : TurnsBack(h, m, p) => TurnsBack(h, n, p)
  BY DEF TurnsBack
<1> QED  BY <1>1, <1>2 DEF BecomesBack

\* A container that is opened, and seen, is what its object becomes.
LEMMA BackTurns ==
    ASSUME NEW g, NEW h, NEW pl, NEW m, NEW stk, Shape(h, pl, m, stk),
           NEW a, NEW n, NEW k, <<a, n>> \in LeadsBack(g, h), <<n, k>> \in m
    PROVE  <<a, Ref(k)>> \in BecomesBack(g, h, pl, m)
<1>1. a \in Outcomes(g, h) /\ a = Ref(n)
  BY DEF LeadsBack
<1>2. k \in DOMAIN pl
  BY DEF Shape
<1>3. Ref(k) \in Answers(g, h, pl)
  BY <1>2 DEF Answers
<1>4. IsRef(Ref(n)) /\ Ref(n).to = n /\ IsRef(Ref(k)) /\ Ref(k).to = k
  BY DEF Ref, IsRef
<1>5. TurnsBack(h, m, <<a, Ref(k)>>)
  BY <1>1, <1>4 DEF TurnsBack
<1> QED  BY <1>1, <1>3, <1>5 DEF BecomesBack

\* What the waiting value has become is stored.
LEMMA GettingStores ==
    ASSUME NEW g, NEW h, NEW pl, NEW m, NEW stk, NEW wait, NEW root, NEW res,
           Getting(g, h, pl, m, stk, FALSE, wait, root, res),
           NEW v, <<wait, v>> \in BecomesBack(g, h, pl, m),
           NEW new, new = Filled(pl, stk, v),
           NEW out, out = (IF stk = <<>> THEN v ELSE res)
    PROVE  Getting(g, h, new, m, stk, TRUE, Hole, root, out)
<1> DEFINE M == BecomesBack(g, h, pl, m)
           N == BecomesBack(g, h, new, m)
<1>1. Walk(h, pl, m, stk, FALSE, wait, root, res, M, LeadsBack(g, h))
  BY DEF Getting
<1>2. Shape(h, pl, m, stk)
  BY <1>1 DEF Walk
<1>3. Extends(pl, new)
  BY <1>2, StoredFacts
<1>4. M \subseteq N
  <2>1. m \subseteq m
    OBVIOUS
  <2> QED  BY <1>3, <2>1, BackWidens
<1> HIDE DEF M, N
<1>5. <<wait, v>> \in N
  BY <1>4 DEF M
<1>6. Walk(h, new, m, stk, TRUE, Hole, root, out, N, LeadsBack(g, h))
  BY <1>1, <1>4, <1>5, WalkStores
<1> QED  BY <1>6 DEF Getting, N

\* get starts from what set returned.
LEMMA GetStarts ==
    ASSUME IsGraph(source), SetNow, perl = <<>>, j2p = {}, Get
    PROVE  GetNow'
<1>1. /\ pending = Nothing /\ stack = <<>> /\ pending' = Visit(result, FALSE)
      /\ UNCHANGED <<source, js, perl, p2j, j2p, stack, result>>
  BY DEF Get, Idle
<1>2. Setting(source, js, p2j, <<>>, TRUE, Hole, result)
  BY <1>1 DEF SetNow, Sets
<1>3. result \in Outcomes(source, js)
  BY <1>2 DEF Setting, Walk, AtRoot, Becomes
<1>4. pending'.value = result /\ pending' # Nothing
  <2>1. result # Leaf("none")
    BY <1>3, OutcomeFacts
  <2> QED  BY <1>1, <2>1 DEF Visit, Nothing
<1>5. Getting(source, js, perl, j2p, stack, FALSE, result, result, result)
  <2>1. Heap(<<>>) /\ DOMAIN <<>> = {}
    BY EmptySeq DEF Heap
  <2>2. Shape(js, perl, j2p, stack)
    BY <1>1, <2>1 DEF Shape
  <2> DEFINE M == BecomesBack(source, js, perl, j2p)
             T == LeadsBack(source, js)
  <2> HIDE DEF M, T
  <2>3. /\ Frames(js, perl, stack, FALSE, result, M, T)
        /\ AtRoot(stack, FALSE, result, result, result, M, T)
        /\ Closed(js, perl, j2p, stack, M)
    BY <1>1, <2>1 DEF Frames, AtRoot, Closed
  <2> QED  BY <2>2, <2>3 DEF Getting, Walk, M, T
<1>6. Gets(source, js, perl, j2p, stack, pending', result, result)
  BY <1>3, <1>4, <1>5 DEF Gets
<1> QED  BY <1>1, <1>2, <1>6 DEF GetNow

\* A leaf is converted back.
LEMMA GetLeaf == ASSUME IsGraph(source), GetNow, ConvertLeafBack PROVE GetNow'
<1> DEFINE v == LeafToPerl(pending.value)
<1>1. /\ pending # Nothing /\ IsLeaf(pending.value)
      /\ perl' = Filled(perl, stack, v) /\ result' = (IF stack = <<>> THEN v ELSE result)
      /\ pending' = Nothing /\ UNCHANGED <<source, js, p2j, j2p, stack>>
  BY DEF ConvertLeafBack, Returned
<1>2. PICK root : /\ Setting(source, js, p2j, <<>>, TRUE, Hole, root)
                  /\ pending.value \in Outcomes(source, js)
                  /\ Getting(source, js, perl, j2p, stack, FALSE, pending.value, root, result)
  BY <1>1 DEF GetNow, Gets
<1>3. v \in Answers(source, js, perl)
  <2>1. pending.value \in JsLeaves(source)
    BY <1>1, <1>2, OutcomeFacts
  <2> QED  BY <2>1 DEF Answers
<1>4. TurnsBack(js, j2p, <<pending.value, v>>)
  BY <1>1 DEF TurnsBack
<1> HIDE DEF v
<1>5. <<pending.value, v>> \in BecomesBack(source, js, perl, j2p)
  BY <1>2, <1>3, <1>4 DEF BecomesBack
<1>6. Getting(source, js, perl', j2p, stack, TRUE, Hole, root, result')
  BY <1>1, <1>2, <1>5, GettingStores
<1> QED  BY <1>1, <1>2, <1>6 DEF GetNow, Gets

\* What a reference to an object is converted for.
LEMMA GetReaches ==
    ASSUME IsGraph(source), GetNow, NEW n \in DOMAIN js, ToPerl(n)
    PROVE  \E root : /\ Setting(source, js, p2j, <<>>, TRUE, Hole, root)
                     /\ Getting(source, js, perl, j2p, stack, FALSE, Ref(n), root, result)
                     /\ <<Ref(n), n>> \in LeadsBack(source, js)
                     /\ Ref(n) \in Outcomes(source, js)
<1>1. pending # Nothing /\ IsRef(pending.value) /\ pending.value.to = n
  BY DEF ToPerl
<1>2. PICK root : /\ Setting(source, js, p2j, <<>>, TRUE, Hole, root)
                  /\ pending.value \in Outcomes(source, js)
                  /\ Getting(source, js, perl, j2p, stack, FALSE, pending.value, root, result)
  BY <1>1 DEF GetNow, Gets
<1>3. pending.value = Ref(n)
  BY <1>1, <1>2, OutcomeFacts
<1>4. <<Ref(n), n>> \in LeadsBack(source, js)
  BY <1>2, <1>3 DEF LeadsBack
<1> QED  BY <1>2, <1>3, <1>4

\* A function gives back its sub.
LEMMA GetCode ==
    ASSUME IsGraph(source), GetNow, NEW n \in DOMAIN js, ConvertCodeBack(n)
    PROVE  GetNow'
<1> DEFINE v == js[n].elems[1]
<1>1. /\ ToPerl(n) /\ js[n].type = "code"
      /\ perl' = Filled(perl, stack, v) /\ result' = (IF stack = <<>> THEN v ELSE result)
      /\ pending' = Nothing /\ UNCHANGED <<source, js, p2j, j2p, stack>>
  BY DEF ConvertCodeBack, ToPerl, Returned
<1>2. PICK root : /\ Setting(source, js, p2j, <<>>, TRUE, Hole, root)
                  /\ Getting(source, js, perl, j2p, stack, FALSE, Ref(n), root, result)
                  /\ Ref(n) \in Outcomes(source, js)
  BY <1>1, GetReaches
<1>3. "func" \in DOMAIN v
  BY <1>1, <1>2 DEF Setting, Made
<1>4. v \in Answers(source, js, perl)
  BY DEF Answers
<1> HIDE DEF v
<1>5. IsRef(Ref(n)) /\ Ref(n).to = n
  BY DEF Ref, IsRef
<1>6. TurnsBack(js, j2p, <<Ref(n), v>>)
  BY <1>1, <1>3, <1>5 DEF TurnsBack
<1>7. <<Ref(n), v>> \in BecomesBack(source, js, perl, j2p)
  BY <1>2, <1>4, <1>6 DEF BecomesBack
<1>8. Getting(source, js, perl', j2p, stack, TRUE, Hole, root, result')
  BY <1>1, <1>2, <1>7, GettingStores
<1> QED  BY <1>1, <1>2, <1>8 DEF GetNow, Gets

\* A container that the map finds is not made again.
LEMMA GetReuse ==
    ASSUME IsGraph(source), GetNow, NEW n \in DOMAIN js, ReuseBack(n)
    PROVE  GetNow'
<1>1. ToPerl(n) /\ pending' = Nothing /\ UNCHANGED <<source, js, p2j, j2p, stack>>
  BY DEF ReuseBack, ToPerl
<1>2. PICK p \in j2p : /\ p[1] = n /\ perl' = Filled(perl, stack, Ref(p[2]))
                       /\ result' = (IF stack = <<>> THEN Ref(p[2]) ELSE result)
  BY DEF ReuseBack, Returned
<1>3. PICK root : /\ Setting(source, js, p2j, <<>>, TRUE, Hole, root)
                  /\ Getting(source, js, perl, j2p, stack, FALSE, Ref(n), root, result)
                  /\ <<Ref(n), n>> \in LeadsBack(source, js)
  BY <1>1, GetReaches
<1>4. Shape(js, perl, j2p, stack)
  BY <1>3 DEF Getting, Walk
<1>5. <<n, p[2]>> \in j2p
  BY <1>2, <1>4 DEF Shape
<1>6. <<Ref(n), Ref(p[2])>> \in BecomesBack(source, js, perl, j2p)
  BY <1>3, <1>4, <1>5, BackTurns
<1>7. Getting(source, js, perl', j2p, stack, TRUE, Hole, root, result')
  BY <1>2, <1>3, <1>6, GettingStores
<1> QED  BY <1>1, <1>3, <1>7 DEF GetNow, Gets

\* A container is made for an object.
LEMMA GetOpen ==
    ASSUME IsGraph(source), GetNow, NEW n \in DOMAIN js, OpenBack(n)
    PROVE  GetNow'
<1> DEFINE k == Len(perl) + 1
           M == BecomesBack(source, js, perl, j2p)
           N == BecomesBack(source, js, perl', j2p')
           T == LeadsBack(source, js)
<1>1. /\ ToPerl(n) /\ js[n].type \in Containers /\ js[n].type # "code"
      /\ perl' = Append(perl, [type |-> js[n].type, elems |-> <<>>])
      /\ j2p' = j2p \cup {<<n, k>>}
      /\ stack' = Append(stack, [node |-> n, image |-> k, next |-> 1])
      /\ pending' = Nothing /\ UNCHANGED <<source, js, p2j, result>>
  BY DEF OpenBack, ToPerl, Containers
<1>2. PICK root : /\ Setting(source, js, p2j, <<>>, TRUE, Hole, root)
                  /\ Getting(source, js, perl, j2p, stack, FALSE, Ref(n), root, result)
                  /\ <<Ref(n), n>> \in T
  BY <1>1, GetReaches
<1>3. Walk(js, perl, j2p, stack, FALSE, Ref(n), root, result, M, T)
  BY <1>2 DEF Getting
<1>4. Extends(perl, perl')
  <2>1. /\ Len(perl) \in Nat /\ DOMAIN perl = 1 .. Len(perl)
        /\ DOMAIN perl' = 1 .. Len(perl) + 1
        /\ \A i \in 1 .. Len(perl) : perl'[i] = perl[i]
    BY <1>1, <1>3, Adds DEF Walk, Shape
  <2> QED  BY <2>1 DEF Extends
<1>5. Heap(js[n].elems)
  BY <1>1, <1>2 DEF Setting, Made
<1> HIDE DEF M, N, T
<1>6. M \subseteq N
  <2>1. j2p \subseteq j2p'
    BY <1>1
  <2> QED  BY <1>4, <2>1, BackWidens DEF M, N
<1>7. Walk(js, perl', j2p', stack', TRUE, Hole, root, result, N, T)
  BY <1>1, <1>2, <1>3, <1>5, <1>6, WalkOpens
<1>8. Getting(source, js, perl', j2p', stack', TRUE, Hole, root, result)
  BY <1>7 DEF Getting, N, T
<1> QED  BY <1>1, <1>2, <1>8 DEF GetNow, Gets

\* The next element is taken.
LEMMA GetElement ==
    ASSUME HeapInv, IsGraph(source), GetNow, phase = "to_perl", Element
    PROVE  GetNow'
<1> DEFINE f == stack[Len(stack)]
           s == js[f.node].elems
           wait == s[f.next]
           M == BecomesBack(source, js, perl, j2p)
           T == LeadsBack(source, js)
<1>1. /\ pending = Nothing /\ stack # <<>>
      /\ f.next <= Len(s) /\ wait # Hole
      /\ pending' = Visit(wait, FALSE)
      /\ stack' = [stack EXCEPT ![Len(stack)].next = @ + 1]
      /\ UNCHANGED <<source, js, perl, p2j, j2p, result>>
  BY DEF Element, Filling, Finished, Elems, Last
<1>2. PICK root : /\ Setting(source, js, p2j, <<>>, TRUE, Hole, root)
                  /\ Getting(source, js, perl, j2p, stack, TRUE, Hole, root, result)
  BY <1>1 DEF GetNow, Gets
<1>3. Walk(js, perl, j2p, stack, TRUE, Hole, root, result, M, T)
  BY <1>2 DEF Getting
<1> HIDE DEF M, T
<1>4. Len(stack) \in DOMAIN stack
  <2>1. Heap(stack)
    BY ONLY <1>3 DEF Walk, Shape
  <2> QED  BY ONLY <1>1, <2>1, HeapEnd
<1>5. f.next \in Nat \ {0} /\ <<f.node, f.image>> \in j2p /\ js[f.node].type # "code"
  <2>1. Shape(js, perl, j2p, stack)
    BY <1>3 DEF Walk
  <2>2. js[f.node].type \in Containers
    BY <1>4, <2>1, ShapeFacts
  <2> QED  BY <1>4, <2>1, <2>2 DEF Shape, Containers
<1>6. f.node \in DOMAIN js
  BY <1>5 DEF HeapInv, TypeOK
<1> HIDE DEF f
<1>7. Heap(s) /\ \A i \in 1 .. Len(s) : s[i] \in Outcomes(source, js)
  BY <1>2, <1>5, <1>6 DEF Setting, Made
<1> HIDE DEF s
<1>8. f.next \in 1 .. Len(s)
  <2>1. Len(s) \in Nat
    BY <1>7, Adds
  <2> QED  BY <1>1, <1>5, <2>1
<1>9. wait \in Outcomes(source, js)
  BY <1>7, <1>8
<1> HIDE DEF wait
<1>10. pending'.value = wait /\ pending' # Nothing
  <2>1. wait # Leaf("none")
    BY <1>9, OutcomeFacts
  <2> QED  BY <1>1, <2>1 DEF Visit, Nothing
<1>11. Walk(js, perl, j2p, stack', FALSE, wait, root, result, M, T)
  BY <1>1, <1>3, WalkTakes DEF f, s, wait
<1>12. Getting(source, js, perl, j2p, stack', FALSE, wait, root, result)
  BY <1>11 DEF Getting, M, T
<1> QED  BY <1>1, <1>2, <1>9, <1>10, <1>12 DEF GetNow, Gets

\* A container is complete.
LEMMA GetClose ==
    ASSUME IsGraph(source), GetNow, phase = "to_perl", Close
    PROVE  GetNow'
<1> DEFINE f == stack[Len(stack)]
           s == js[f.node].elems
           v == Ref(f.image)
           M == BecomesBack(source, js, perl, j2p)
           T == LeadsBack(source, js)
<1>1. /\ pending = Nothing /\ stack # <<>>
      /\ (f.next <= Len(s) => s[f.next] = Hole)
      /\ stack' = Front(stack)
      /\ perl' = Filled(perl, stack', v) /\ result' = (IF stack' = <<>> THEN v ELSE result)
      /\ UNCHANGED <<source, js, p2j, j2p, pending>>
  BY DEF Close, Filling, Finished, Elems, Last, Returned
<1>2. PICK root : /\ Setting(source, js, p2j, <<>>, TRUE, Hole, root)
                  /\ Getting(source, js, perl, j2p, stack, TRUE, Hole, root, result)
  BY <1>1 DEF GetNow, Gets
<1>3. Walk(js, perl, j2p, stack, TRUE, Hole, root, result, M, T)
  BY <1>2 DEF Getting
<1>4. Shape(js, perl, j2p, stack)
  BY <1>3 DEF Walk
<1>5. \A a, n, k : <<a, n>> \in T /\ <<n, k>> \in j2p => <<a, Ref(k)>> \in M
  BY <1>4, BackTurns
<1> HIDE DEF M, T
<1>6. PICK wait : /\ Walk(js, perl, j2p, stack', FALSE, wait, root, result, M, T)
                  /\ <<wait, v>> \in M
  BY <1>1, <1>3, <1>5, WalkPops
<1>7. Getting(source, js, perl, j2p, stack', FALSE, wait, root, result)
  BY <1>6 DEF Getting, M, T
<1> HIDE DEF v
<1>8. Getting(source, js, perl', j2p, stack', TRUE, Hole, root, result')
  BY <1>1, <1>6, <1>7, GettingStores DEF M
<1> QED  BY <1>1, <1>2, <1>8 DEF GetNow, Gets
----------------------------------------------------------------------------
(* Every step. *)

\* Where a conversion is, and what the one before it has made.
TripInv ==
    /\ HeapInv
    /\ source \in Graphs
    /\ phase = "to_js" => SetNow /\ perl = <<>> /\ j2p = {}
    /\ phase \in {"to_perl", "done"} => GetNow
    /\ phase = "done" => Idle

\* set begins with the root.
LEMMA TripInit == TextInit => TripInv
<1> SUFFICES ASSUME TextInit PROVE TripInv
  OBVIOUS
<1>1. /\ source \in Graphs /\ phase = "to_js" /\ js = <<>> /\ perl = <<>>
      /\ p2j = {} /\ j2p = {} /\ stack = <<>> /\ pending = Visit(source.root, FALSE)
  BY DEF TextInit, Init
<1>2. IsGraph(source)
  BY <1>1, GraphsAssumption
<1> DEFINE root == source.root
<1>3. root \in ValuesOf(source) /\ root # Hole
  BY <1>2 DEF ValuesOf, IsGraph
<1> HIDE DEF root
<1>4. pending.value = root /\ pending.ref = FALSE /\ pending # Nothing
  <2>1. root # Leaf("none")
    BY <1>2, <1>3, PerlValues
  <2> QED  BY <1>1, <2>1 DEF Visit, Nothing, root
<1>5. Awaited(source, root, pending)
  BY <1>3, <1>4 DEF Awaited
<1>6. Setting(source, js, p2j, stack, FALSE, root, result)
  <2>1. Heap(<<>>) /\ DOMAIN <<>> = {}
    BY EmptySeq DEF Heap
  <2>2. Made(source, js)
    BY <1>1, <2>1 DEF Made
  <2>3. Shape(source.nodes, js, p2j, stack)
    BY <1>1, <2>1 DEF Shape
  <2> DEFINE M == Becomes(source, js, p2j)
             T == Leads(source)
  <2> HIDE DEF M, T
  <2>4. /\ Frames(source.nodes, js, stack, FALSE, root, M, T)
        /\ AtRoot(stack, FALSE, root, root, result, M, T)
        /\ Closed(source.nodes, js, p2j, stack, M)
    BY <1>1, <2>1 DEF Frames, AtRoot, Closed
  <2> QED  BY <2>2, <2>3, <2>4 DEF Setting, Walk, M, T, root
<1> QED  BY <1>1, <1>4, <1>5, <1>6, HeapInit DEF TripInv, SetNow, Sets

\* Every step of set, of get and of the console.
LEMMA TripStep ==
    ASSUME TripInv, [TextNext]_consoleVars
    PROVE  TripInv'
<1>1. HeapInv /\ HeapInv' /\ IsGraph(source)
  BY HeapStep, GraphsAssumption DEF TripInv
<1>2. ASSUME phase = "to_js", phase' = "to_js", UNCHANGED <<source, perl, j2p>>, SetNow'
      PROVE  TripInv'
  BY <1>1, <1>2 DEF TripInv
<1>3. ASSUME phase = "to_perl", phase' = "to_perl", source' = source, GetNow'
      PROVE  TripInv'
  BY <1>1, <1>3 DEF TripInv
<1>4. ASSUME NEW n \in DOMAIN source.nodes,
             Deref(n) \/ ConvertCode(n) \/ Reuse(n) \/ Open(n)
      PROVE  TripInv'
  <2>1. phase = "to_js" /\ phase' = "to_js" /\ UNCHANGED <<source, perl, j2p>>
    BY <1>4 DEF Deref, ConvertCode, Reuse, Open, ToJs
  <2>2. SetNow'
    BY <1>1, <1>4, <2>1, SetDeref, SetCode, SetReuse, SetOpen DEF TripInv
  <2> QED  BY <1>2, <2>1, <2>2
<1>5. ASSUME NEW n \in DOMAIN js, ConvertCodeBack(n) \/ ReuseBack(n) \/ OpenBack(n)
      PROVE  TripInv'
  <2>1. phase = "to_perl" /\ phase' = "to_perl" /\ source' = source
    BY <1>5 DEF ConvertCodeBack, ReuseBack, OpenBack, ToPerl
  <2>2. GetNow'
    BY <1>1, <1>5, <2>1, GetCode, GetReuse, GetOpen DEF TripInv
  <2> QED  BY <1>3, <2>1, <2>2
<1>6. CASE ConvertLeaf
  <2>1. phase = "to_js" /\ phase' = "to_js" /\ UNCHANGED <<source, perl, j2p>>
    BY <1>6 DEF ConvertLeaf
  <2> QED  BY <1>1, <1>2, <1>6, <2>1, SetLeaf DEF TripInv
<1>7. CASE ConvertLeafBack
  <2>1. phase = "to_perl" /\ phase' = "to_perl" /\ source' = source
    BY <1>7 DEF ConvertLeafBack
  <2> QED  BY <1>1, <1>3, <1>7, <2>1, GetLeaf DEF TripInv
<1>8. CASE Element
  <2>1. /\ phase \in {"to_js", "to_perl"} /\ phase' = phase
        /\ UNCHANGED <<source, perl, j2p>>
    BY <1>8 DEF Element, Filling
  <2>2. CASE phase = "to_js"
    BY <1>1, <1>2, <1>8, <2>1, <2>2, SetElement DEF TripInv
  <2>3. CASE phase = "to_perl"
    BY <1>1, <1>3, <1>8, <2>1, <2>3, GetElement DEF TripInv
  <2> QED  BY <2>1, <2>2, <2>3
<1>9. CASE Close
  <2>1. /\ phase \in {"to_js", "to_perl"} /\ phase' = phase /\ UNCHANGED <<source, j2p>>
        /\ (phase = "to_js" => perl' = perl)
    BY <1>9 DEF Close, Filling
  <2>2. CASE phase = "to_js"
    BY <1>1, <1>2, <1>9, <2>1, <2>2, SetClose DEF TripInv
  <2>3. CASE phase = "to_perl"
    BY <1>1, <1>3, <1>9, <2>1, <2>3, GetClose DEF TripInv
  <2> QED  BY <2>1, <2>2, <2>3
<1>10. CASE Get
  <2>1. phase = "to_js" /\ phase' = "to_perl" /\ source' = source
    BY <1>10 DEF Get
  <2>2. GetNow'
    BY <1>1, <1>10, <2>1, GetStarts DEF TripInv
  <2> QED  BY <1>1, <2>1, <2>2 DEF TripInv
<1>11. CASE Deliver
  <2>1. /\ phase = "to_perl" /\ phase' = "done" /\ Idle
        /\ UNCHANGED <<source, js, perl, p2j, j2p, stack, pending, result>>
    BY <1>11 DEF Deliver
  <2>2. GetNow'
    BY <2>1 DEF TripInv, GetNow
  <2>3. Idle'
    BY <2>1 DEF Idle
  <2> QED  BY <1>1, <2>1, <2>2, <2>3 DEF TripInv
<1>12. CASE Release \/ Log
  <2>1. phase' \in {"released", "log"} /\ source' = source
    BY <1>12 DEF Release, Log
  <2> QED  BY <1>1, <2>1 DEF TripInv
<1>13. CASE UNCHANGED vars
  <2>1. UNCHANGED <<source, phase, js, perl, p2j, j2p, stack, pending, result>>
    BY <1>13 DEF vars
  <2>2. (SetNow => SetNow') /\ (GetNow => GetNow') /\ (Idle => Idle')
    BY <2>1 DEF SetNow, GetNow, Idle
  <2> QED  BY <1>1, <2>1, <2>2 DEF TripInv
<1>14. CASE WriteValue \/ WriteEnd \/ UNCHANGED consoleVars
  BY <1>13, <1>14 DEF WriteValue, WriteEnd, consoleVars
<1>15. CASE Next
  BY <1>4, <1>5, <1>6, <1>7, <1>8, <1>9, <1>10, <1>11, <1>12, <1>15 DEF Next
<1> QED  BY <1>12, <1>14, <1>15 DEF TextNext
----------------------------------------------------------------------------
(* Both conversions together. *)

\* The containers that stand for each other.
Pairs == {p \in (DOMAIN source.nodes) \X (DOMAIN perl) :
             \E k \in DOMAIN js : <<p[1], k>> \in p2j /\ <<k, p[2]>> \in j2p}

\* What get makes of what set made of a value is the same value.
LEMMA Composes ==
    ASSUME TypeOK, IsGraph(source), NEW stk1, NEW stk2,
           Shape(source.nodes, js, p2j, stk1), Shape(js, perl, j2p, stk2),
           NEW a, NEW w, <<a, w>> \in Becomes(source, js, p2j),
           NEW b, <<w, b>> \in BecomesBack(source, js, perl, j2p)
    PROVE  Matches(a, b, Pairs)
<1> DEFINE v == Behind(source, a)
<1>1. a \in ValuesOf(source) /\ w \in Outcomes(source, js)
      /\ Turns(source, js, p2j, <<a, w>>) /\ TurnsBack(js, j2p, <<w, b>>)
  BY DEF Becomes, BecomesBack
<1>2. v \in ValuesOf(source)
  BY <1>1, BehindFacts
<1>3. \A k, j : <<k, j>> \in j2p => k \in DOMAIN js /\ j \in DOMAIN perl
                                   /\ js[k].type # "code"
  <2> SUFFICES ASSUME NEW k, NEW j, <<k, j>> \in j2p
               PROVE  k \in DOMAIN js /\ j \in DOMAIN perl /\ js[k].type # "code"
    OBVIOUS
  <2>1. js[k].type \in Containers
    BY DEF Shape
  <2> QED  BY <2>1 DEF TypeOK, Containers
<1>4. \A n, k : <<n, k>> \in p2j => n \in DOMAIN source.nodes /\ k \in DOMAIN js
                                   /\ js[k].type # "code"
  <2> SUFFICES ASSUME NEW n, NEW k, <<n, k>> \in p2j
               PROVE  n \in DOMAIN source.nodes /\ k \in DOMAIN js /\ js[k].type # "code"
    OBVIOUS
  <2>1. js[k].type \in Containers
    BY DEF Shape
  <2> QED  BY <2>1 DEF TypeOK, Containers
<1> HIDE DEF v
<1>5. CASE IsLeaf(v) /\ w = LeafToJs(v, v # a)
  <2>1. a # Hole => v # Hole
    BY <1>1, BehindFacts DEF v
  <2>2. v # Hole
    <3>1. ~ IsScalar(source, Hole)
      BY DEF IsScalar, IsRef, Hole, Leaf
    <3>2. CASE a = Hole
      <4>1. v = Hole
        BY <1>1, <3>1, <3>2, BehindFacts DEF v
      <4>2. w = Hole
        BY <1>5, <4>1 DEF LeafToJs, Hole, Leaf, IsInt
      <4> QED  BY <1>1, <4>2, OutcomeFacts
    <3> QED  BY <2>1, <3>2
  <2>3. IsLeaf(w) /\ ~ IsRef(w) /\ IsLeaf(LeafToPerl(w)) /\ SameLeaf(v, v # a, LeafToPerl(w))
    <3>1. (v # a) \in BOOLEAN
      OBVIOUS
    <3> QED  BY <1>2, <1>5, <2>2, <3>1, LeafFacts
  <2>4. b = LeafToPerl(w)
    BY <1>1, <2>3 DEF TurnsBack
  <2> QED  BY <1>5, <2>3, <2>4 DEF Matches, v
<1>6. CASE /\ IsRef(v) /\ source.nodes[v.to].type = "code"
           /\ IsRef(w) /\ js[w.to].type = "code"
  <2>1. ~ IsLeaf(w)
    BY <1>1, <1>6, OutcomeFacts
  <2>2. "func" \in DOMAIN b
    BY <1>1, <1>3, <1>6, <2>1 DEF TurnsBack
  <2> QED  BY <1>6, <2>2 DEF Matches, v
<1>7. CASE IsRef(v) /\ IsRef(w) /\ <<v.to, w.to>> \in p2j
  <2>1. ~ IsLeaf(w)
    BY <1>1, <1>7, OutcomeFacts
  <2>2. /\ v.to \in DOMAIN source.nodes /\ w.to \in DOMAIN js
        /\ js[w.to].type # "code"
    BY <1>4, <1>7
  <2>3. IsRef(b) /\ <<w.to, b.to>> \in j2p
    BY <1>1, <2>1, <2>2 DEF TurnsBack
  <2>4. b.to \in DOMAIN perl
    BY <1>3, <2>3
  <2>5. <<v.to, b.to>> \in Pairs
    BY <1>7, <2>2, <2>3, <2>4 DEF Pairs
  <2> QED  BY <1>7, <2>3, <2>5 DEF Matches, v
<1> QED  BY <1>1, <1>5, <1>6, <1>7 DEF Turns, v

\* What is before the first hole, and no more.
LEMMA GivenIs ==
    ASSUME NEW s, Heap(s), NEW n \in Nat, n <= Len(s),
           \A i \in 1 .. n : s[i] # Hole, n < Len(s) => s[n + 1] = Hole
    PROVE  Len(Given(s)) = n /\ \A i \in 1 .. n : Given(s)[i] = s[i]
<1> DEFINE D == 0 .. Len(s)
           IsEnd(j) == /\ \A i \in 1 .. j : s[i] # Hole
                       /\ j < Len(s) => s[j + 1] = Hole
           c == CHOOSE j \in D : IsEnd(j)
<1>1. Len(s) \in Nat /\ s \in Seq(ToSet(s))
  BY LenProperties DEF Heap
<1>2. n \in D /\ IsEnd(n)
  BY <1>1
<1>3. ASSUME NEW j \in D, IsEnd(j)
      PROVE  j = n
  <2>1. j \in Nat /\ j <= Len(s)
    BY <1>1
  <2>2. ~ j < n
    <3> SUFFICES ASSUME j < n PROVE FALSE
      OBVIOUS
    <3>1. j < Len(s) /\ j + 1 \in 1 .. n
      BY <1>1, <2>1
    <3> QED  BY <1>3, <3>1
  <2>3. ~ n < j
    <3> SUFFICES ASSUME n < j PROVE FALSE
      OBVIOUS
    <3>1. n < Len(s) /\ n + 1 \in 1 .. j
      BY <1>1, <2>1
    <3> QED  BY <1>3, <3>1
  <2> QED  BY <2>1, <2>2, <2>3
<1>4. c = n
  <2> HIDE DEF D, IsEnd
  <2> QED  BY <1>2, <1>3
<1>5. Given(s) = SubSeq(s, 1, c)
  BY DEF Given
<1> HIDE DEF c
<1>6. Given(s) = SubSeq(s, 1, n)
  BY <1>4, <1>5
<1> QED  BY <1>1, <1>6, SliceFacts

\* When get is done, what it returns is what set was given.
LEMMA TripEnds == TripInv => RoundTrip
<1> SUFFICES ASSUME TripInv, phase = "done" PROVE RoundTrip
  BY DEF RoundTrip
<1> DEFINE M == Becomes(source, js, p2j)
           N == BecomesBack(source, js, perl, j2p)
<1>1. TypeOK /\ IsGraph(source) /\ GetNow /\ pending = Nothing /\ stack = <<>>
  BY GraphsAssumption DEF TripInv, HeapInv, Idle
<1>2. PICK root : /\ Setting(source, js, p2j, <<>>, TRUE, Hole, root)
                  /\ Getting(source, js, perl, j2p, <<>>, TRUE, Hole, root, result)
  BY <1>1 DEF GetNow, Gets
<1>3. /\ Made(source, js) /\ Shape(source.nodes, js, p2j, <<>>)
      /\ <<source.root, root>> \in M /\ Closed(source.nodes, js, p2j, <<>>, M)
  BY <1>2 DEF Setting, Walk, AtRoot
<1>4. /\ Shape(js, perl, j2p, <<>>) /\ <<root, result>> \in N
      /\ Closed(js, perl, j2p, <<>>, N)
  BY <1>2 DEF Getting, Walk, AtRoot
<1> HIDE DEF M, N
<1>5. ASSUME NEW a, NEW w, NEW b, <<a, w>> \in M, <<w, b>> \in N
      PROVE  Matches(a, b, Pairs)
  BY <1>1, <1>3, <1>4, <1>5, Composes DEF M, N
<1>6. Matches(source.root, result, Pairs)
  BY <1>3, <1>4, <1>5
<1>7. ASSUME NEW p \in Pairs
      PROVE  LET a == Given(source.nodes[p[1]].elems)
                 b == perl[p[2]].elems
             IN  /\ source.nodes[p[1]].type = perl[p[2]].type
                 /\ Len(a) = Len(b)
                 /\ \A i \in DOMAIN b : Matches(a[i], b[i], Pairs)
  <2>1. PICK k \in DOMAIN js : <<p[1], k>> \in p2j /\ <<k, p[2]>> \in j2p
    BY DEF Pairs
  <2> DEFINE s == source.nodes[p[1]].elems
             t == js[k].elems
             b == perl[p[2]].elems
  <2>2. /\ js[k].type = source.nodes[p[1]].type /\ perl[p[2]].type = js[k].type
        /\ js[k].type \in Containers
    <3>1. PICK q \in p2j : q = <<p[1], k>>
      BY <2>1
    <3>2. PICK r \in j2p : r = <<k, p[2]>>
      BY <2>1
    <3>3. q[1] = p[1] /\ q[2] = k /\ r[1] = k /\ r[2] = p[2]
      BY <3>1, <3>2
    <3> QED  BY <1>3, <1>4, <3>3 DEF Shape
  <2>3. Complete(s, t, M)
    <3>1. PICK q \in p2j : q = <<p[1], k>>
      BY <2>1
    <3>2. q[1] = p[1] /\ q[2] = k /\ DOMAIN <<>> = {}
      BY <3>1
    <3> QED  BY <1>3, <3>2 DEF Closed
  <2>4. Complete(t, b, N)
    <3>1. PICK q \in j2p : q = <<k, p[2]>>
      BY <2>1
    <3>2. q[1] = k /\ q[2] = p[2] /\ DOMAIN <<>> = {}
      BY <3>1
    <3> QED  BY <1>4, <3>2 DEF Closed
  <2>5. \A i \in 1 .. Len(t) : t[i] # Hole
    <3>1. \A i \in 1 .. Len(t) : t[i] \in Outcomes(source, js)
      BY <1>3, <2>2 DEF Made, Containers
    <3> QED  BY <1>1, <3>1, OutcomeFacts
  <2> HIDE DEF s, t, b
  <2>6. PICK n \in Nat : Prefix(s, t, n, M) /\ (n < Len(s) => s[n + 1] = Hole)
    BY <2>3 DEF Complete
  <2>7. PICK m \in Nat : Prefix(t, b, m, N) /\ (m < Len(t) => t[m + 1] = Hole)
    BY <2>4 DEF Complete
  <2>8. /\ Heap(s) /\ Heap(b) /\ Len(s) \in Nat /\ n <= Len(s) /\ Len(t) = n
        /\ Len(b) = m /\ m <= Len(t) /\ DOMAIN b = 1 .. Len(b)
        /\ \A i \in 1 .. n : s[i] # Hole /\ <<s[i], t[i]>> \in M
        /\ \A i \in 1 .. m : <<t[i], b[i]>> \in N
    BY <2>6, <2>7, Adds DEF Prefix
  <2>9. m = n
    <3>1. ~ m < n
      <4> SUFFICES ASSUME m < n PROVE FALSE
        OBVIOUS
      <4>1. m + 1 \in 1 .. Len(t)
        BY <2>8
      <4> QED  BY <2>5, <2>7, <2>8, <4>1
    <3> QED  BY <2>8, <3>1
  <2>10. Len(Given(s)) = n /\ \A i \in 1 .. n : Given(s)[i] = s[i]
    BY <2>6, <2>8, GivenIs
  <2>11. \A i \in DOMAIN b : Matches(Given(s)[i], b[i], Pairs)
    <3> SUFFICES ASSUME NEW i \in 1 .. n PROVE Matches(Given(s)[i], b[i], Pairs)
      BY <2>8, <2>9
    <3>1. <<Given(s)[i], t[i]>> \in M /\ <<t[i], b[i]>> \in N
      BY <2>8, <2>9, <2>10
    <3> QED  BY <1>5, <3>1
  <2>12. Len(Given(s)) = Len(b)
    BY <2>8, <2>9, <2>10
  <2> QED  BY <2>2, <2>11, <2>12 DEF s, b
<1> QED  BY <1>6, <1>7 DEF RoundTrip, Pairs

\* What get returns is what set was given, for every graph of Perl data, shared,
\* cyclic or neither, and whichever lookups of get's map go wrong: the same
\* leaves are in the same places, but for integers that a double or a long does
\* not hold, and every array is there up to its first hole.
THEOREM RoundTrips == TextSpec => []RoundTrip
<1>1. TripInv /\ [TextNext]_consoleVars => TripInv'
  BY TripStep
<1> QED  BY TripInit, TripEnds, <1>1, PTL DEF TextSpec
----------------------------------------------------------------------------
(* Sets of numbers in order. *)

\* A set of numbers has one of every rank.
LEMMA RankExists ==
    ASSUME NEW S \in SUBSET Nat, IsFiniteSet(S), NEW n \in 1 .. Cardinality(S)
    PROVE  \E m \in S : Cardinality({l \in S : l <= m}) = n
<1> DEFINE c == Cardinality(S)
           upto(m) == {l \in S : l <= m}
           G == {k \in 1 .. c : \E m \in S : Cardinality(upto(m)) = k}
<1>1. c \in Nat /\ c # 0 /\ S # {}
  <2>1. c \in Nat
    BY FS_CardinalityType
  <2>2. c # 0
    BY <2>1
  <2> QED  BY <2>1, <2>2, FS_EmptySet
<1> HIDE DEF c
<1>2. 1 \in G
  <2>1. PICK m \in S : \A l \in S : m <= l
    BY <1>1, LeastNatural
  <2>2. upto(m) = {m}
    <3>1. \A l \in S : l <= m <=> l = m
      BY <2>1
    <3> QED  BY <3>1
  <2>3. Cardinality(upto(m)) = 1
    BY ONLY <2>2, FS_Singleton, Zenon
  <2>4. \A x \in Nat : x # 0 => 1 \in 1 .. x
    OBVIOUS
  <2> HIDE DEF upto
  <2> QED  BY <1>1, <2>1, <2>3, <2>4
<1>3. ASSUME NEW k \in 1 .. c - 1, k \in G
      PROVE  k + 1 \in G
  <2>1. PICK m \in S : Cardinality(upto(m)) = k
    BY <1>3
  <2> DEFINE A == upto(m)
             B == S \ A
  <2>2. A \in SUBSET S /\ IsFiniteSet(A)
    BY FS_Subset
  <2>3. B # {}
    <3>1. A # S
      <4>1. Cardinality(S) # k
        BY <1>1 DEF c
      <4> QED  BY <2>1, <4>1
    <3> QED  BY <2>2, <3>1
  <2>4. B \in SUBSET Nat /\ \A l \in B : l > m
    <3>1. \A l \in S : l \notin A => ~ (l <= m)
      OBVIOUS
    <3>2. \A l, k1 \in Nat : ~ (l <= k1) => l > k1
      OBVIOUS
    <3>3. B \subseteq S /\ \A l \in B : l \notin A
      OBVIOUS
    <3> HIDE DEF A, B
    <3> QED  BY <3>1, <3>2, <3>3
  <2>5. PICK x \in B : \A l \in B : x <= l
    BY <2>3, <2>4, LeastNatural
  <2>6. upto(x) = A \cup {x} /\ x \notin A
    <3>1. \A l \in S : l <= x <=> l \in A \/ l = x
      <4> TAKE l \in S
      <4>1. CASE l \in A
        <5>1. l <= m /\ m < x
          BY <2>4, <2>5, <4>1
        <5> QED  BY <4>1, <5>1
      <4>2. CASE l \notin A
        <5>1. l \in B /\ x <= l
          BY <2>5, <4>2
        <5> HIDE DEF A, B
        <5> QED  BY <2>4, <2>5, <4>2, <5>1
      <4> QED  BY <4>1, <4>2
    <3>2. x \in S /\ x \notin A /\ A \subseteq S
      BY <2>5
    <3> HIDE DEF A, B
    <3> QED  BY <3>1, <3>2
  <2> HIDE DEF A, B, upto
  <2>7. Cardinality(upto(x)) = k + 1
    BY <2>1, <2>2, <2>6, FS_AddElement DEF A
  <2>8. k + 1 \in 1 .. c /\ x \in S
    BY <1>1, <2>5 DEF B
  <2> QED  BY <2>7, <2>8
<1>4. 1 .. c \subseteq G
  <2> HIDE DEF G
  <2> QED  BY <1>1, <1>2, <1>3, SegmentInduction
<1>5. n \in G
  BY <1>4 DEF c
<1> QED  BY <1>5

\* In order, a set is listed by its own elements.
LEMMA InOrderFacts ==
    ASSUME NEW S \in SUBSET Nat, IsFiniteSet(S)
    PROVE  /\ Cardinality(S) \in Nat /\ DOMAIN InOrder(S) = 1 .. Cardinality(S)
           /\ Len(InOrder(S)) = Cardinality(S)
           /\ \A n \in 1 .. Cardinality(S) : InOrder(S)[n] \in S
<1>1. Cardinality(S) \in Nat
  BY FS_CardinalityType
<1>2. InOrder(S) = [n \in 1 .. Cardinality(S) |->
                       CHOOSE m \in S : Cardinality({l \in S : l <= m}) = n]
  BY DEF InOrder
<1>3. ASSUME NEW n \in 1 .. Cardinality(S)
      PROVE  InOrder(S)[n] \in S
  <2>1. InOrder(S)[n] = CHOOSE m \in S : Cardinality({l \in S : l <= m}) = n
    BY <1>2
  <2>2. \E m \in S : Cardinality({l \in S : l <= m}) = n
    BY RankExists
  <2> QED  BY ONLY <2>1, <2>2
<1>4. DOMAIN InOrder(S) = 1 .. Cardinality(S)
  BY <1>2
<1> DEFINE a == InOrder(S)
           c == Cardinality(S)
<1>5. a = [n \in 1 .. c |-> a[n]]
  BY <1>2
<1> HIDE DEF a, c
<1>6. Len(a) = c
  BY <1>1, <1>5, HeapOf DEF c
<1> QED  BY <1>1, <1>3, <1>4, <1>6 DEF a, c

\* A number above all the others comes last, and leaves them in their places.
LEMMA InOrderAdds ==
    ASSUME NEW S \in SUBSET Nat, IsFiniteSet(S), NEW x \in Nat, \A m \in S : m < x
    PROVE  /\ IsFiniteSet(S \cup {x}) /\ Cardinality(S \cup {x}) = Cardinality(S) + 1
           /\ \A n \in 1 .. Cardinality(S) : InOrder(S \cup {x})[n] = InOrder(S)[n]
           /\ InOrder(S \cup {x})[Cardinality(S) + 1] = x
<1> DEFINE T == S \cup {x}
           c == Cardinality(S)
           place(U, m) == Cardinality({l \in U : l <= m})
<1>1. x \notin S
  OBVIOUS
<1>2. /\ IsFiniteSet(T) /\ Cardinality(T) = c + 1 /\ c \in Nat
  BY <1>1, FS_AddElement, FS_CardinalityType
<1>3. ASSUME NEW m \in S
      PROVE  place(T, m) = place(S, m) /\ place(S, m) \in 0 .. c
  <2>1. {l \in T : l <= m} = {l \in S : l <= m}
    BY <1>1
  <2>2. {l \in S : l <= m} \in SUBSET S
    OBVIOUS
  <2>3. place(S, m) <= c /\ place(S, m) \in Nat
    BY <2>2, FS_Subset, FS_CardinalityType
  <2> HIDE DEF c
  <2> QED  BY <1>2, <2>1, <2>3
<1>4. place(T, x) = c + 1
  <2>1. {l \in T : l <= x} = T
    <3>1. \A l \in T : l <= x
      OBVIOUS
    <3> HIDE DEF T
    <3> QED  BY <3>1
  <2> QED  BY <1>2, <2>1
<1> HIDE DEF place
<1>5. /\ InOrder(T) = [n \in 1 .. c + 1 |-> CHOOSE m \in T : place(T, m) = n]
      /\ InOrder(S) = [n \in 1 .. c |-> CHOOSE m \in S : place(S, m) = n]
  BY <1>2 DEF InOrder, place
<1> HIDE DEF c
<1>6. ASSUME NEW n \in 1 .. c
      PROVE  InOrder(T)[n] = InOrder(S)[n]
  <2>1. \A m : (m \in T /\ place(T, m) = n) <=> (m \in S /\ place(S, m) = n)
    <3>1. n # c + 1
      BY <1>2
    <3> QED  BY <1>3, <1>4, <3>1
  <2>2. (CHOOSE m \in T : place(T, m) = n) = (CHOOSE m \in S : place(S, m) = n)
    BY ONLY <2>1
  <2>3. n \in 1 .. c + 1
    BY <1>2
  <2> HIDE DEF T
  <2> QED  BY <1>5, <2>2, <2>3
<1>7. InOrder(T)[c + 1] = x
  <2>1. \A m \in T : place(T, m) = c + 1 <=> m = x
    <3>1. \A m \in S : place(T, m) # c + 1
      BY <1>2, <1>3
    <3> QED  BY <1>4, <3>1
  <2>2. (CHOOSE m \in T : place(T, m) = c + 1) = x
    BY <2>1
  <2>3. c + 1 \in 1 .. c + 1
    BY <1>2
  <2> HIDE DEF T
  <2> QED  BY <1>5, <2>2, <2>3
<1> QED  BY <1>2, <1>6, <1>7 DEF c
----------------------------------------------------------------------------
(* Reading a text t, of which s is a token, and e the end of what is read.  *)

Opens(t, i) == "open" \in DOMAIN t[i]
Closes(t, i) == "close" \in DOMAIN t[i]
OpenedIn(t, i) == Cardinality({j \in 1 .. i : Opens(t, j)})
ClosedIn(t, i) == Cardinality({j \in 1 .. i : Closes(t, j)})
DepthIn(t, i) == OpenedIn(t, i) - ClosedIn(t, i)

\* Token i is one of those just inside a container at depth d.
JustInside(t, i, d) ==
    ~ Closes(t, i) /\ DepthIn(t, i) - (IF Opens(t, i) THEN 1 ELSE 0) = d

Directly(t, s, e) == {i \in s + 1 .. e - 1 : JustInside(t, i, DepthIn(t, s))}

MeantIn(t, i) ==
    IF Opens(t, i) THEN Ref(OpenedIn(t, i))
    ELSE IF "cycle" \in DOMAIN t[i] THEN Ref(t[i].cycle + 1) ELSE t[i]

\* Token i says the value v, if the containers are numbered as in sn.
Says(t, sn, i, v) ==
    IF IsRef(v)
    THEN /\ IsRef(MeantIn(t, i)) /\ MeantIn(t, i).to \in DOMAIN sn
         /\ sn[MeantIn(t, i).to] = v.to
    ELSE MeantIn(t, i) = v

\* The container opened by token s has, before token e, m values: those of w.
Tells(t, sn, s, e, w, m) ==
    LET here == InOrder(Directly(t, s, e))
    IN  /\ Cardinality(Directly(t, s, e)) = m
        /\ \A i \in 1 .. m : Says(t, sn, here[i], w[i])
        /\ \A i \in s + 1 .. e - 1 : DepthIn(t, i) >= DepthIn(t, s)

\* Counting tokens, one by one.
LEMMA Counts ==
    ASSUME NEW P, NEW n \in Nat
    PROVE  /\ Cardinality({j \in 1 .. n : j \in P}) \in Nat
           /\ Cardinality({j \in 1 .. n + 1 : j \in P})
                 = Cardinality({j \in 1 .. n : j \in P}) + (IF n + 1 \in P THEN 1 ELSE 0)
<1> DEFINE A == {j \in 1 .. n : j \in P}
           B == {j \in 1 .. n + 1 : j \in P}
<1>1. IsFiniteSet(A) /\ Cardinality(A) \in Nat
  <2>1. IsFiniteSet(1 .. n)
    BY FS_Interval
  <2>2. A \in SUBSET (1 .. n)
    OBVIOUS
  <2> HIDE DEF A
  <2> QED  BY <2>1, <2>2, FS_Subset, FS_CardinalityType
<1>2. \A j : j \in 1 .. n + 1 <=> j \in 1 .. n \/ j = n + 1
  OBVIOUS
<1>3. n + 1 \notin A
  OBVIOUS
<1>4. CASE n + 1 \in P
  <2>1. B = A \cup {n + 1}
    BY <1>2, <1>4
  <2> HIDE DEF A, B
  <2>2. Cardinality(B) = Cardinality(A) + 1
    BY <1>1, <1>3, <2>1, FS_AddElement
  <2> QED  BY <1>1, <1>4, <2>2 DEF A, B
<1>5. CASE n + 1 \notin P
  <2>1. B = A
    BY <1>2, <1>5
  <2> HIDE DEF A, B
  <2> QED  BY <1>1, <1>5, <2>1 DEF A, B
<1> QED  BY <1>4, <1>5

\* Depths are differences of numbers.
LEMMA DepthType ==
    ASSUME NEW t, NEW i \in Nat
    PROVE  OpenedIn(t, i) \in Nat /\ ClosedIn(t, i) \in Nat /\ DepthIn(t, i) \in Int
<1> DEFINE P == {j \in 1 .. i : Opens(t, j)}
           Q == {j \in 1 .. i : Closes(t, j)}
<1>1. P = {j \in 1 .. i : j \in P} /\ Q = {j \in 1 .. i : j \in Q}
  OBVIOUS
<1>2. OpenedIn(t, i) = Cardinality(P) /\ ClosedIn(t, i) = Cardinality(Q)
  BY DEF OpenedIn, ClosedIn
<1> HIDE DEF P, Q
<1>3. OpenedIn(t, i) \in Nat /\ ClosedIn(t, i) \in Nat
  <2>1. /\ Cardinality({j \in 1 .. i : j \in P}) \in Nat
        /\ Cardinality({j \in 1 .. i : j \in Q}) \in Nat
    BY Counts
  <2> QED  BY <1>1, <1>2, <2>1
<1> QED  BY <1>3 DEF DepthIn

\* The text u is t, of n tokens, and the token x: nothing changes of what was
\* read before x, which adds to the containers opened or closed.
Follows(t, x, n, u) ==
    /\ n \in Nat /\ Heap(u) /\ Len(u) = n + 1 /\ u[n + 1] = x
    /\ \A i \in 1 .. n : /\ u[i] = t[i] /\ (Opens(u, i) <=> Opens(t, i))
                         /\ (Closes(u, i) <=> Closes(t, i)) /\ MeantIn(u, i) = MeantIn(t, i)
    /\ \A i \in 0 .. n : OpenedIn(u, i) = OpenedIn(t, i) /\ DepthIn(u, i) = DepthIn(t, i)
    /\ OpenedIn(u, n + 1) = OpenedIn(t, n) + (IF "open" \in DOMAIN x THEN 1 ELSE 0)
    /\ ClosedIn(u, n + 1) = ClosedIn(t, n) + (IF "close" \in DOMAIN x THEN 1 ELSE 0)

\* So is the text once a token is written.
LEMMA TextGrows ==
    ASSUME NEW t, Heap(t), NEW x, NEW n, n = Len(t), NEW u, u = Append(t, x)
    PROVE  Follows(t, x, n, u)
<1>1. /\ n \in Nat /\ Heap(u) /\ Len(u) = n + 1 /\ u[n + 1] = x
      /\ \A i \in 1 .. n : u[i] = t[i]
  BY Adds
<1>2. \A i \in 1 .. n : (Opens(u, i) <=> Opens(t, i)) /\ (Closes(u, i) <=> Closes(t, i))
  BY <1>1 DEF Opens, Closes
<1>3. ASSUME NEW i \in 0 .. n
      PROVE  /\ OpenedIn(u, i) = OpenedIn(t, i) /\ ClosedIn(u, i) = ClosedIn(t, i)
             /\ DepthIn(u, i) = DepthIn(t, i)
  <2>1. \A j \in 1 .. i : j \in 1 .. n
    BY <1>1
  <2>2. /\ {j \in 1 .. i : Opens(u, j)} = {j \in 1 .. i : Opens(t, j)}
        /\ {j \in 1 .. i : Closes(u, j)} = {j \in 1 .. i : Closes(t, j)}
    BY <1>2, <2>1
  <2> QED  BY <2>2 DEF OpenedIn, ClosedIn, DepthIn
<1>4. ASSUME NEW i \in 1 .. n
      PROVE  MeantIn(u, i) = MeantIn(t, i)
  <2>1. OpenedIn(u, i) = OpenedIn(t, i)
    BY <1>1, <1>3
  <2> QED  BY <1>1, <1>2, <2>1 DEF MeantIn
<1>5. /\ OpenedIn(u, n + 1) = OpenedIn(u, n) + (IF Opens(u, n + 1) THEN 1 ELSE 0)
      /\ ClosedIn(u, n + 1) = ClosedIn(u, n) + (IF Closes(u, n + 1) THEN 1 ELSE 0)
  <2> DEFINE P == {j \in 1 .. n + 1 : Opens(u, j)}
             Q == {j \in 1 .. n + 1 : Closes(u, j)}
  <2>1. \A j \in 1 .. n : j \in 1 .. n + 1
    BY <1>1
  <2>2. n + 1 \in 1 .. n + 1
    BY <1>1
  <2>3. /\ {j \in 1 .. n : Opens(u, j)} = {j \in 1 .. n : j \in P}
        /\ {j \in 1 .. n : Closes(u, j)} = {j \in 1 .. n : j \in Q}
        /\ P = {j \in 1 .. n + 1 : j \in P} /\ Q = {j \in 1 .. n + 1 : j \in Q}
        /\ n + 1 \in P <=> Opens(u, n + 1)
        /\ n + 1 \in Q <=> Closes(u, n + 1)
    BY <2>1, <2>2
  <2>4. /\ OpenedIn(u, n) = Cardinality({j \in 1 .. n : j \in P})
        /\ ClosedIn(u, n) = Cardinality({j \in 1 .. n : j \in Q})
        /\ OpenedIn(u, n + 1) = Cardinality(P) /\ ClosedIn(u, n + 1) = Cardinality(Q)
    BY <2>3 DEF OpenedIn, ClosedIn
  <2> HIDE DEF P, Q
  <2>5. /\ Cardinality({j \in 1 .. n + 1 : j \in P})
              = Cardinality({j \in 1 .. n : j \in P}) + (IF n + 1 \in P THEN 1 ELSE 0)
        /\ Cardinality({j \in 1 .. n + 1 : j \in Q})
              = Cardinality({j \in 1 .. n : j \in Q}) + (IF n + 1 \in Q THEN 1 ELSE 0)
    BY <1>1, Counts
  <2> QED  BY <2>3, <2>4, <2>5
<1>6. n \in 0 .. n /\ (Opens(u, n + 1) <=> "open" \in DOMAIN x)
      /\ (Closes(u, n + 1) <=> "close" \in DOMAIN x)
  BY <1>1 DEF Opens, Closes
<1> QED  BY <1>1, <1>2, <1>3, <1>4, <1>5, <1>6 DEF Follows

\* The tokens just inside a container are some of the tokens.
LEMMA DirectlyType ==
    ASSUME NEW t, NEW s \in Nat, NEW e \in Nat
    PROVE  /\ Directly(t, s, e) \in SUBSET Nat /\ IsFiniteSet(Directly(t, s, e))
           /\ \A i \in Directly(t, s, e) : i \in s + 1 .. e - 1
<1> DEFINE S == Directly(t, s, e)
<1>1. \A i \in S : i \in s + 1 .. e - 1
  BY DEF Directly
<1> HIDE DEF S
<1>2. IsFiniteSet(s + 1 .. e - 1)
  <2>1. s + 1 \in Int /\ e - 1 \in Int
    OBVIOUS
  <2> QED  BY ONLY <2>1, FS_Interval
<1>3. \A i \in s + 1 .. e - 1 : i \in Nat
  OBVIOUS
<1>4. S \in SUBSET (s + 1 .. e - 1)
  BY <1>1
<1>5. IsFiniteSet(S)
  BY ONLY <1>2, <1>4, FS_Subset
<1> QED  BY <1>1, <1>3, <1>5 DEF S

\* What a text says of a container, it says when more is written.
LEMMA TellsOn ==
    ASSUME NEW t, NEW x, NEW n, NEW u, Follows(t, x, n, u),
           NEW s \in 1 .. n, NEW e \in s + 1 .. n + 1,
           NEW sn, NEW tn, \A k \in DOMAIN sn : k \in DOMAIN tn /\ tn[k] = sn[k],
           NEW w, NEW m, Tells(t, sn, s, e, w, m)
    PROVE  /\ Tells(u, tn, s, e, w, m) /\ m \in Nat
           /\ Directly(u, s, e) = Directly(t, s, e)
           /\ DepthIn(u, s) = DepthIn(t, s)
<1>1. /\ n \in Nat /\ Heap(u) /\ Len(u) = n + 1 /\ u[n + 1] = x
      /\ \A i \in 1 .. n : /\ u[i] = t[i] /\ (Opens(u, i) <=> Opens(t, i))
                           /\ (Closes(u, i) <=> Closes(t, i)) /\ MeantIn(u, i) = MeantIn(t, i)
      /\ \A i \in 0 .. n : OpenedIn(u, i) = OpenedIn(t, i) /\ DepthIn(u, i) = DepthIn(t, i)
  BY ONLY Follows(t, x, n, u) DEF Follows
<1>2. /\ s \in Nat /\ e \in Nat /\ s \in 0 .. n
      /\ \A i \in s + 1 .. e - 1 : i \in 1 .. n /\ i \in 0 .. n
  BY <1>1
<1>3. DepthIn(u, s) = DepthIn(t, s)
  BY ONLY <1>1, <1>2
<1>4. \A i \in s + 1 .. e - 1 : /\ DepthIn(u, i) = DepthIn(t, i)
                               /\ (Opens(u, i) <=> Opens(t, i)) /\ (Closes(u, i) <=> Closes(t, i))
  BY ONLY <1>1, <1>2
<1>5. Directly(u, s, e) = Directly(t, s, e)
  BY ONLY <1>3, <1>4 DEF Directly, JustInside
<1> DEFINE S == Directly(t, s, e)
           a == InOrder(S)
<1>6. /\ Cardinality(S) = m /\ \A i \in 1 .. m : Says(t, sn, a[i], w[i])
      /\ \A i \in s + 1 .. e - 1 : DepthIn(t, i) >= DepthIn(t, s)
  BY DEF Tells
<1>7. /\ S \in SUBSET Nat /\ IsFiniteSet(S) /\ \A i \in S : i \in s + 1 .. e - 1
  BY ONLY <1>2, DirectlyType
<1> HIDE DEF S
<1>8. m \in Nat /\ \A i \in 1 .. m : a[i] \in S
  BY <1>6, <1>7, InOrderFacts
<1> HIDE DEF a
<1>9. ASSUME NEW i \in 1 .. m
      PROVE  Says(u, tn, a[i], w[i])
  <2>1. a[i] \in 1 .. n
    BY ONLY <1>2, <1>7, <1>8, i \in 1 .. m
  <2>2. MeantIn(u, a[i]) = MeantIn(t, a[i])
    BY ONLY <1>1, <2>1
  <2> QED  BY <1>6, <2>2 DEF Says
<1>10. \A i \in s + 1 .. e - 1 : DepthIn(u, i) >= DepthIn(u, s)
  BY ONLY <1>3, <1>4, <1>6
<1> QED  BY <1>3, <1>5, <1>6, <1>8, <1>9, <1>10 DEF Tells, S, a

\* The token that is written is just inside the container, and says the next
\* of its values, or it is deeper, or it ends one that is deeper.
LEMMA TellsMore ==
    ASSUME NEW t, NEW x, NEW n, NEW u, Follows(t, x, n, u),
           NEW s \in 1 .. n,
           NEW sn, NEW tn, \A k \in DOMAIN sn : k \in DOMAIN tn /\ tn[k] = sn[k],
           NEW w, NEW m, Tells(t, sn, s, n + 1, w, m),
           DepthIn(u, n + 1) >= DepthIn(t, s)
    PROVE  /\ ~ JustInside(u, n + 1, DepthIn(t, s)) => Tells(u, tn, s, n + 2, w, m)
           /\ JustInside(u, n + 1, DepthIn(t, s)) /\ Says(u, tn, n + 1, w[m + 1])
                  => Tells(u, tn, s, n + 2, w, m + 1)
<1>1. n \in Nat
  BY DEF Follows
<1>2. n + 1 \in s + 1 .. n + 1 /\ s \in Nat /\ n + 1 \in Nat /\ n + 2 \in Nat
  BY <1>1
<1>3. /\ Tells(u, tn, s, n + 1, w, m) /\ m \in Nat
      /\ Directly(u, s, n + 1) = Directly(t, s, n + 1) /\ DepthIn(u, s) = DepthIn(t, s)
  BY ONLY <1>2, Follows(t, x, n, u), Tells(t, sn, s, n + 1, w, m),
          \A k \in DOMAIN sn : k \in DOMAIN tn /\ tn[k] = sn[k], s \in 1 .. n, TellsOn
<1>4. \A i : i \in s + 1 .. (n + 2) - 1 <=> i \in s + 1 .. (n + 1) - 1 \/ i = n + 1
  BY <1>1
<1>5. \A i \in s + 1 .. (n + 2) - 1 : DepthIn(u, i) >= DepthIn(u, s)
  <2>1. \A i \in s + 1 .. (n + 1) - 1 : DepthIn(u, i) >= DepthIn(u, s)
    BY ONLY <1>3 DEF Tells
  <2> QED  BY <1>3, <1>4, <2>1
<1> DEFINE d == DepthIn(t, s)
           S == Directly(u, s, n + 1)
           T == Directly(u, s, n + 2)
<1>6. \A i : i \in T <=> (i \in S \/ (i = n + 1 /\ JustInside(u, n + 1, d)))
  BY ONLY <1>3, <1>4 DEF Directly
<1>7. /\ Cardinality(S) = m /\ \A i \in 1 .. m : Says(u, tn, InOrder(S)[i], w[i])
  BY ONLY <1>3 DEF Tells
<1>8. /\ S \in SUBSET Nat /\ IsFiniteSet(S) /\ \A i \in S : i \in s + 1 .. (n + 1) - 1
  BY ONLY <1>2, DirectlyType
<1> HIDE DEF S
<1>9. ASSUME ~ JustInside(u, n + 1, d)
      PROVE  Tells(u, tn, s, n + 2, w, m)
  <2>1. T = S
    BY ONLY <1>6, <1>9
  <2> QED  BY ONLY <1>5, <1>7, <2>1 DEF Tells
<1>10. ASSUME JustInside(u, n + 1, d), Says(u, tn, n + 1, w[m + 1])
       PROVE  Tells(u, tn, s, n + 2, w, m + 1)
  <2>1. T = S \cup {n + 1}
    BY ONLY <1>6, <1>10
  <2>2. \A i \in S : i < n + 1
    BY ONLY <1>1, <1>2, <1>8
  <2> HIDE DEF T
  <2>3. /\ Cardinality(T) = m + 1
        /\ \A i \in 1 .. m : InOrder(T)[i] = InOrder(S)[i]
        /\ InOrder(T)[m + 1] = n + 1
    BY ONLY <1>2, <1>7, <1>8, <2>1, <2>2, InOrderAdds
  <2>4. \A i \in 1 .. m + 1 : Says(u, tn, InOrder(T)[i], w[i])
    <3>1. \A i \in 1 .. m + 1 : i \in 1 .. m \/ i = m + 1
      BY <1>3
    <3> QED  BY ONLY <1>7, <1>10, <2>3, <3>1
  <2> QED  BY ONLY <1>5, <2>3, <2>4 DEF Tells, T
<1> QED  BY <1>9, <1>10

\* A container that is just opened has no values.
LEMMA TellsNothing ==
    ASSUME NEW t, NEW sn, NEW s \in Nat, NEW w
    PROVE  Tells(t, sn, s, s + 1, w, 0)
<1>1. s + 1 .. (s + 1) - 1 = {}
  OBVIOUS
<1>2. Directly(t, s, s + 1) = {}
  BY ONLY <1>1 DEF Directly
<1>3. 1 .. 0 = {}
  OBVIOUS
<1> QED  BY ONLY <1>1, <1>2, <1>3, FS_EmptySet DEF Tells
----------------------------------------------------------------------------
(* What the log has written. *)

\* Each container that is opened has a number of its own, its place in sn.
Numbered(t, sn) ==
    /\ Heap(t) /\ Heap(sn) /\ IsInjective(sn)
    /\ OpenedIn(t, Len(t)) = Len(sn)
    /\ \A i \in DOMAIN t : Opens(t, i) => OpenedIn(t, i) \in DOMAIN sn
    /\ \A i, j \in DOMAIN t :
          Opens(t, i) /\ Opens(t, j) /\ OpenedIn(t, i) = OpenedIn(t, j) => i = j

\* The object o is written from token s on: all of it, or what comes before the
\* value that is next.
Whole(t, sn, s, o) ==
    \E e \in s + 1 .. Len(t) :
        /\ DepthIn(t, e) < DepthIn(t, s)
        /\ Tells(t, sn, s, e, Written(o), Len(Written(o)))
Part(t, sn, op, s, o) ==
    \E d \in DOMAIN op :
        /\ op[d].object = o /\ DepthIn(t, s) = d
        /\ Tells(t, sn, s, Len(t) + 1, Written(o), op[d].next - 1)

\* An object that is being written.
IsOpen(f) ==
    /\ f = [object |-> f.object, next |-> f.next]
    /\ f.object \in DOMAIN js /\ js[f.object].type # "code"
    /\ f.next \in Nat \ {0} /\ f.next - 1 <= Len(Written(f.object))

Logged(t, sn, op) ==
    /\ Numbered(t, sn)
    /\ Heap(op) /\ DepthIn(t, Len(t)) = Len(op)
    /\ \A d \in DOMAIN op : IsOpen(op[d])
    /\ \A k \in DOMAIN sn : \E s \in DOMAIN t :
          /\ Opens(t, s) /\ OpenedIn(t, s) = k
          /\ Whole(t, sn, s, sn[k]) \/ Part(t, sn, op, s, sn[k])

LogInv ==
    /\ phase = "log" => Made(source, js) /\ Logged(text, seen, open)
    /\ phase # "log" => text = <<>> /\ seen = <<>> /\ open = <<>>

\* The numbers of the containers, when a token is written that opens none.
LEMMA NumberedStays ==
    ASSUME NEW t, NEW x, NEW n, NEW u, Follows(t, x, n, u), n = Len(t),
           NEW sn, Numbered(t, sn), "open" \notin DOMAIN x
    PROVE  Numbered(u, sn)
<1>1. /\ n \in Nat /\ Heap(u) /\ Len(u) = n + 1 /\ u[n + 1] = x
      /\ \A i \in 1 .. n : Opens(u, i) <=> Opens(t, i)
      /\ \A i \in 0 .. n : OpenedIn(u, i) = OpenedIn(t, i)
      /\ OpenedIn(u, n + 1) = OpenedIn(t, n) + 0
  BY DEF Follows
<1>2. ~ Opens(u, n + 1) /\ DOMAIN u = 1 .. n + 1 /\ DOMAIN t = 1 .. n
  BY <1>1, LenProperties DEF Opens, Heap, Numbered
<1>3. \A i \in DOMAIN u : Opens(u, i) =>
          i \in DOMAIN t /\ Opens(t, i) /\ OpenedIn(u, i) = OpenedIn(t, i)
  <2>1. \A i \in 1 .. n + 1 : i \in 1 .. n \/ i = n + 1
    BY <1>1
  <2>2. \A i \in 1 .. n : i \in 0 .. n
    BY <1>1
  <2> QED  BY ONLY <1>1, <1>2, <2>1, <2>2
<1>4. OpenedIn(t, n) = Len(sn) /\ Len(sn) \in Nat
  BY LenProperties DEF Numbered, Heap
<1>5. OpenedIn(u, Len(u)) = Len(sn)
  BY <1>1, <1>4
<1> QED  BY <1>1, <1>3, <1>5 DEF Numbered

\* Nothing is numbered above the containers that are opened.
LEMMA OpenedFew ==
    ASSUME NEW t, NEW sn, Numbered(t, sn), NEW i \in DOMAIN t, Opens(t, i)
    PROVE  OpenedIn(t, i) # Len(sn) + 1
<1>1. OpenedIn(t, i) \in 1 .. Len(sn) /\ Len(sn) \in Nat
  BY LenProperties DEF Numbered, Heap
<1>2. \A m \in Nat : \A j \in 1 .. m : j # m + 1
  OBVIOUS
<1> QED  BY <1>1, <1>2

\* A container that was not met before, and what its opening token adds.
Fresh(sn, k) == \A i \in DOMAIN sn : sn[i] # k
Joins(sn, k, tn, u, m) ==
    /\ Numbered(u, tn) /\ Len(sn) \in Nat /\ Len(tn) = Len(sn) + 1
    /\ tn[Len(sn) + 1] = k /\ DOMAIN tn = 1 .. Len(sn) + 1 /\ DOMAIN sn = 1 .. Len(sn)
    /\ Opens(u, m) /\ OpenedIn(u, m) = Len(sn) + 1
    /\ \A i \in DOMAIN sn : i \in DOMAIN tn /\ tn[i] = sn[i]

\* It gets the next number.
LEMMA NumberedMore ==
    ASSUME NEW t, NEW x, NEW n, NEW u, Follows(t, x, n, u), n = Len(t),
           NEW sn, Numbered(t, sn), "open" \in DOMAIN x,
           NEW k, Fresh(sn, k), NEW tn, tn = Append(sn, k)
    PROVE  Joins(sn, k, tn, u, n + 1)
<1> DEFINE c == Len(sn)
<1>1. /\ n \in Nat /\ Heap(u) /\ Len(u) = n + 1 /\ u[n + 1] = x
      /\ \A i \in 1 .. n : Opens(u, i) <=> Opens(t, i)
      /\ \A i \in 0 .. n : OpenedIn(u, i) = OpenedIn(t, i)
      /\ OpenedIn(u, n + 1) = OpenedIn(t, n) + 1
  BY DEF Follows
<1>2. /\ Heap(tn) /\ c \in Nat /\ DOMAIN sn = 1 .. c /\ DOMAIN tn = 1 .. c + 1
      /\ Len(tn) = c + 1 /\ tn[c + 1] = k
      /\ \A i \in 1 .. c : tn[i] = sn[i]
  BY Adds DEF Numbered
<1>3. OpenedIn(t, n) = c
  BY DEF Numbered
<1> HIDE DEF c
<1>4. Opens(u, n + 1) /\ DOMAIN u = 1 .. n + 1 /\ DOMAIN t = 1 .. n
  BY <1>1, LenProperties DEF Opens, Heap, Numbered
<1>5. \A i \in 1 .. n + 1 : i \in 1 .. n \/ i = n + 1
  BY <1>1
<1>6. \A i \in 1 .. n : i \in 0 .. n
  BY <1>1
<1>7. ASSUME NEW i \in DOMAIN u, Opens(u, i)
      PROVE  \/ i \in DOMAIN t /\ Opens(t, i) /\ OpenedIn(u, i) = OpenedIn(t, i)
             \/ i = n + 1 /\ OpenedIn(u, i) = c + 1
  BY ONLY <1>1, <1>3, <1>4, <1>5, <1>6, <1>7
<1>8. \A i \in 1 .. c : i \in 1 .. c + 1 /\ i # c + 1
  BY <1>2
<1>9. c + 1 \in 1 .. c + 1
  BY <1>2
<1>10. IsInjective(tn)
  <2>1. IsInjective(sn)
    BY DEF Numbered
  <2>2. \A i \in 1 .. c + 1 : i \in 1 .. c \/ i = c + 1
    BY <1>2
  <2>3. \A i, j \in DOMAIN sn : sn[i] = sn[j] => i = j
    BY ONLY <2>1 DEF IsInjective
  <2>4. ASSUME NEW i \in DOMAIN tn, NEW j \in DOMAIN tn, tn[i] = tn[j]
        PROVE  i = j
    BY ONLY <1>2, <2>2, <2>3, <2>4, Fresh(sn, k) DEF Fresh
  <2> QED  BY ONLY <2>4 DEF IsInjective
<1>11. \A i \in DOMAIN u : Opens(u, i) => OpenedIn(u, i) \in DOMAIN tn
  <2>1. \A i \in DOMAIN t : Opens(t, i) => OpenedIn(t, i) \in DOMAIN sn
    BY DEF Numbered
  <2> QED  BY ONLY <1>2, <1>7, <1>8, <1>9, <2>1
<1>12. ASSUME NEW i \in DOMAIN u, NEW j \in DOMAIN u,
              Opens(u, i), Opens(u, j), OpenedIn(u, i) = OpenedIn(u, j)
       PROVE  i = j
  <2>1. \A l \in DOMAIN t : Opens(t, l) => OpenedIn(t, l) # c + 1
    BY OpenedFew DEF c
  <2>2. \A l, m \in DOMAIN t :
          Opens(t, l) /\ Opens(t, m) /\ OpenedIn(t, l) = OpenedIn(t, m) => l = m
    BY DEF Numbered
  <2> QED  BY ONLY <1>7, <1>12, <2>1, <2>2
<1>13. OpenedIn(u, Len(u)) = Len(tn)
  BY <1>1, <1>2, <1>3
<1>14. Numbered(u, tn)
  BY ONLY <1>1, <1>2, <1>10, <1>11, <1>12, <1>13 DEF Numbered
<1> QED  BY <1>1, <1>2, <1>3, <1>4, <1>8, <1>14 DEF c, Joins

\* A container that is written stays so, and one below the top gets nothing
\* from a token that is not just inside it.
LEMMA Stays ==
    ASSUME NEW t, NEW x, NEW n, NEW u, Follows(t, x, n, u), n = Len(t), n \in Nat,
           NEW s \in 1 .. n,
           NEW sn, NEW tn, \A k \in DOMAIN sn : k \in DOMAIN tn /\ tn[k] = sn[k],
           NEW o
    PROVE  /\ Whole(t, sn, s, o) => Whole(u, tn, s, o)
           /\ \A m : Tells(t, sn, s, n + 1, Written(o), m)
                     /\ DepthIn(u, n + 1) >= DepthIn(t, s)
                     /\ ~ JustInside(u, n + 1, DepthIn(t, s))
                    => Tells(u, tn, s, n + 2, Written(o), m)
<1>1. Len(u) = n + 1 /\ \A i \in 0 .. n : DepthIn(u, i) = DepthIn(t, i)
  BY DEF Follows
<1>2. ASSUME Whole(t, sn, s, o) PROVE Whole(u, tn, s, o)
  <2> DEFINE w == Written(o)
  <2>1. PICK e \in s + 1 .. n : DepthIn(t, e) < DepthIn(t, s) /\ Tells(t, sn, s, e, w, Len(w))
    BY <1>2 DEF Whole
  <2>2. e \in s + 1 .. n + 1 /\ e \in 0 .. n /\ s \in 0 .. n
    OBVIOUS
  <2> HIDE DEF w
  <2>3. Tells(u, tn, s, e, w, Len(w))
    BY ONLY <2>1, <2>2, TellsOn, Follows(t, x, n, u), s \in 1 .. n,
            \A k \in DOMAIN sn : k \in DOMAIN tn /\ tn[k] = sn[k]
  <2>4. DepthIn(u, e) < DepthIn(u, s)
    BY <1>1, <2>1, <2>2
  <2> QED  BY <1>1, <2>2, <2>3, <2>4 DEF Whole, w
<1>3. ASSUME NEW m, Tells(t, sn, s, n + 1, Written(o), m),
             DepthIn(u, n + 1) >= DepthIn(t, s), ~ JustInside(u, n + 1, DepthIn(t, s))
      PROVE  Tells(u, tn, s, n + 2, Written(o), m)
  BY ONLY <1>3, TellsMore, Follows(t, x, n, u), s \in 1 .. n,
          \A k \in DOMAIN sn : k \in DOMAIN tn /\ tn[k] = sn[k]
<1> QED  BY <1>2, <1>3

\* The token x that follows t says the next value of the innermost container:
\* u is the text then, tn the numbers and oq what is open.
Gains(t, sn, op, x, n, u, tn, oq) ==
    LET D == Len(op)
        f == op[D]
    IN  /\ n = Len(t) /\ Follows(t, x, n, u)
        /\ \A k \in DOMAIN sn : k \in DOMAIN tn /\ tn[k] = sn[k]
        /\ DepthIn(u, n + 1) \in {D, D + 1} /\ \A d : JustInside(u, n + 1, d) <=> d = D
        /\ Says(u, tn, n + 1, Written(f.object)[f.next])
        /\ D \in DOMAIN oq /\ oq[D].object = f.object /\ oq[D].next = f.next + 1
        /\ \A d \in DOMAIN op : d # D => d \in DOMAIN oq /\ oq[d] = op[d]

\* A value is written to the innermost container that is open.
LEMMA Entered ==
    ASSUME NEW t, NEW sn, NEW op, Logged(t, sn, op),
           NEW x, NEW n, NEW u, NEW tn, NEW oq, Gains(t, sn, op, x, n, u, tn, oq),
           NEW k \in DOMAIN sn
    PROVE  \E s \in DOMAIN u : /\ Opens(u, s) /\ OpenedIn(u, s) = k
                               /\ Whole(u, tn, s, sn[k]) \/ Part(u, tn, oq, s, sn[k])
<1> DEFINE D == Len(op)
           f == op[D]
<1>0. /\ n = Len(t) /\ Follows(t, x, n, u)
      /\ \A j \in DOMAIN sn : j \in DOMAIN tn /\ tn[j] = sn[j]
      /\ DepthIn(u, n + 1) \in {D, D + 1} /\ \A d : JustInside(u, n + 1, d) <=> d = D
      /\ Says(u, tn, n + 1, Written(f.object)[f.next])
      /\ D \in DOMAIN oq /\ oq[D].object = f.object /\ oq[D].next = f.next + 1
      /\ \A d \in DOMAIN op : d # D => d \in DOMAIN oq /\ oq[d] = op[d]
  BY DEF Gains
<1> DEFINE o == sn[k]
           w == Written(o)
<1>1. PICK s \in DOMAIN t : /\ Opens(t, s) /\ OpenedIn(t, s) = k
                            /\ Whole(t, sn, s, o) \/ Part(t, sn, op, s, o)
  BY DEF Logged
<1>2. /\ n \in Nat /\ DOMAIN t = 1 .. n /\ DOMAIN u = 1 .. n + 1 /\ Len(u) = n + 1
      /\ \A i \in 1 .. n : Opens(u, i) <=> Opens(t, i)
      /\ \A i \in 0 .. n : OpenedIn(u, i) = OpenedIn(t, i) /\ DepthIn(u, i) = DepthIn(t, i)
  BY <1>0, LenProperties DEF Follows, Logged, Numbered, Heap
<1>3. s \in 1 .. n /\ s \in 0 .. n /\ s \in DOMAIN u
  BY <1>1, <1>2
<1>4. /\ Opens(u, s) /\ OpenedIn(u, s) = k /\ DepthIn(u, s) = DepthIn(t, s)
  BY <1>1, <1>2, <1>3
<1>5. /\ Whole(t, sn, s, o) => Whole(u, tn, s, o)
      /\ \A m : Tells(t, sn, s, n + 1, w, m) /\ DepthIn(u, n + 1) >= DepthIn(t, s)
                /\ ~ JustInside(u, n + 1, DepthIn(t, s))
               => Tells(u, tn, s, n + 2, w, m)
  BY ONLY <1>0, <1>2, <1>3, Stays
<1>6. CASE Whole(t, sn, s, o)
  BY <1>3, <1>4, <1>5, <1>6
<1>7. CASE Part(t, sn, op, s, o)
  <2>1. PICK d \in DOMAIN op : /\ op[d].object = o /\ DepthIn(t, s) = d
                               /\ Tells(t, sn, s, n + 1, w, op[d].next - 1)
    BY <1>0, <1>7 DEF Part
  <2>2. d \in 1 .. D /\ D \in Nat
    BY <2>1, LenProperties DEF Logged, Heap
  <2>3. DepthIn(u, n + 1) >= DepthIn(t, s) /\ (n + 1) + 1 = n + 2 /\ n + 1 \in Nat
    BY <1>0, <1>2, <2>1, <2>2
  <2>4. CASE d # D
    <3>1. ~ JustInside(u, n + 1, DepthIn(t, s))
      BY <1>0, <2>1, <2>4
    <3>2. Tells(u, tn, s, n + 2, w, op[d].next - 1)
      BY <1>5, <2>1, <2>3, <3>1
    <3>3. d \in DOMAIN oq /\ oq[d] = op[d]
      BY <1>0, <2>1, <2>4
    <3>4. Part(u, tn, oq, s, o)
      BY ONLY <1>2, <1>4, <2>1, <2>3, <3>2, <3>3 DEF Part, w
    <3> QED  BY <1>3, <1>4, <3>4
  <2>5. CASE d = D
    <3>1. f.object = o /\ Tells(t, sn, s, n + 1, w, f.next - 1) /\ f.next \in Nat
      BY <2>1, <2>5 DEF Logged, IsOpen
    <3>2. (f.next - 1) + 1 = f.next /\ (f.next + 1) - 1 = f.next
      BY <3>1
    <3>3. JustInside(u, n + 1, DepthIn(t, s)) /\ Says(u, tn, n + 1, w[(f.next - 1) + 1])
      BY <1>0, <2>1, <2>5, <3>1, <3>2
    <3>4. Tells(u, tn, s, n + 2, w, (f.next - 1) + 1)
      BY ONLY <1>0, <1>3, <2>3, <3>1, <3>3, TellsMore
    <3>5. Tells(u, tn, s, n + 2, w, oq[D].next - 1)
      BY <1>0, <3>2, <3>4
    <3>6. oq[D].object = o /\ DepthIn(u, s) = D
      BY <1>0, <1>4, <2>1, <2>5, <3>1
    <3>7. Part(u, tn, oq, s, o)
      BY ONLY <1>2, <2>3, <3>5, <3>6, <1>0 DEF Part, w
    <3> QED  BY <1>3, <1>4, <3>7
  <2> QED  BY <2>4, <2>5
<1> QED  BY <1>1, <1>6, <1>7

\* The innermost container goes on to its next value.
Advances(op, oq) ==
    /\ Heap(oq) /\ Len(op) \in Nat \ {0} /\ Len(oq) = Len(op)
    /\ DOMAIN op = 1 .. Len(op) /\ DOMAIN oq = 1 .. Len(op)
    /\ oq[Len(op)] = [object |-> op[Len(op)].object, next |-> op[Len(op)].next + 1]
    /\ \A d \in DOMAIN op : d # Len(op) => d \in DOMAIN oq /\ oq[d] = op[d]

\* So it does.
LEMMA AdvanceFacts ==
    ASSUME NEW op, Heap(op), op # <<>>, \A d \in DOMAIN op : IsOpen(op[d]),
           NEW oq, oq = [op EXCEPT ![Len(op)].next = @ + 1]
    PROVE  Advances(op, oq)
<1> DEFINE D == Len(op)
           f == op[D]
           g == [object |-> f.object, next |-> f.next + 1]
<1>1. D # 0 /\ D \in Nat /\ DOMAIN op = 1 .. D /\ D \in DOMAIN op
  BY HeapEnd
<1>2. \A x \in Nat : x # 0 => x \in Nat \ {0}
  OBVIOUS
<1>3. f = [object |-> f.object, next |-> f.next]
  BY <1>1 DEF IsOpen
<1>4. [f EXCEPT !.next = f.next + 1] = g
  <2>1. \A a, b, c : [[object |-> a, next |-> b] EXCEPT !.next = c] = [object |-> a, next |-> c]
    OBVIOUS
  <2> QED  BY <1>3, <2>1
<1>5. oq = [op EXCEPT ![D] = [f EXCEPT !.next = f.next + 1]]
  BY <1>1
<1>6. oq = [op EXCEPT ![D] = g]
  BY ONLY <1>4, <1>5
<1>7. op = [i \in 1 .. D |-> op[i]]
  BY <1>1, LenProperties DEF Heap
<1> HIDE DEF D, g, f
<1>8. /\ oq = [i \in 1 .. D |-> oq[i]] /\ oq[D] = g
      /\ \A d \in 1 .. D : d # D => oq[d] = op[d]
  BY ONLY <1>1, <1>6, <1>7
<1>9. Heap(oq) /\ Len(oq) = D /\ DOMAIN oq = 1 .. D
  BY ONLY <1>1, <1>8, HeapOf
<1> QED  BY <1>1, <1>2, <1>8, <1>9 DEF Advances, D, g, f

\* What is open after it.
LEMMA AdvancedOpen ==
    ASSUME NEW op, \A d \in DOMAIN op : IsOpen(op[d]), NEW oq, Advances(op, oq),
           op[Len(op)].next <= Len(Written(op[Len(op)].object)), NEW d \in DOMAIN oq
    PROVE  IsOpen(oq[d])
<1> DEFINE D == Len(op)
           f == op[D]
<1>1. /\ D \in Nat \ {0} /\ DOMAIN op = 1 .. D /\ DOMAIN oq = 1 .. D
      /\ oq[D] = [object |-> f.object, next |-> f.next + 1]
      /\ \A i \in DOMAIN op : i # D => oq[i] = op[i]
  BY DEF Advances
<1>2. CASE d # D
  BY <1>1, <1>2
<1>3. CASE d = D
  <2>1. D \in DOMAIN op
    BY <1>1
  <2>2. /\ f.object \in DOMAIN js /\ js[f.object].type # "code"
        /\ f.next \in Nat
    BY <2>1 DEF IsOpen
  <2>3. oq[d].object = f.object /\ oq[d].next = f.next + 1 /\ f.next + 1 \in Nat \ {0}
        /\ (f.next + 1) - 1 = f.next
    BY <1>1, <1>3, <2>2
  <2>4. oq[d] = [object |-> oq[d].object, next |-> oq[d].next]
    BY ONLY <1>1, <1>3, <2>3
  <2>5. f.next <= Len(Written(f.object))
    OBVIOUS
  <2> QED  BY ONLY <2>2, <2>3, <2>4, <2>5 DEF IsOpen
<1> QED  BY <1>2, <1>3

\* A value that is no container is written, or a container met before.
LEMMA LoggedValue ==
    ASSUME NEW t, NEW sn, NEW op, Logged(t, sn, op), op # <<>>,
           NEW oq, oq = [op EXCEPT ![Len(op)].next = @ + 1],
           NEW f, f = op[Len(op)], f.next <= Len(Written(f.object)),
           NEW x, "open" \notin DOMAIN x, "close" \notin DOMAIN x,
           NEW n, n = Len(t), NEW u, u = Append(t, x),
           Says(u, sn, n + 1, Written(f.object)[f.next])
    PROVE  Logged(u, sn, oq)
<1> DEFINE D == Len(op)
<1>1. /\ Numbered(t, sn) /\ Heap(t) /\ Heap(op) /\ DepthIn(t, n) = D
      /\ \A d \in DOMAIN op : IsOpen(op[d])
  BY DEF Logged, Numbered
<1>2. Follows(t, x, n, u) /\ Advances(op, oq)
  BY <1>1, TextGrows, AdvanceFacts
<1>3. /\ n \in Nat /\ Len(u) = n + 1 /\ u[n + 1] = x
      /\ OpenedIn(u, n + 1) = OpenedIn(t, n) + 0
      /\ ClosedIn(u, n + 1) = ClosedIn(t, n) + 0
  BY <1>2 DEF Follows
<1>4. DepthIn(u, n + 1) = D /\ ~ Opens(u, n + 1) /\ ~ Closes(u, n + 1)
  <2>1. OpenedIn(t, n) \in Nat /\ ClosedIn(t, n) \in Nat
    BY <1>3, DepthType
  <2>2. DepthIn(t, n) = OpenedIn(t, n) - ClosedIn(t, n)
    BY DEF DepthIn
  <2>3. DepthIn(u, n + 1) = OpenedIn(u, n + 1) - ClosedIn(u, n + 1)
    BY DEF DepthIn
  <2>4. DepthIn(u, n + 1) = D
    BY ONLY <1>1, <1>3, <2>1, <2>2, <2>3
  <2> QED  BY <1>3, <2>4 DEF Opens, Closes
<1>5. /\ Heap(oq) /\ D \in Nat \ {0} /\ Len(oq) = D /\ D \in DOMAIN oq
      /\ oq[D] = [object |-> f.object, next |-> f.next + 1]
      /\ \A d \in DOMAIN op : d # D => d \in DOMAIN oq /\ oq[d] = op[d]
  <2>1. \A i \in Nat \ {0} : i \in 1 .. i
    OBVIOUS
  <2> QED  BY <1>2, <2>1 DEF Advances
<1>6. oq[D].object = f.object /\ oq[D].next = f.next + 1
  BY <1>5
<1>7. \A d : JustInside(u, n + 1, d) <=> d = D
  <2>1. D - 0 = D
    BY <1>5
  <2> QED  BY <1>4, <2>1 DEF JustInside
<1>8. \A d \in DOMAIN oq : IsOpen(oq[d])
  BY <1>1, <1>2, AdvancedOpen
<1>9. Numbered(u, sn)
  BY <1>1, <1>2, NumberedStays
<1>10. ASSUME NEW k \in DOMAIN sn
       PROVE  \E s \in DOMAIN u : /\ Opens(u, s) /\ OpenedIn(u, s) = k
                                  /\ Whole(u, sn, s, sn[k]) \/ Part(u, sn, oq, s, sn[k])
  <2>1. DepthIn(u, n + 1) \in {D, D + 1} /\ f = op[D]
    BY <1>4
  <2>2. \A j \in DOMAIN sn : j \in DOMAIN sn /\ sn[j] = sn[j]
    OBVIOUS
  <2>3. Gains(t, sn, op, x, n, u, sn, oq)
    BY ONLY <1>2, <1>5, <1>6, <1>7, <2>1, <2>2, n = Len(t),
            Says(u, sn, n + 1, Written(f.object)[f.next]) DEF Gains
  <2> QED  BY ONLY <2>3, k \in DOMAIN sn, Logged(t, sn, op), Entered
<1> QED  BY <1>3, <1>4, <1>5, <1>8, <1>9, <1>10 DEF Logged

\* The container k is the object that is logged, or the next value of the
\* innermost container; below is what is open once it is taken.
Receives(sn, op, k, below) ==
    LET f == op[Len(op)]
    IN  \/ op = <<>> /\ sn = <<>> /\ below = <<>>
        \/ /\ op # <<>> /\ below = [op EXCEPT ![Len(op)].next = @ + 1]
           /\ f.next <= Len(Written(f.object)) /\ Written(f.object)[f.next] = Ref(k)

\* When it is met for the first time, it is opened.
LEMMA LoggedOpening ==
    ASSUME NEW t, NEW sn, NEW op, Logged(t, sn, op),
           NEW k \in DOMAIN js, js[k].type # "code", Len(Written(k)) \in Nat,
           Fresh(sn, k),
           NEW below, Receives(sn, op, k, below),
           NEW x, "open" \in DOMAIN x, "close" \notin DOMAIN x,
           NEW n, n = Len(t), NEW u, u = Append(t, x),
           NEW tn, tn = Append(sn, k),
           NEW oq, oq = Append(below, [object |-> k, next |-> 1])
    PROVE  Logged(u, tn, oq)
<1> DEFINE D == Len(op)
           f == op[D]
           new == [object |-> k, next |-> 1]
<1>0. \/ op = <<>> /\ sn = <<>> /\ below = <<>>
      \/ /\ op # <<>> /\ below = [op EXCEPT ![D].next = @ + 1]
         /\ f.next <= Len(Written(f.object)) /\ Written(f.object)[f.next] = Ref(k)
  BY DEF Receives
<1>1. /\ Numbered(t, sn) /\ Heap(t) /\ Heap(op) /\ DepthIn(t, n) = D
      /\ \A d \in DOMAIN op : IsOpen(op[d])
  BY DEF Logged, Numbered
<1>2. Follows(t, x, n, u)
  BY <1>1, TextGrows
<1>3. /\ Numbered(u, tn) /\ Len(sn) \in Nat /\ Len(tn) = Len(sn) + 1
      /\ tn[Len(sn) + 1] = k /\ DOMAIN tn = 1 .. Len(sn) + 1 /\ DOMAIN sn = 1 .. Len(sn)
      /\ Opens(u, n + 1) /\ OpenedIn(u, n + 1) = Len(sn) + 1
      /\ \A i \in DOMAIN sn : i \in DOMAIN tn /\ tn[i] = sn[i]
  <2>1. Joins(sn, k, tn, u, n + 1)
    BY ONLY <1>1, <1>2, n = Len(t), "open" \in DOMAIN x, Fresh(sn, k),
            tn = Append(sn, k), NumberedMore
  <2> QED  BY <2>1 DEF Joins
<1>4. /\ n \in Nat /\ Len(u) = n + 1 /\ u[n + 1] = x /\ Heap(u)
      /\ OpenedIn(u, n + 1) = OpenedIn(t, n) + 1
      /\ ClosedIn(u, n + 1) = ClosedIn(t, n) + 0
  BY <1>2 DEF Follows
<1>5. DepthIn(u, n + 1) = D + 1 /\ ~ Closes(u, n + 1)
  <2>1. OpenedIn(t, n) \in Nat /\ ClosedIn(t, n) \in Nat
    BY <1>4, DepthType
  <2>2. DepthIn(t, n) = OpenedIn(t, n) - ClosedIn(t, n)
    BY DEF DepthIn
  <2>3. DepthIn(u, n + 1) = OpenedIn(u, n + 1) - ClosedIn(u, n + 1)
    BY DEF DepthIn
  <2>4. DepthIn(u, n + 1) = D + 1
    BY ONLY <1>1, <1>4, <2>1, <2>2, <2>3
  <2> QED  BY <1>4, <2>4 DEF Closes
<1>6. /\ Heap(below) /\ Len(below) = D /\ \A d \in DOMAIN below : IsOpen(below[d])
      /\ op # <<>> => Advances(op, below)
  <2>1. CASE op = <<>>
    BY <1>0, <1>1, <2>1
  <2>2. CASE op # <<>>
    <3>1. Advances(op, below)
      BY <1>0, <1>1, <2>2, AdvanceFacts
    <3>2. Heap(below) /\ Len(below) = D
      BY <3>1 DEF Advances
    <3> QED  BY <1>0, <1>1, <2>2, <3>1, <3>2, AdvancedOpen
  <2> QED  BY <2>1, <2>2
<1> HIDE DEF new
<1>7. /\ Heap(oq) /\ D \in Nat /\ DOMAIN below = 1 .. D /\ DOMAIN oq = 1 .. D + 1
      /\ Len(oq) = D + 1 /\ oq[D + 1] = new
      /\ \A d \in 1 .. D : oq[d] = below[d]
  BY <1>6, Adds DEF new
<1>8. \A m \in Nat : \A d \in 1 .. m + 1 : d \in 1 .. m \/ d = m + 1
  OBVIOUS
<1>9. \A d \in DOMAIN oq : IsOpen(oq[d])
  <2>1. IsOpen(new)
    <3>1. new.object = k /\ new.next = 1 /\ new = [object |-> new.object, next |-> new.next]
      BY DEF new
    <3>2. 1 \in Nat \ {0} /\ 1 - 1 <= Len(Written(k))
      OBVIOUS
    <3> QED  BY <3>1, <3>2 DEF IsOpen
  <2> QED  BY <1>6, <1>7, <1>8, <2>1
<1>10. ASSUME NEW i \in DOMAIN sn
       PROVE  \E s \in DOMAIN u : /\ Opens(u, s) /\ OpenedIn(u, s) = i
                                  /\ Whole(u, tn, s, tn[i]) \/ Part(u, tn, oq, s, tn[i])
  <2>1. op # <<>> /\ Written(f.object)[f.next] = Ref(k)
    BY <1>0, <1>10, EmptySeq
  <2>2. /\ D \in Nat \ {0} /\ DOMAIN op = 1 .. D
        /\ below[D] = [object |-> f.object, next |-> f.next + 1]
        /\ \A d \in DOMAIN op : d # D => d \in DOMAIN below /\ below[d] = op[d]
    BY <1>6, <2>1 DEF Advances
  <2>3. \A m \in Nat \ {0} : m \in 1 .. m /\ m \in 1 .. m + 1 /\ (m + 1) - 1 = m
                            /\ \A d \in 1 .. m : d \in 1 .. m + 1
    OBVIOUS
  <2>4. /\ D \in DOMAIN oq /\ oq[D].object = f.object /\ oq[D].next = f.next + 1
        /\ \A d \in DOMAIN op : d # D => d \in DOMAIN oq /\ oq[d] = op[d]
    <3>1. D \in 1 .. D /\ D \in 1 .. D + 1 /\ \A d \in 1 .. D : d \in 1 .. D + 1
      BY <2>2, <2>3
    <3>2. oq[D] = [object |-> f.object, next |-> f.next + 1]
      BY ONLY <1>7, <2>2, <3>1
    <3>3. oq[D].object = f.object /\ oq[D].next = f.next + 1
      BY ONLY <3>2
    <3>4. \A d \in DOMAIN op : d # D => d \in DOMAIN oq /\ oq[d] = op[d]
      BY ONLY <1>7, <2>2, <3>1
    <3> QED  BY <1>7, <3>1, <3>3, <3>4
  <2>5. \A d : JustInside(u, n + 1, d) <=> d = D
    BY <1>3, <1>5, <2>2, <2>3 DEF JustInside
  <2>6. Says(u, tn, n + 1, Ref(k))
    <3>1. MeantIn(u, n + 1) = Ref(Len(sn) + 1)
      BY <1>3 DEF MeantIn
    <3>2. Len(sn) + 1 \in DOMAIN tn
      <4>1. \A m \in Nat : m + 1 \in 1 .. m + 1
        OBVIOUS
      <4> QED  BY <1>3, <4>1
    <3>3. \A m : IsRef(Ref(m)) /\ Ref(m).to = m
      BY DEF IsRef, Ref
    <3> QED  BY <1>3, <3>1, <3>2, <3>3 DEF Says
  <2>7. DepthIn(u, n + 1) \in {D, D + 1} /\ f = op[D]
    BY <1>5
  <2>8. Gains(t, sn, op, x, n, u, tn, oq)
    BY ONLY <1>2, <1>3, <2>1, <2>4, <2>5, <2>6, <2>7, n = Len(t) DEF Gains
  <2>9. tn[i] = sn[i]
    BY <1>3
  <2> QED  BY ONLY <2>8, <2>9, i \in DOMAIN sn, Logged(t, sn, op), Entered
<1>11. Part(u, tn, oq, n + 1, k) /\ n + 1 \in DOMAIN u
  <2>1. n + 1 \in Nat /\ (n + 1) + 1 = Len(u) + 1 /\ 1 - 1 = 0
    BY <1>4
  <2>2. Tells(u, tn, n + 1, Len(u) + 1, Written(k), 0)
    BY <2>1, TellsNothing
  <2>3. D + 1 \in DOMAIN oq /\ oq[D + 1].object = k /\ oq[D + 1].next - 1 = 0
    <3>1. \A m \in Nat : m + 1 \in 1 .. m + 1
      OBVIOUS
    <3> QED  BY <1>7, <2>1, <3>1 DEF new
  <2>4. n + 1 \in DOMAIN u
    <3>1. DOMAIN u = 1 .. n + 1
      BY <1>4, LenProperties DEF Heap
    <3>2. \A m \in Nat : m + 1 \in 1 .. m + 1
      OBVIOUS
    <3> QED  BY <1>4, <3>1, <3>2
  <2> QED  BY <1>5, <2>2, <2>3, <2>4 DEF Part
<1>12. ASSUME NEW i \in DOMAIN tn
       PROVE  \E s \in DOMAIN u : /\ Opens(u, s) /\ OpenedIn(u, s) = i
                                  /\ Whole(u, tn, s, tn[i]) \/ Part(u, tn, oq, s, tn[i])
  <2>1. CASE i \in DOMAIN sn
    BY <1>10, <2>1
  <2>2. CASE i = Len(sn) + 1
    BY <1>3, <1>11, <2>2
  <2> QED  BY <1>3, <1>8, <2>1, <2>2
<1>13. DepthIn(u, Len(u)) = Len(oq)
  BY <1>4, <1>5, <1>7
<1> QED  BY ONLY <1>3, <1>7, <1>9, <1>12, <1>13 DEF Logged

\* The innermost container comes to its end.
LEMMA LoggedEnd ==
    ASSUME NEW t, NEW sn, NEW op, Logged(t, sn, op), op # <<>>,
           NEW f, f = op[Len(op)], f.next > Len(Written(f.object)),
           Len(Written(f.object)) \in Nat,
           NEW oq, oq = Front(op),
           NEW x, "open" \notin DOMAIN x, "close" \in DOMAIN x,
           NEW n, n = Len(t), NEW u, u = Append(t, x)
    PROVE  Logged(u, sn, oq)
<1> DEFINE D == Len(op)
<1>1. /\ Numbered(t, sn) /\ Heap(t) /\ Heap(op) /\ DepthIn(t, n) = D
      /\ \A d \in DOMAIN op : IsOpen(op[d])
      /\ D # 0 /\ D \in Nat /\ DOMAIN op = 1 .. D /\ D \in DOMAIN op
  BY HeapEnd DEF Logged, Numbered
<1>2. Follows(t, x, n, u) /\ Numbered(u, sn)
  <2>1. Follows(t, x, n, u)
    BY <1>1, TextGrows
  <2> QED  BY <1>1, <2>1, NumberedStays
<1>3. /\ n \in Nat /\ Len(u) = n + 1 /\ u[n + 1] = x /\ Heap(u)
      /\ OpenedIn(u, n + 1) = OpenedIn(t, n) + 0
      /\ ClosedIn(u, n + 1) = ClosedIn(t, n) + 1
      /\ \A i \in 1 .. n : Opens(u, i) <=> Opens(t, i)
      /\ \A i \in 0 .. n : OpenedIn(u, i) = OpenedIn(t, i) /\ DepthIn(u, i) = DepthIn(t, i)
  BY <1>2 DEF Follows
<1>4. DepthIn(u, n + 1) = D - 1 /\ Closes(u, n + 1)
  <2>1. OpenedIn(t, n) \in Nat /\ ClosedIn(t, n) \in Nat
    BY <1>3, DepthType
  <2>2. DepthIn(t, n) = OpenedIn(t, n) - ClosedIn(t, n)
    BY DEF DepthIn
  <2>3. DepthIn(u, n + 1) = OpenedIn(u, n + 1) - ClosedIn(u, n + 1)
    BY DEF DepthIn
  <2>4. DepthIn(u, n + 1) = D - 1
    BY ONLY <1>1, <1>3, <2>1, <2>2, <2>3
  <2> QED  BY <1>3, <2>4 DEF Closes
<1>5. /\ Heap(oq) /\ Len(oq) = D - 1 /\ DOMAIN oq = 1 .. D - 1
      /\ \A d \in 1 .. D - 1 : oq[d] = op[d]
  <2>1. op \in Seq(ToSet(op))
    BY <1>1 DEF Heap
  <2> DEFINE T == ToSet(op)
  <2> HIDE DEF T
  <2>2. /\ oq \in Seq(T) /\ Len(oq) = D - 1 /\ \A d \in 1 .. D - 1 : oq[d] = op[d]
    BY <2>1, FrontFacts DEF T
  <2>3. DOMAIN oq = 1 .. D - 1 /\ oq = [i \in 1 .. D - 1 |-> oq[i]] /\ D - 1 \in Nat
    BY <1>1, <2>2, LenProperties
  <2> QED  BY <2>2, <2>3, HeapOf
<1>6. \A d \in DOMAIN oq : d \in DOMAIN op /\ IsOpen(oq[d])
  <2>1. \A m \in Nat : \A d \in 1 .. m - 1 : d \in 1 .. m
    OBVIOUS
  <2> QED  BY <1>1, <1>5, <2>1
<1>7. f.next - 1 = Len(Written(f.object))
  <2>1. f.next \in Nat \ {0} /\ f.next - 1 <= Len(Written(f.object))
    BY <1>1 DEF IsOpen
  <2>2. \A a, b \in Nat : a > b /\ a - 1 <= b => a - 1 = b
    OBVIOUS
  <2>3. f.next \in Nat
    BY <2>1
  <2> QED  BY ONLY <2>1, <2>2, <2>3, f.next > Len(Written(f.object)),
                   Len(Written(f.object)) \in Nat
<1>8. DOMAIN t = 1 .. n /\ DOMAIN u = 1 .. n + 1
  BY <1>1, <1>3, LenProperties DEF Heap
<1>9. \A j \in DOMAIN sn : j \in DOMAIN sn /\ sn[j] = sn[j]
  OBVIOUS
<1>10. ASSUME NEW k \in DOMAIN sn
       PROVE  \E s \in DOMAIN u : /\ Opens(u, s) /\ OpenedIn(u, s) = k
                                  /\ Whole(u, sn, s, sn[k]) \/ Part(u, sn, oq, s, sn[k])
  <2> DEFINE o == sn[k]
             w == Written(o)
  <2>1. PICK s \in DOMAIN t : /\ Opens(t, s) /\ OpenedIn(t, s) = k
                              /\ Whole(t, sn, s, o) \/ Part(t, sn, op, s, o)
    BY DEF Logged
  <2>2. /\ s \in 1 .. n /\ s \in 0 .. n /\ s \in DOMAIN u
        /\ n + 1 \in s + 1 .. n + 1 /\ n + 1 \in s + 1 .. Len(u) /\ (n + 1) + 1 = n + 2
    BY <1>3, <1>8
  <2>3. /\ Opens(u, s) /\ OpenedIn(u, s) = k /\ DepthIn(u, s) = DepthIn(t, s)
    BY <1>3, <2>1, <2>2
  <2>4. /\ Whole(t, sn, s, o) => Whole(u, sn, s, o)
        /\ \A m : Tells(t, sn, s, n + 1, w, m) /\ DepthIn(u, n + 1) >= DepthIn(t, s)
                  /\ ~ JustInside(u, n + 1, DepthIn(t, s))
                 => Tells(u, sn, s, n + 2, w, m)
    BY ONLY <1>2, <1>3, <1>9, <2>2, n = Len(t), Stays
  <2>5. CASE Whole(t, sn, s, o)
    BY <2>2, <2>3, <2>4, <2>5
  <2>6. CASE Part(t, sn, op, s, o)
    <3>1. PICK d \in DOMAIN op : /\ op[d].object = o /\ DepthIn(t, s) = d
                                 /\ Tells(t, sn, s, n + 1, w, op[d].next - 1)
      BY <2>6 DEF Part
    <3>2. CASE d = D
      <4>1. f.object = o /\ Tells(t, sn, s, n + 1, w, Len(w))
        BY <1>7, <3>1, <3>2
      <4> HIDE DEF w
      <4>2. Tells(u, sn, s, n + 1, w, Len(w))
        BY ONLY <1>2, <1>9, <2>2, <4>1, TellsOn
      <4>3. DepthIn(u, n + 1) < DepthIn(u, s)
        BY <1>1, <1>4, <2>3, <3>1, <3>2
      <4>4. Whole(u, sn, s, o)
        BY ONLY <2>2, <4>2, <4>3 DEF Whole, w
      <4> QED  BY <2>2, <2>3, <4>4
    <3>3. CASE d # D
      <4>1. d \in 1 .. D - 1 /\ DepthIn(u, n + 1) >= DepthIn(t, s)
        <5>1. \A m \in Nat : \A i \in 1 .. m : i # m => i \in 1 .. m - 1 /\ m - 1 >= i
          OBVIOUS
        <5> QED  BY <1>1, <1>4, <3>1, <3>3, <5>1
      <4>2. ~ JustInside(u, n + 1, DepthIn(t, s))
        BY <1>4 DEF JustInside
      <4>3. Tells(u, sn, s, n + 2, w, op[d].next - 1)
        BY <2>4, <3>1, <4>1, <4>2
      <4>4. d \in DOMAIN oq /\ oq[d] = op[d] /\ Len(u) + 1 = n + 2
        BY <1>3, <1>5, <2>2, <4>1
      <4>5. Part(u, sn, oq, s, o)
        BY ONLY <2>3, <3>1, <4>3, <4>4 DEF Part, w
      <4> QED  BY <2>2, <2>3, <4>5
    <3> QED  BY <3>2, <3>3
  <2> QED  BY <2>1, <2>5, <2>6
<1>11. DepthIn(u, Len(u)) = Len(oq)
  BY <1>3, <1>4, <1>5
<1> QED  BY ONLY <1>2, <1>5, <1>6, <1>10, <1>11 DEF Logged
----------------------------------------------------------------------------
(* The values that are written. *)

\* A leaf, whose token is itself, or a container.
IsWritten(v) ==
    \/ IsRef(v) /\ v = Ref(v.to) /\ v.to \in DOMAIN js /\ js[v.to].type # "code"
    \/ ~ IsRef(v) /\ {"open", "close", "cycle"} \cap DOMAIN v = {}

\* A leaf has none of the fields of the other tokens.
LEMMA LeafTokens ==
    ASSUME NEW g, IsGraph(g), NEW w \in JsLeaves(g)
    PROVE  ~ IsRef(w) /\ {"open", "close", "cycle"} \cap DOMAIN w = {}
<1>1. PICK v \in {x \in ValuesOf(g) : IsLeaf(x) /\ x # Hole}, r \in BOOLEAN :
          w = LeafToJs(v, r)
  BY DEF JsLeaves
<1>2. IsGraph(g) /\ v \in ValuesOf(g) /\ IsLeaf(v)
  BY <1>1
<1>3. \A y : /\ {"open", "close", "cycle", "to"} \cap DOMAIN Leaf(y) = {}
             /\ {"open", "close", "cycle", "to"} \cap DOMAIN Number(y) = {}
  BY DEF Leaf, Number
<1>4. \E y : w = Leaf(y) \/ w = Number(y)
  <2>1. CASE IsInt(v)
    <3> DEFINE val == LongOf(v.int)
    <3>1. w = CASE r /\ val = 0 -> Leaf("false")
                [] r /\ val = 1 -> Leaf("true")
                [] OTHER -> Number(Double(val))
      BY ONLY <1>1, <2>1 DEF LeafToJs
    <3> HIDE DEF val
    <3>2. w \in {Leaf("false"), Leaf("true"), Number(Double(val))}
      <4>1. CASE r /\ val = 0
        BY ONLY <3>1, <4>1
      <4>2. CASE ~ (r /\ val = 0) /\ r /\ val = 1
        BY ONLY <3>1, <4>2
      <4>3. CASE ~ (r /\ val = 0) /\ ~ (r /\ val = 1)
        BY ONLY <3>1, <4>3
      <4> QED  BY <4>1, <4>2, <4>3
    <3> QED  BY <3>2
  <2>2. CASE ~ IsInt(v)
    <3>1. v = Leaf(v.leaf)
      BY <1>2, <2>2, PerlValues
    <3>2. w = Leaf("null") \/ w = v
      BY ONLY <1>1, <2>2 DEF LeafToJs
    <3> QED  BY <3>1, <3>2
  <2> QED  BY <2>1, <2>2
<1> QED  BY <1>3, <1>4 DEF IsRef

\* So what set made of the values of an object is written.
LEMMA WrittenFacts ==
    ASSUME IsGraph(source), Made(source, js), NEW o \in DOMAIN js, js[o].type # "code"
    PROVE  /\ Len(Written(o)) \in Nat
           /\ \A i \in 1 .. Len(Written(o)) : IsWritten(Written(o)[i])
<1> DEFINE e == js[o].elems
           S == {i \in DOMAIN e : ~ IsFunction(e[i])}
           d == InOrder(S)
<1>1. Heap(e) /\ \A i \in 1 .. Len(e) : e[i] \in Outcomes(source, js)
  BY DEF Made
<1>2. Len(e) \in Nat /\ DOMAIN e = 1 .. Len(e)
  BY <1>1, LenProperties DEF Heap
<1>3. ASSUME NEW v \in Outcomes(source, js), ~ IsFunction(v)
      PROVE  IsWritten(v)
  <2>1. /\ IsRef(v) => v = Ref(v.to) /\ v.to \in DOMAIN js
        /\ ~ IsRef(v) => v \in JsLeaves(source)
    BY <1>3, OutcomeFacts
  <2>2. CASE IsRef(v)
    BY <1>3, <2>1, <2>2 DEF IsFunction, IsWritten
  <2>3. CASE ~ IsRef(v)
    BY <2>1, <2>3, LeafTokens DEF IsWritten
  <2> QED  BY <2>2, <2>3
<1>4. IsWritten(Leaf("null"))
  BY DEF IsWritten, Leaf, IsRef
<1>5. S \in SUBSET Nat /\ IsFiniteSet(S)
  <2>1. IsFiniteSet(1 .. Len(e))
    BY <1>2, FS_Interval
  <2>2. S \in SUBSET (1 .. Len(e)) /\ 1 .. Len(e) \subseteq Nat
    BY <1>2
  <2> HIDE DEF S
  <2> QED  BY <2>1, <2>2, FS_Subset
<1>6. \A i \in S : i \in 1 .. Len(e) /\ ~ IsFunction(e[i])
  BY <1>2
<1> HIDE DEF S
<1>7. /\ Cardinality(S) \in Nat /\ DOMAIN d = 1 .. Cardinality(S)
      /\ \A i \in 1 .. Cardinality(S) : d[i] \in S
  BY <1>5, InOrderFacts
<1> HIDE DEF d
<1> DEFINE w == Written(o)
<1>8. w = IF js[o].type = "hash" THEN [i \in DOMAIN d |-> e[d[i]]]
          ELSE [i \in DOMAIN e |-> IF IsFunction(e[i]) THEN Leaf("null") ELSE e[i]]
  BY DEF Written, d, S
<1> HIDE DEF w, e
<1>9. CASE js[o].type = "hash"
  <2>1. w = [i \in 1 .. Cardinality(S) |-> e[d[i]]]
    BY <1>7, <1>8, <1>9
  <2>2. w = [i \in 1 .. Cardinality(S) |-> w[i]]
    BY <2>1
  <2>3. Len(w) = Cardinality(S)
    BY ONLY <1>7, <2>2, HeapOf
  <2>4. \A i \in 1 .. Cardinality(S) : IsWritten(w[i])
    BY <1>1, <1>3, <1>6, <1>7, <2>1
  <2> QED  BY <1>7, <2>3, <2>4 DEF w
<1>10. CASE js[o].type # "hash"
  <2>1. w = [i \in 1 .. Len(e) |-> IF IsFunction(e[i]) THEN Leaf("null") ELSE e[i]]
    BY <1>2, <1>8, <1>10
  <2>2. w = [i \in 1 .. Len(e) |-> w[i]]
    BY <2>1
  <2>3. Len(w) = Len(e)
    BY ONLY <1>2, <2>2, HeapOf
  <2>4. ASSUME NEW i \in 1 .. Len(e) PROVE IsWritten(w[i])
    <3>1. w[i] = IF IsFunction(e[i]) THEN Leaf("null") ELSE e[i]
      BY <2>1
    <3> QED  BY <1>1, <1>3, <1>4, <3>1
  <2> QED  BY <1>2, <2>3, <2>4 DEF w
<1> QED  BY <1>9, <1>10
----------------------------------------------------------------------------
(* Every step of the console. *)

\* The number written for a container met before is that of its opening.
LEMMA NumberFacts ==
    ASSUME Heap(seen), NEW k, Contains(seen, k)
    PROVE  NumberOf(k) + 1 \in DOMAIN seen /\ seen[NumberOf(k) + 1] = k
<1> DEFINE I == {i \in 1 .. Len(seen) : seen[i] = k}
<1>1. Len(seen) \in Nat /\ DOMAIN seen = 1 .. Len(seen)
  BY LenProperties DEF Heap
<1>2. I \in SUBSET Nat /\ I # {}
  BY <1>1 DEF Contains
<1>3. NumberOf(k) = (IF I = {} THEN 0 ELSE Min(I)) - 1
  BY DEF NumberOf, SelectInSeq
<1>4. \A i \in I : i \in 1 .. Len(seen) /\ seen[i] = k
  OBVIOUS
<1> HIDE DEF I
<1>5. Min(I) \in I
  BY <1>2, MinFacts
<1>6. NumberOf(k) + 1 = Min(I)
  <2>1. Min(I) \in Nat
    BY <1>2, <1>5
  <2>2. \A m \in Nat : (m - 1) + 1 = m
    OBVIOUS
  <2> QED  BY <1>2, <1>3, <2>1, <2>2
<1> QED  BY <1>1, <1>4, <1>5, <1>6

\* A container is visited: the object that is logged, or the next value.
LEMMA LoggedVisit ==
    ASSUME IsGraph(source), Made(source, js), Logged(text, seen, open),
           NEW k \in DOMAIN js, js[k].type # "code",
           NEW below, Receives(seen, open, k, below),
           VisitObject(k, below)
    PROVE  Logged(text', seen', open')
<1> DEFINE n == Len(text)
           f == open[Len(open)]
<1>1. Numbered(text, seen) /\ Heap(text) /\ Heap(seen)
  BY DEF Logged, Numbered
<1>2. CASE Contains(seen, k)
  <2> DEFINE x == Cycle(NumberOf(k))
             u == Append(text, x)
  <2>1. text' = u /\ open' = below /\ seen' = seen
    BY <1>2 DEF VisitObject
  <2>2. open # <<>>
    <3>1. seen # <<>>
      BY <1>2 DEF Contains
    <3> QED  BY <3>1 DEF Receives
  <2>3. /\ below = [open EXCEPT ![Len(open)].next = @ + 1]
        /\ f.next <= Len(Written(f.object)) /\ Written(f.object)[f.next] = Ref(k)
    BY <2>2 DEF Receives
  <2>4. /\ "open" \notin DOMAIN x /\ "close" \notin DOMAIN x /\ "cycle" \in DOMAIN x
        /\ x.cycle = NumberOf(k)
    BY DEF Cycle
  <2>5. u[n + 1] = x
    BY <1>1, Adds
  <2>6. MeantIn(u, n + 1) = Ref(NumberOf(k) + 1)
    BY <2>4, <2>5 DEF MeantIn, Opens
  <2>7. NumberOf(k) + 1 \in DOMAIN seen /\ seen[NumberOf(k) + 1] = k
    BY <1>1, <1>2, NumberFacts
  <2>8. \A m : IsRef(Ref(m)) /\ Ref(m).to = m
    BY DEF IsRef, Ref
  <2>9. Says(u, seen, n + 1, Written(f.object)[f.next])
    BY ONLY <2>3, <2>6, <2>7, <2>8 DEF Says
  <2> HIDE DEF x
  <2>10. Logged(u, seen, below)
    BY ONLY <2>2, <2>3, <2>4, <2>9, Logged(text, seen, open), LoggedValue
  <2> QED  BY <2>1, <2>10
<1>3. CASE ~ Contains(seen, k)
  <2> DEFINE x == Opening(js[k].type)
  <2>1. /\ text' = Append(text, x) /\ seen' = Append(seen, k)
        /\ open' = Append(below, [object |-> k, next |-> 1])
    BY <1>3 DEF VisitObject
  <2>2. "open" \in DOMAIN x /\ "close" \notin DOMAIN x
    BY DEF Opening
  <2>3. Fresh(seen, k)
    <3>1. DOMAIN seen = 1 .. Len(seen)
      BY <1>1, LenProperties DEF Heap
    <3> QED  BY <1>3, <3>1 DEF Fresh, Contains
  <2>4. Len(Written(k)) \in Nat
    BY WrittenFacts
  <2> HIDE DEF x
  <2> QED  BY ONLY <2>1, <2>2, <2>3, <2>4, Logged(text, seen, open), k \in DOMAIN js,
                   js[k].type # "code", Receives(seen, open, k, below), LoggedOpening
<1> QED  BY <1>2, <1>3

\* The objects do not change while they are logged.
LEMMA LoggedPrimed ==
    ASSUME js' = js, source' = source, Made(source, js), Logged(text', seen', open')
    PROVE  Made(source, js)' /\ Logged(text, seen, open)'
<1>1. Made(source, js)'
  OBVIOUS
<1>2. \A o : Written(o)' = Written(o)
  BY DEF Written, IsFunction
<1>3. \A f : IsOpen(f) => IsOpen(f)'
  BY <1>2 DEF IsOpen
<1>4. \A t, sn, s, o : Whole(t, sn, s, o) => Whole(t, sn, s, o)'
  BY <1>2 DEF Whole
<1>5. \A t, sn, op, s, o : Part(t, sn, op, s, o) => Part(t, sn, op, s, o)'
  BY <1>2 DEF Part
<1> QED  BY <1>1, <1>3, <1>4, <1>5 DEF Logged

\* Nothing is written before the console is given an object; then what is
\* written is as LogInv says.
LEMMA LogInit == TextInit => LogInv
BY DEF TextInit, Init, LogInv

\* The console is given what set has made.
LEMMA LogStarts == ASSUME TripInv, LogInv, Log PROVE LogInv'
<1>1. /\ phase = "to_js" /\ pending = Nothing /\ stack = <<>> /\ phase' = "log"
      /\ IsRef(result) /\ ~ IsFunction(result) /\ VisitObject(result.to, <<>>)
      /\ js' = js /\ source' = source
  BY DEF Log, Idle
<1>2. IsGraph(source) /\ SetNow /\ text = <<>> /\ seen = <<>> /\ open = <<>>
  BY <1>1, GraphsAssumption DEF TripInv, LogInv
<1>3. Setting(source, js, p2j, <<>>, TRUE, Hole, result)
  BY <1>1, <1>2 DEF SetNow, Sets
<1>4. Made(source, js) /\ result \in Outcomes(source, js)
  BY <1>3 DEF Setting, Walk, AtRoot, Becomes
<1>5. result.to \in DOMAIN js /\ js[result.to].type # "code"
  BY <1>1, <1>2, <1>4, OutcomeFacts DEF IsFunction
<1>6. Logged(<<>>, <<>>, <<>>)
  <2>1. Heap(<<>>) /\ Len(<<>>) = 0 /\ DOMAIN <<>> = {}
    BY EmptySeq DEF Heap
  <2>2. \A P : Cardinality({j \in 1 .. 0 : j \in P}) = 0
    BY FS_EmptySet
  <2>3. 1 .. 0 = {}
    OBVIOUS
  <2>4. OpenedIn(<<>>, 0) = 0 /\ ClosedIn(<<>>, 0) = 0
    BY <2>3, FS_EmptySet DEF OpenedIn, ClosedIn
  <2>5. DepthIn(<<>>, 0) = 0
    BY <2>4 DEF DepthIn
  <2> QED  BY ONLY <2>1, <2>4, <2>5 DEF Logged, Numbered, IsInjective
<1>7. Receives(seen, open, result.to, <<>>) /\ Logged(text, seen, open)
  BY <1>2, <1>6 DEF Receives
<1>8. Logged(text', seen', open')
  BY ONLY <1>1, <1>2, <1>4, <1>5, <1>7, LoggedVisit
<1> QED  BY <1>1, <1>4, <1>8, LoggedPrimed DEF LogInv

\* The innermost container's next value is written.
LEMMA LogWrites == ASSUME TripInv, LogInv, WriteValue PROVE LogInv'
<1> DEFINE f == open[Len(open)]
           v == Written(f.object)[f.next]
           below == [open EXCEPT ![Len(open)].next = @ + 1]
<1>1. /\ phase = "log" /\ open # <<>> /\ phase' = "log" /\ js' = js /\ source' = source
      /\ f.next <= Len(Written(f.object))
      /\ IF IsRef(v) THEN VisitObject(v.to, below)
         ELSE text' = Append(text, v) /\ open' = below /\ UNCHANGED seen
  BY DEF WriteValue, Writing, Inner, Last, Advanced, vars
<1>2. IsGraph(source) /\ Made(source, js) /\ Logged(text, seen, open)
  BY <1>1, GraphsAssumption DEF TripInv, LogInv
<1>3. IsOpen(f)
  BY <1>1, <1>2, HeapEnd DEF Logged
<1>4. f.object \in DOMAIN js /\ js[f.object].type # "code" /\ f.next \in Nat \ {0}
  BY <1>3 DEF IsOpen
<1>5. IsWritten(v)
  <2>1. /\ Len(Written(f.object)) \in Nat
        /\ \A i \in 1 .. Len(Written(f.object)) : IsWritten(Written(f.object)[i])
    BY <1>2, <1>4, WrittenFacts
  <2>2. f.next \in 1 .. Len(Written(f.object))
    BY <1>1, <1>4, <2>1
  <2> QED  BY <2>1, <2>2
<1>6. Logged(text', seen', open')
  <2>1. CASE IsRef(v)
    <3>1. v = Ref(v.to) /\ v.to \in DOMAIN js /\ js[v.to].type # "code"
      BY <1>5, <2>1 DEF IsWritten
    <3>2. Receives(seen, open, v.to, below)
      BY <1>1, <3>1 DEF Receives
    <3> HIDE DEF v, below
    <3> QED  BY <1>1, <1>2, <2>1, <3>1, <3>2, LoggedVisit
  <2>2. CASE ~ IsRef(v)
    <3> DEFINE u == Append(text, v)
               n == Len(text)
    <3>1. "open" \notin DOMAIN v /\ "close" \notin DOMAIN v /\ "cycle" \notin DOMAIN v
      BY <1>5, <2>2 DEF IsWritten
    <3>2. u[n + 1] = v
      BY <1>2, Adds DEF Logged, Numbered
    <3>3. MeantIn(u, n + 1) = v
      BY <3>1, <3>2 DEF MeantIn, Opens
    <3>4. Says(u, seen, n + 1, v)
      BY ONLY <2>2, <3>3 DEF Says
    <3>5. Logged(u, seen, below)
      BY ONLY <1>1, <1>2, <3>1, <3>4, LoggedValue
    <3> QED  BY <1>1, <2>2, <3>5
  <2> QED  BY <2>1, <2>2
<1> QED  BY <1>1, <1>2, <1>6, LoggedPrimed DEF LogInv

\* The innermost container is closed.
LEMMA LogCloses == ASSUME TripInv, LogInv, WriteEnd PROVE LogInv'
<1> DEFINE f == open[Len(open)]
<1>1. /\ phase = "log" /\ open # <<>> /\ phase' = "log" /\ js' = js /\ source' = source
      /\ f.next > Len(Written(f.object))
      /\ text' = Append(text, Closing) /\ open' = Front(open) /\ seen' = seen
  BY DEF WriteEnd, Writing, Inner, Last, vars
<1>2. IsGraph(source) /\ Made(source, js) /\ Logged(text, seen, open)
  BY <1>1, GraphsAssumption DEF TripInv, LogInv
<1>3. IsOpen(f)
  BY <1>1, <1>2, HeapEnd DEF Logged
<1>4. Len(Written(f.object)) \in Nat
  BY <1>2, <1>3, WrittenFacts DEF IsOpen
<1>5. "open" \notin DOMAIN Closing /\ "close" \in DOMAIN Closing
  BY DEF Closing
<1>6. Logged(text', seen, open')
  BY ONLY <1>1, <1>2, <1>4, <1>5, LoggedEnd
<1> QED  BY <1>1, <1>2, <1>6, LoggedPrimed DEF LogInv

\* Every step of set, of get and of the console.
LEMMA LogStep ==
    ASSUME TripInv, LogInv, [TextNext]_consoleVars
    PROVE  LogInv'
<1>1. CASE Log
  BY <1>1, LogStarts
<1>2. CASE WriteValue
  BY <1>2, LogWrites
<1>3. CASE WriteEnd
  BY <1>3, LogCloses
<1>4. CASE Next /\ UNCHANGED textVars
  <2>1. UNCHANGED <<text, seen, open>>
    BY <1>4 DEF textVars
  <2>2. phase # "log" /\ phase' # "log"
    BY <1>4 DEF Next, Deref, ConvertCode, Reuse, Open, ConvertCodeBack, ReuseBack,
       OpenBack, ConvertLeaf, ConvertLeafBack, Element, Close, Get, Deliver, Release,
       Filling, ToJs, ToPerl
  <2> QED  BY <2>1, <2>2 DEF LogInv
<1>5. CASE UNCHANGED consoleVars
  <2>1. UNCHANGED <<source, phase, js, text, seen, open>>
    BY <1>5 DEF consoleVars, vars, textVars
  <2>2. Made(source, js) /\ Logged(text, seen, open)
            => Made(source, js)' /\ Logged(text, seen, open)'
    BY <2>1, LoggedPrimed
  <2> QED  BY <2>1, <2>2 DEF LogInv
<1> QED  BY <1>1, <1>2, <1>3, <1>4, <1>5 DEF TextNext
----------------------------------------------------------------------------
(* The reader of LogReadsBack. *)

\* It reads the text as above.
LEMMA ReaderIs ==
    /\ \A i : /\ IsOpening(i) <=> Opens(text, i)
              /\ IsClosing(i) <=> Closes(text, i)
    /\ \A i : Opened(i) = OpenedIn(text, i) /\ Depth(i) = DepthIn(text, i)
    /\ \A i : Meant(i) = MeantIn(text, i)
<1>1. \A i : /\ IsOpening(i) <=> Opens(text, i)
             /\ IsClosing(i) <=> Closes(text, i)
  BY DEF IsOpening, IsClosing, Opens, Closes
<1>2. \A i : Opened(i) = OpenedIn(text, i)
  BY DEF Opened, OpenedIn, IsOpening, Opens
<1>3. \A i : Depth(i) = DepthIn(text, i)
  BY <1>2 DEF Depth, DepthIn, ClosedIn, IsClosing, Closes
<1>4. \A i : Meant(i) = MeantIn(text, i)
  BY <1>2 DEF Meant, MeantIn, IsOpening, Opens
<1> QED  BY <1>1, <1>2, <1>3, <1>4

\* It finds what is just inside a container that is written.
LEMMA InsideIs ==
    ASSUME Numbered(text, seen), NEW s \in DOMAIN text, Opens(text, s),
           NEW e \in s + 1 .. Len(text), DepthIn(text, e) < DepthIn(text, s),
           \A i \in s + 1 .. e - 1 : DepthIn(text, i) >= DepthIn(text, s)
    PROVE  Inside(OpenedIn(text, s)) = InOrder(Directly(text, s, e))
<1> DEFINE k == OpenedIn(text, s)
           start == CHOOSE i \in DOMAIN text : IsOpening(i) /\ Opened(i) = k
           ends(j) == {i \in j + 1 .. Len(text) : Depth(i) < Depth(j)}
           deeper(i) == Depth(i) - (IF IsOpening(i) THEN 1 ELSE 0)
           among(j, m) == {i \in j + 1 .. m - 1 : ~ IsClosing(i) /\ deeper(i) = Depth(j)}
<1>1. Inside(k) = InOrder(among(start, Min(ends(start))))
  BY DEF Inside
<1>2. start = s
  <2>1. \A i, j \in DOMAIN text :
           Opens(text, i) /\ Opens(text, j) /\ OpenedIn(text, i) = OpenedIn(text, j) => i = j
    BY DEF Numbered
  <2>2. \A i \in DOMAIN text : (IsOpening(i) /\ Opened(i) = k) <=> i = s
    BY ONLY <2>1, ReaderIs, s \in DOMAIN text, Opens(text, s)
  <2> HIDE DEF k
  <2> QED  BY <2>2
<1>3. /\ Len(text) \in Nat /\ s \in 1 .. Len(text)
      /\ \A j \in s .. Len(text) : j \in Nat
      /\ \A j \in Nat : DepthIn(text, j) \in Int
  <2>1. Len(text) \in Nat /\ DOMAIN text = 1 .. Len(text)
    BY LenProperties DEF Numbered, Heap
  <2>2. \A l \in Nat : \A i \in 1 .. l : \A j \in i .. l : j \in Nat
    OBVIOUS
  <2> QED  BY <2>1, <2>2, DepthType
<1>4. Min(ends(s)) = e
  <2>1. e \in ends(s)
    BY ReaderIs
  <2>2. ends(s) \in SUBSET Nat
    BY <1>3
  <2>3. \A i \in ends(s) : i \in s + 1 .. Len(text) /\ DepthIn(text, i) < DepthIn(text, s)
    BY ReaderIs
  <2> HIDE DEF ends
  <2>4. Min(ends(s)) \in ends(s) /\ Min(ends(s)) <= e
    BY <2>1, <2>2, MinFacts
  <2> DEFINE m == Min(ends(s))
  <2>5. m \in s + 1 .. Len(text) /\ m <= e /\ DepthIn(text, m) < DepthIn(text, s)
    BY <2>3, <2>4
  <2> HIDE DEF m
  <2>6. m \in Nat /\ s \in Nat /\ e \in Nat
    BY <1>3, <2>5
  <2>7. m # e => m \in s + 1 .. e - 1
    BY <2>5, <2>6
  <2>8. m \notin s + 1 .. e - 1
    <3>1. DepthIn(text, m) \in Int /\ DepthIn(text, s) \in Int
      BY <1>3, <2>6
    <3>2. \A a, b \in Int : ~ (a < b /\ a >= b)
      OBVIOUS
    <3> QED  BY ONLY <2>5, <3>1, <3>2,
                     \A i \in s + 1 .. e - 1 : DepthIn(text, i) >= DepthIn(text, s)
  <2> QED  BY <2>7, <2>8 DEF m
<1>5. among(s, e) = Directly(text, s, e)
  <2>1. \A i : deeper(i) = DepthIn(text, i) - (IF Opens(text, i) THEN 1 ELSE 0)
    BY ReaderIs
  <2>2. \A i : (~ IsClosing(i) /\ deeper(i) = Depth(s)) <=> JustInside(text, i, DepthIn(text, s))
    BY <2>1, ReaderIs DEF JustInside
  <2> HIDE DEF deeper
  <2> QED  BY <2>2 DEF Directly
<1> HIDE DEF start, ends, among
<1> QED  BY <1>1, <1>2, <1>4, <1>5

\* When nothing is open everything is written.
LEMMA LogEnds == LogInv => LogReadsBack
<1> SUFFICES ASSUME LogInv, phase = "log", open = <<>> PROVE LogReadsBack
  BY DEF LogReadsBack
<1>1. Logged(text, seen, open) /\ Numbered(text, seen)
  BY DEF LogInv, Logged
<1>2. IsInjective(seen) /\ Len(seen) = Opened(Len(text))
  BY <1>1, ReaderIs DEF Numbered
<1>3. ASSUME NEW k \in DOMAIN seen
      PROVE  LET here == Inside(k)
                 values == Written(seen[k])
             IN  /\ Len(here) = Len(values)
                 /\ \A i \in DOMAIN here :
                       IF IsRef(values[i])
                       THEN /\ IsRef(Meant(here[i])) /\ Meant(here[i]).to \in DOMAIN seen
                            /\ seen[Meant(here[i]).to] = values[i].to
                       ELSE Meant(here[i]) = values[i]
  <2> DEFINE w == Written(seen[k])
  <2>1. PICK s \in DOMAIN text : /\ Opens(text, s) /\ OpenedIn(text, s) = k
                                 /\ Whole(text, seen, s, seen[k])
    BY <1>1 DEF Logged, Part
  <2>2. PICK e \in s + 1 .. Len(text) : /\ DepthIn(text, e) < DepthIn(text, s)
                                        /\ Tells(text, seen, s, e, w, Len(w))
    BY <2>1 DEF Whole
  <2> HIDE DEF w
  <2> DEFINE S == Directly(text, s, e)
             here == InOrder(S)
  <2>3. /\ Cardinality(S) = Len(w)
        /\ \A i \in 1 .. Len(w) : Says(text, seen, here[i], w[i])
        /\ \A i \in s + 1 .. e - 1 : DepthIn(text, i) >= DepthIn(text, s)
    BY <2>2 DEF Tells
  <2>4. Inside(k) = here
    BY ONLY <1>1, <2>1, <2>2, <2>3, InsideIs
  <2>5. s \in Nat /\ e \in Nat
    <3>1. Len(text) \in Nat /\ DOMAIN text = 1 .. Len(text)
      BY <1>1, LenProperties DEF Numbered, Heap
    <3>2. \A l \in Nat : \A i \in 1 .. l : i \in Nat /\ \A j \in i + 1 .. l : j \in Nat
      OBVIOUS
    <3> QED  BY <3>1, <3>2
  <2>6. S \in SUBSET Nat /\ IsFiniteSet(S)
    BY <2>5, DirectlyType
  <2> HIDE DEF S
  <2>7. Len(here) = Len(w) /\ DOMAIN here = 1 .. Len(w)
    BY <2>3, <2>6, InOrderFacts
  <2> HIDE DEF here
  <2>8. \A i \in DOMAIN here :
            IF IsRef(w[i])
            THEN /\ IsRef(Meant(here[i])) /\ Meant(here[i]).to \in DOMAIN seen
                 /\ seen[Meant(here[i]).to] = w[i].to
            ELSE Meant(here[i]) = w[i]
    BY <2>3, <2>7, ReaderIs DEF Says
  <2> QED  BY <2>4, <2>7, <2>8 DEF w
<1> QED  BY <1>2, <1>3 DEF LogReadsBack

\* Whatever set has made, however large, shared or cyclic, the text that the
\* console writes of it can be read back: "<cycleN>" is the Nth container that
\* the text opens, and all of the object is there but its functions.
THEOREM LogsReadBack == TextSpec => []LogReadsBack
<1>1. TripInv /\ LogInv /\ [TextNext]_consoleVars => TripInv' /\ LogInv'
  BY TripStep, LogStep
<1> QED  BY TripInit, LogInit, LogEnds, <1>1, PTL DEF TextSpec
=============================================================================
