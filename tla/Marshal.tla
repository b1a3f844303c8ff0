------------------------------ MODULE Marshal ------------------------------
(***************************************************************************)
(* The conversions of pl_v8.cc: Perl data is given to set, which builds    *)
(* JavaScript data from it (pl_perl_to_v8), and read back with get, which  *)
(* builds Perl data again (pl_v8_to_perl).  Each conversion is a walk over *)
(* a graph with a map of the containers already seen, which keeps sharing  *)
(* and ends cycles.  The recursion of the code is the stack of this        *)
(* module; a step converts one value.                                      *)
(***************************************************************************)
EXTENDS Integers, SequencesExt, Relation

CONSTANTS
    Graphs,         \* the Perl data that is given to set
    MaxContainers,  \* bound: containers built by one conversion
    Width,          \* bits of an integer, 64
    Mantissa        \* bits of the mantissa of a double, 53

(* A graph has nodes and a root value.  A value is a leaf or a reference to *)
(* a node: a container (the values of a hash are in the order of its keys), *)
(* a sub, or a scalar that holds one value.  An integer is a leaf.          *)

Leaf(l) == [leaf |-> l]
Number(n) == [int |-> n]
Ref(n) == [to |-> n]
Hole == Leaf("hole")   \* av_fetch returns NULL

IsRef(v) == "to" \in DOMAIN v
IsInt(v) == "int" \in DOMAIN v
IsLeaf(v) == "leaf" \in DOMAIN v \/ IsInt(v)

Containers == {"array", "hash"}

ValuesOf(g) == {g.root} \cup UNION {ToSet(g.nodes[n].elems) : n \in DOMAIN g.nodes}

\* Perl has neither null nor undefined, and its integers are signed or unsigned.
IsPerlValue(g, v) ==
    \/ IsRef(v) /\ v = Ref(v.to) /\ v.to \in DOMAIN g.nodes
    \/ IsInt(v) /\ v = Number(v.int) /\ v.int \in - 2 ^ (Width - 1) .. 2 ^ Width - 1
    \/ "leaf" \in DOMAIN v /\ v = Leaf(v.leaf) /\ v.leaf \notin {"none", "null", "undefined"}

IsScalar(g, v) == IsRef(v) /\ g.nodes[v.to].type = "scalar"

\* Only arrays have holes, and no scalar leads back to itself: the code would
\* follow it for ever.
IsGraph(g) ==
    /\ DOMAIN g.nodes = 1 .. Len(g.nodes) /\ Len(g.nodes) \in Nat
    /\ g.root # Hole /\ \A v \in ValuesOf(g) : IsPerlValue(g, v)
    /\ \A n \in DOMAIN g.nodes :
          /\ g.nodes[n].type \in Containers \cup {"code", "scalar"}
          /\ g.nodes[n].elems \in Seq(ValuesOf(g))
          /\ g.nodes[n].type = "scalar" =>
                Len(g.nodes[n].elems) = 1 /\ g.nodes[n].elems[1] # Hole
    /\ \E rank \in [DOMAIN g.nodes -> 1 .. Len(g.nodes)] :
          \A n \in DOMAIN g.nodes :
             g.nodes[n].type = "scalar" /\ IsRef(g.nodes[n].elems[1]) =>
                 rank[g.nodes[n].elems[1].to] < rank[n]

ASSUME GraphsAssumption ==
    /\ MaxContainers \in Nat
    /\ {Width, Mantissa} \subseteq Nat /\ 1 < Mantissa /\ Mantissa + 1 < Width
    /\ 1 < 2 ^ (Width - 1)   \* so it is, but the provers cannot compute powers
    /\ \A g \in Graphs : IsGraph(g)

VARIABLES
    source,    \* the graph given to set
    phase,     \* "to_js", "to_perl", "done", "released", "log"
    js,        \* JavaScript objects, in the order of their creation
    perl,      \* Perl containers made by get
    p2j, j2p,  \* seen of each conversion: pairs of a node and its image
    stack,     \* containers being filled: node, image, index of the next value
    pending,   \* the value to convert, and whether a reference was followed
    result,    \* the value the conversion returned
    func       \* SvREFCNT of the func of each FuncData

vars == <<source, phase, js, perl, p2j, j2p, stack, pending, result, func>>

Nothing == [value |-> Leaf("none"), ref |-> FALSE]
Visit(v, ref) == [value |-> v, ref |-> ref]

Init ==
    /\ source \in Graphs
    /\ phase = "to_js"
    /\ js = <<>> /\ perl = <<>>
    /\ p2j = {} /\ j2p = {}
    /\ stack = <<>>
    /\ pending = Visit(source.root, FALSE)
    /\ result = Leaf("none")
    /\ func = <<>>

Has(seen, n) == \E p \in seen : p[1] = n

\* The value computed is stored in the container being filled, or returned.
Filled(heap, frames, v) ==
    IF frames = <<>> THEN heap
    ELSE [heap EXCEPT ![Last(frames).image].elems = Append(@, v)]
Returned(frames, v) == IF frames = <<>> THEN v ELSE result
----------------------------------------------------------------------------
(* pl_perl_to_v8_impl. *)

ToJs(n) ==
    /\ phase = "to_js" /\ pending # Nothing
    /\ IsRef(pending.value) /\ pending.value.to = n
    /\ UNCHANGED <<source, phase, perl, j2p>>

Abs(n) == IF n < 0 THEN - n ELSE n
MaxIV == 2 ^ (Width - 1) - 1

\* Mutant: the value is kept in an int, of half the width.
LongOfInt(n) ==
    LET half == 2 ^ (Width \div 2)
        low == n % half
    IN  IF low >= half \div 2 THEN low - half ELSE low

\* long val = SvIV(value): an unsigned integer above the signed ones wraps.
LongOf(n) == IF n > MaxIV THEN n - 2 ^ Width ELSE n

\* The double nearest to an integer, and of two the one with the even mantissa.
Double(n) ==
    LET Doubles == {m * 2 ^ e : m \in 0 .. 2 ^ Mantissa, e \in 0 .. Width - Mantissa}
        off(a) == Abs(Abs(n) - a)
        d == CHOOSE a \in Doubles :
                 \A b \in Doubles \ {a} :
                     off(a) < off(b) \/ (off(a) = off(b) /\ a % (4 * off(a)) = 0)
    IN  IF n < 0 THEN - d ELSE d

\* undef becomes null.  An integer 0 or 1 that was reached by following a
\* reference becomes a boolean, and any other a double.
LeafToJs(v, ref) ==
    IF IsInt(v)
    THEN LET val == LongOf(v.int)
         IN  CASE ref /\ val = 0 -> Leaf("false")
               [] ref /\ val = 1 -> Leaf("true")
               [] OTHER -> Number(Double(val))
    ELSE IF v = Leaf("undef") THEN Leaf("null") ELSE v

ConvertLeaf ==
    /\ phase = "to_js" /\ pending # Nothing /\ IsLeaf(pending.value)
    /\ LET v == LeafToJs(pending.value, pending.ref)
       IN  /\ js' = Filled(js, stack, v)
           /\ result' = Returned(stack, v)
    /\ pending' = Nothing
    /\ UNCHANGED <<source, phase, perl, p2j, j2p, stack, func>>

\* A reference to a scalar is followed, and not recorded as seen.
Deref(n) ==
    /\ ToJs(n)
    /\ source.nodes[n].type = "scalar"
    /\ pending' = Visit(source.nodes[n].elems[1], TRUE)
    /\ UNCHANGED <<js, p2j, stack, result, func>>

\* Each coderef found makes a function, with a copy of the coderef.
ConvertCode(n) ==
    /\ ToJs(n)
    /\ source.nodes[n].type = "code"
    /\ func' = Append(func, 1)
    /\ LET made == Append(js, [type |-> "code", elems |-> <<[func |-> Len(func) + 1]>>])
           v == Ref(Len(made))
       IN  /\ js' = Filled(made, stack, v)
           /\ result' = Returned(stack, v)
    /\ pending' = Nothing
    /\ UNCHANGED <<p2j, stack>>

Reuse(n) ==
    /\ ToJs(n)
    /\ source.nodes[n].type \in Containers
    /\ \E p \in p2j :
          /\ p[1] = n
          /\ js' = Filled(js, stack, Ref(p[2]))
          /\ result' = Returned(stack, Ref(p[2]))
    /\ pending' = Nothing
    /\ UNCHANGED <<p2j, stack, func>>

\* Mutant: the container is recorded once it is filled, not before.
OpenUnseen(n) ==
    /\ ToJs(n)
    /\ source.nodes[n].type \in Containers
    /\ ~ Has(p2j, n)
    /\ Len(js) < MaxContainers
    /\ js' = Append(js, [type |-> source.nodes[n].type, elems |-> <<>>])
    /\ stack' = Append(stack, [node |-> n, image |-> Len(js) + 1, next |-> 1])
    /\ pending' = Nothing
    /\ UNCHANGED <<p2j, result, func>>

\* Mutant: what was seen is not looked up.
OpenAgain(n) ==
    /\ ToJs(n)
    /\ source.nodes[n].type \in Containers
    /\ Len(js) < MaxContainers
    /\ js' = Append(js, [type |-> source.nodes[n].type, elems |-> <<>>])
    /\ p2j' = p2j \cup {<<n, Len(js) + 1>>}
    /\ stack' = Append(stack, [node |-> n, image |-> Len(js) + 1, next |-> 1])
    /\ pending' = Nothing
    /\ UNCHANGED <<result, func>>

\* The image is recorded before the elements are converted.
Open(n) ==
    /\ ToJs(n)
    /\ source.nodes[n].type \in Containers
    /\ ~ Has(p2j, n)
    /\ Len(js) < MaxContainers
    /\ js' = Append(js, [type |-> source.nodes[n].type, elems |-> <<>>])
    /\ p2j' = p2j \cup {<<n, Len(js) + 1>>}
    /\ stack' = Append(stack, [node |-> n, image |-> Len(js) + 1, next |-> 1])
    /\ pending' = Nothing
    /\ UNCHANGED <<result, func>>
----------------------------------------------------------------------------
(* pl_v8_to_perl_impl. *)

ToPerl(n) ==
    /\ phase = "to_perl" /\ pending # Nothing
    /\ IsRef(pending.value) /\ pending.value.to = n
    /\ UNCHANGED <<source, phase, js, p2j, func>>

\* null and undefined become undef, and every number a floating point one.
LeafToPerl(v) == IF v \in {Leaf("null"), Leaf("undefined")} THEN Leaf("undef") ELSE v

ConvertLeafBack ==
    /\ phase = "to_perl" /\ pending # Nothing /\ IsLeaf(pending.value)
    /\ LET v == LeafToPerl(pending.value)
       IN  /\ perl' = Filled(perl, stack, v)
           /\ result' = Returned(stack, v)
    /\ pending' = Nothing
    /\ UNCHANGED <<source, phase, js, p2j, j2p, stack, func>>

\* A function made from a coderef gives the very SV of its FuncData, whose
\* reference count is not increased.
ConvertCodeBack(n) ==
    /\ ToPerl(n)
    /\ js[n].type = "code"
    /\ perl' = Filled(perl, stack, js[n].elems[1])
    /\ result' = Returned(stack, js[n].elems[1])
    /\ pending' = Nothing
    /\ UNCHANGED <<j2p, stack>>

ReuseBack(n) ==
    /\ ToPerl(n)
    /\ js[n].type \in Containers
    /\ \E p \in j2p :
          /\ p[1] = n
          /\ perl' = Filled(perl, stack, Ref(p[2]))
          /\ result' = Returned(stack, Ref(p[2]))
    /\ pending' = Nothing
    /\ UNCHANGED <<j2p, stack>>

\* LocalObjectCompare orders distinct objects by the address of the handle that
\* was used for them, which differs from one use to the next: a map with two
\* keys or more may miss one it has.
MayMiss(n) == Has(j2p, n) => Cardinality(j2p) >= 2

OpenBack(n) ==
    /\ ToPerl(n)
    /\ js[n].type \in Containers
    /\ MayMiss(n)
    /\ Len(perl) < MaxContainers
    /\ perl' = Append(perl, [type |-> js[n].type, elems |-> <<>>])
    /\ j2p' = j2p \cup {<<n, Len(perl) + 1>>}
    /\ stack' = Append(stack, [node |-> n, image |-> Len(perl) + 1, next |-> 1])
    /\ pending' = Nothing
    /\ UNCHANGED result
----------------------------------------------------------------------------
(* The loop over the elements, in either conversion. *)

Filling == phase \in {"to_js", "to_perl"} /\ pending = Nothing /\ stack # <<>>
Elems(frame) == IF phase = "to_js" THEN source.nodes[frame.node].elems
                ELSE js[frame.node].elems

\* The loop over a Perl array ends at the first element that is not there.
Finished(frame) ==
    frame.next <= Len(Elems(frame)) => Elems(frame)[frame.next] = Hole

Element ==
    /\ Filling
    /\ ~ Finished(Last(stack))
    /\ pending' = Visit(Elems(Last(stack))[Last(stack).next], FALSE)
    /\ stack' = [stack EXCEPT ![Len(stack)].next = @ + 1]
    /\ UNCHANGED <<source, phase, js, perl, p2j, j2p, result, func>>

Close ==
    /\ Filling
    /\ Finished(Last(stack))
    /\ stack' = Front(stack)
    /\ LET v == Ref(Last(stack).image)
       IN  /\ js' = IF phase = "to_js" THEN Filled(js, stack', v) ELSE js
           /\ perl' = IF phase = "to_perl" THEN Filled(perl, stack', v) ELSE perl
           /\ result' = Returned(stack', v)
    /\ UNCHANGED <<source, phase, p2j, j2p, pending, func>>

Idle == pending = Nothing /\ stack = <<>>

\* set has stored its result; get converts it.
Get ==
    /\ phase = "to_js" /\ Idle
    /\ phase' = "to_perl"
    /\ pending' = Visit(result, FALSE)
    /\ UNCHANGED <<source, js, perl, p2j, j2p, stack, result, func>>

Deliver ==
    /\ phase = "to_perl" /\ Idle
    /\ phase' = "done"
    /\ UNCHANGED <<source, js, perl, p2j, j2p, stack, pending, result, func>>

\* Perl drops what get returned.  A container goes, and with it one count of
\* each sub it holds, unless a cycle keeps it.
Holds == [m, k \in DOMAIN perl |->
              \E i \in DOMAIN perl[m].elems : perl[m].elems[i] = Ref(k)]
Freed == LET reaches == TransitiveClosure(Holds, DOMAIN perl)
         IN  {m \in DOMAIN perl : ~ reaches[m, m] /\
                 \A k \in DOMAIN perl : reaches[k, m] => ~ reaches[k, k]}
Drops(k) ==
    Cardinality({p \in Freed \X (1 .. 4) :
                    p[2] \in DOMAIN perl[p[1]].elems /\
                    perl[p[1]].elems[p[2]] = [func |-> k]})
    + (IF result = [func |-> k] THEN 1 ELSE 0)

Release ==
    /\ phase = "done"
    /\ phase' = "released"
    /\ func' = [k \in DOMAIN func |-> func[k] - Drops(k)]
    /\ UNCHANGED <<source, js, perl, p2j, j2p, stack, pending, result>>

Next ==
    \/ \E n \in DOMAIN source.nodes :
          Deref(n) \/ ConvertCode(n) \/ Reuse(n) \/ Open(n)
    \/ \E n \in DOMAIN js : ConvertCodeBack(n) \/ ReuseBack(n) \/ OpenBack(n)
    \/ ConvertLeaf \/ ConvertLeafBack \/ Element \/ Close
    \/ Get \/ Deliver \/ Release

----------------------------------------------------------------------------
(* Properties. *)

\* The variables have their types: in particular every reference is to a node
\* that exists, and a container is recorded as seen while it is filled.
TypeOK ==
    /\ phase \in {"to_js", "to_perl", "done", "released", "log"}
    /\ p2j \subseteq (DOMAIN source.nodes) \X (DOMAIN js)
    /\ j2p \subseteq (DOMAIN js) \X (DOMAIN perl)
    /\ \A i \in DOMAIN stack :
          <<stack[i].node, stack[i].image>> \in (IF phase = "to_js" THEN p2j ELSE j2p)

\* What a value of a graph is once every reference to a scalar is followed.
Behind(g, v) ==
    LET chased[k \in 0 .. Len(g.nodes)] ==
            [w \in ValuesOf(g) |->
                IF k > 0 /\ IsScalar(g, w) THEN chased[k - 1][g.nodes[w.to].elems[1]] ELSE w]
    IN  chased[Len(g.nodes)][v]

\* set builds one JavaScript container for each Perl container it reaches, so
\* that what is shared stays shared and a cycle stays a cycle.
SharingKept ==
    \A p, q \in p2j : p[1] = q[1] <=> p[2] = q[2]

\* The integers that both a long and a double hold.
Exact(n) == Abs(n) <= 2 ^ Mantissa /\ n <= MaxIV

\* b is what a leaf v of the source must be after both conversions.
SameLeaf(v, ref, b) ==
    IF IsInt(v)
    THEN CASE ref /\ v.int = 0 -> b = Leaf("false")
           [] ref /\ v.int = 1 -> b = Leaf("true")
           [] OTHER -> IsInt(b) /\ (Exact(v.int) => b.int = v.int)
    ELSE b = v

\* a, a value of the source, and b, of what get returned, are the same leaf,
\* both a sub, or containers that R relates.
Matches(a, b, R) ==
    LET v == Behind(source, a)
    IN  \/ IsLeaf(v) /\ IsLeaf(b) /\ SameLeaf(v, v # a, b)
        \/ /\ IsRef(v) /\ source.nodes[v.to].type = "code"
           /\ "func" \in DOMAIN b
        \/ IsRef(v) /\ IsRef(b) /\ <<v.to, b.to>> \in R

\* The elements of an array before its first hole.
Given(elems) ==
    LET n == CHOOSE n \in 0 .. Len(elems) :
                 /\ \A i \in 1 .. n : elems[i] # Hole
                 /\ n < Len(elems) => elems[n + 1] = Hole
    IN  SubSeq(elems, 1, n)

\* What get returns is what set was given, whatever the map missed: reading
\* both from the root, the same leaves are found in the same places, and the
\* walk never ends in one where it does not in the other.  An array ends at
\* its first hole, and only integers that a double holds keep their value.
RoundTrip ==
    phase = "done" =>
        LET R == {p \in (DOMAIN source.nodes) \X (DOMAIN perl) :
                     \E k \in DOMAIN js : <<p[1], k>> \in p2j /\ <<k, p[2]>> \in j2p}
        IN  /\ Matches(source.root, result, R)
            /\ \A p \in R :
                  LET a == Given(source.nodes[p[1]].elems)
                      b == perl[p[2]].elems
                  IN  /\ source.nodes[p[1]].type = perl[p[2]].type
                      /\ Len(a) = Len(b)
                      /\ \A i \in DOMAIN b : Matches(a[i], b[i], R)

\* A sub is alive while the JavaScript function that calls it is.
FuncAlive == \A k \in DOMAIN func : func[k] >= 1
=============================================================================
