----------------------------- MODULE MCMarshal -----------------------------
(* Small graphs of Perl data for Marshal. *)
EXTENDS ConsoleText

GraphsOf(n, Nodes(_)) ==
    {[nodes |-> s, root |-> Ref(1)] : s \in [1 .. n -> Nodes(n)]}

Node(type, elems) == [type |-> type, elems |-> elems]

Leaves == {Leaf("undef"), Number(1), Leaf("str")}
Refs(n) == {Ref(m) : m \in 1 .. n}
Sub == Node("code", <<>>)

\* The nodes of a graph of two: every kind, with up to two elements.
TwoNodes(n) ==
    {Sub} \cup {Node("scalar", <<v>>) : v \in Leaves \cup Refs(n)}
    \cup {Node("hash", s) : s \in BoundedSeq(Leaves \cup Refs(n), 2)}
    \cup {Node("array", s) : s \in BoundedSeq({Hole} \cup Leaves \cup Refs(n), 2)}

\* The nodes of a graph of three: arrays that share and refer back.
ThreeNodes(n) ==
    {Node("array", s) : s \in BoundedSeq(Refs(n), 2)}

\* No scalar leads back to itself: the code would follow it for ever.
RECURSIVE Grounded(_, _, _)
Grounded(g, v, k) ==
    ~ IsRef(v) \/ g.nodes[v.to].type # "scalar"
    \/ (k > 0 /\ Grounded(g, g.nodes[v.to].elems[1], k - 1))
AllGrounded(g) == \A n \in DOMAIN g.nodes : Grounded(g, Ref(n), Len(g.nodes))

\* Every integer, alone and behind a reference.
Numbers == {Number(n) : n \in - 2 ^ (Width - 1) .. 2 ^ Width - 1}
NumberGraphs ==
    {[nodes |-> <<Node("array", <<n, Ref(2)>>), Node("scalar", <<n>>)>>, root |-> Ref(1)] :
        n \in Numbers}

SmallGraphs ==
    {g \in GraphsOf(2, TwoNodes) \cup GraphsOf(3, ThreeNodes) \cup NumberGraphs : AllGrounded(g)}

\* A sub, alone or held twice by a hash.
SubGraphs ==
    {[nodes |-> <<Sub>>, root |-> Ref(1)],
     [nodes |-> <<Node("hash", <<Ref(2), Ref(2)>>), Sub>>, root |-> Ref(1)]}
=============================================================================
