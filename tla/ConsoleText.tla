---------------------------- MODULE ConsoleText ----------------------------
(***************************************************************************)
(* JSON_stringify_with_cycles (pl_inlined.cc), which the console applies   *)
(* to the objects it is given: JSON.stringify with a replacer that numbers *)
(* the containers in the order in which it meets them and puts "<cycleN>"  *)
(* for one that it met before, whether that is a cycle or only shared.     *)
(* The data was given to set, see Marshal; the text is a list of tokens.   *)
(***************************************************************************)
EXTENDS Marshal

VARIABLES
    text,   \* the tokens written so far
    seen,   \* containers in the order of their numbers, which start at 0
    open    \* the containers being written: the object, and the next value

textVars == <<text, seen, open>>
consoleVars == <<vars, textVars>>

Opening(type) == [open |-> type]
Closing == [close |-> "any"]
Cycle(n) == [cycle |-> n]

TextInit == Init /\ text = <<>> /\ seen = <<>> /\ open = <<>>

\* A set of numbers, in order.
InOrder(S) ==
    [n \in 1 .. Cardinality(S) |-> CHOOSE m \in S : Cardinality({l \in S : l <= m}) = n]

\* The values of an open container that are written: JSON has no functions,
\* which leaves a hash without that key, and null in their place in an array.
IsFunction(v) == IsRef(v) /\ js[v.to].type = "code"
Written(k) ==
    LET values == js[k].elems
        data == InOrder({i \in DOMAIN values : ~ IsFunction(values[i])})
    IN  IF js[k].type = "hash" THEN [i \in DOMAIN data |-> values[data[i]]]
        ELSE [i \in DOMAIN values |-> IF IsFunction(values[i]) THEN Leaf("null")
                                      ELSE values[i]]

NumberOf(k) == SelectInSeq(seen, LAMBDA m : m = k) - 1

\* Mutant: the counter is incremented before it is used.
VisitPreincrement(k, below) ==
    IF Contains(seen, k)
    THEN /\ text' = Append(text, Cycle(NumberOf(k) + 1))
         /\ open' = below
         /\ UNCHANGED seen
    ELSE /\ text' = Append(text, Opening(js[k].type))
         /\ seen' = Append(seen, k)
         /\ open' = Append(below, [object |-> k, next |-> 1])

\* The replacer is called with the container k.
VisitObject(k, below) ==
    IF Contains(seen, k)
    THEN /\ text' = Append(text, Cycle(NumberOf(k)))
         /\ open' = below
         /\ UNCHANGED seen
    ELSE /\ text' = Append(text, Opening(js[k].type))
         /\ seen' = Append(seen, k)
         /\ open' = Append(below, [object |-> k, next |-> 1])

\* console.log of the value that set has stored, when that is a container.
Log ==
    /\ phase = "to_js" /\ Idle
    /\ IsRef(result) /\ ~ IsFunction(result)
    /\ phase' = "log"
    /\ VisitObject(result.to, <<>>)
    /\ UNCHANGED <<source, js, perl, p2j, j2p, stack, pending, result, func>>

Writing == phase = "log" /\ open # <<>>
Inner == Last(open)
Advanced == [open EXCEPT ![Len(open)].next = @ + 1]

WriteValue ==
    /\ Writing /\ Inner.next <= Len(Written(Inner.object))
    /\ LET v == Written(Inner.object)[Inner.next]
       IN  IF IsRef(v) THEN VisitObject(v.to, Advanced)
           ELSE text' = Append(text, v) /\ open' = Advanced /\ UNCHANGED seen
    /\ UNCHANGED vars

WriteEnd ==
    /\ Writing /\ Inner.next > Len(Written(Inner.object))
    /\ text' = Append(text, Closing)
    /\ open' = Front(open)
    /\ UNCHANGED <<vars, seen>>

TextNext ==
    \/ Next /\ UNCHANGED textVars
    \/ Log \/ WriteValue \/ WriteEnd

TextSpec == TextInit /\ [][TextNext]_consoleVars /\ WF_consoleVars(TextNext)
----------------------------------------------------------------------------
(* Properties. *)

\* A reader of the text: how many containers are opened up to token i, the
\* containers that are open there, and the tokens just inside the kth.
IsOpening(i) == "open" \in DOMAIN text[i]
IsClosing(i) == "close" \in DOMAIN text[i]
Opened(i) == Cardinality({j \in 1 .. i : IsOpening(j)})
Depth(i) == Opened(i) - Cardinality({j \in 1 .. i : IsClosing(j)})
Inside(k) ==
    LET start == CHOOSE i \in DOMAIN text : IsOpening(i) /\ Opened(i) = k
        deeper(i) == Depth(i) - (IF IsOpening(i) THEN 1 ELSE 0)
        end == Min({i \in start + 1 .. Len(text) : Depth(i) < Depth(start)})
    IN  InOrder({i \in start + 1 .. end - 1 : ~ IsClosing(i) /\ deeper(i) = Depth(start)})

\* What the reader takes token i for: a leaf, or the kth container.
Meant(i) ==
    IF IsOpening(i) THEN Ref(Opened(i))
    ELSE IF "cycle" \in DOMAIN text[i] THEN Ref(text[i].cycle + 1) ELSE text[i]

\* The text of an object holds all of it but its functions: whoever takes the
\* N of "<cycleN>" for the container that the text opens as the Nth, counted
\* from 0, reads the same containers with the same leaves in the same places,
\* shared and cyclic where they were, and each of them once.
LogReadsBack ==
    phase = "log" /\ open = <<>> =>
        /\ IsInjective(seen)
        /\ Len(seen) = Opened(Len(text))
        /\ \A k \in DOMAIN seen :
              LET here == Inside(k)
                  values == Written(seen[k])
              IN  /\ Len(here) = Len(values)
                  /\ \A i \in DOMAIN here :
                        IF IsRef(values[i])
                        THEN /\ IsRef(Meant(here[i])) /\ Meant(here[i]).to \in DOMAIN seen
                             /\ seen[Meant(here[i]).to] = values[i].to
                        ELSE Meant(here[i]) = values[i]

\* set comes to an end, cycles or not, and so does the log of what it built.
SetEnds == <>(phase # "to_js" /\ open = <<>>)
=============================================================================
