---------------------------- MODULE SubArguments ----------------------------
(***************************************************************************)
(* Who holds the arguments of a Perl sub while it runs.  perl_caller makes *)
(* each a temporary, and freeing the temporary gives up a count of the SV. *)
(* Most arguments are SVs made for the call, but a function made from a    *)
(* coderef is passed as the very SV that it keeps in FuncData, of which it *)
(* has one count and gives none away (pl_v8_to_perl_impl, pl_v8.cc).       *)
(***************************************************************************)
EXTENDS Calls

CONSTANTS
    Functions,   \* the functions made from coderefs, each with its SV
    MaxUses      \* bound: times that a count of such an SV is promised

VARIABLES
    refcnt,      \* the count of each function's SV; from 0 on it is freed
    uses         \* which temporary gives up which count, past ones included

argumentVars == <<callVars, refcnt, uses>>

ASSUME ArgumentsAssumption == MaxUses \in Nat

SubArgumentsInit ==
    /\ CallsInit
    /\ refcnt = [f \in Functions |-> 1]
    /\ uses = {}

\* Freeing the temporary gives up count n of f.
Use(scalar, f, n) == [scalar |-> scalar, func |-> f, n |-> n]

Held(scalar) == scalar \in Range(temps)
Freed(f) == refcnt[f] <= 0

\* What the temporaries freed by this step give up of f.
GivenUp(f) == {use \in uses : use.func = f /\ Held(use.scalar) /\ ~ Held(use.scalar)'}

Note(new) == Cardinality(uses \cup new) <= MaxUses /\ uses' = uses \cup new
----------------------------------------------------------------------------
(* Arguments. *)

\* An SV made for the call, or one that is never freed.
PlainArgument == PushArgument /\ UNCHANGED <<refcnt, uses>>

\* mXPUSHs makes a temporary of the SV in FuncData.
FunctionArgument(f) ==
    /\ PushArgument
    /\ Note({Use(Scalar(Top.id, Pushed + 1), f, 1)})
    /\ UNCHANGED refcnt

\* An array or a hash with the function in it: the SV is a temporary here too,
\* and the container takes a count of its own, which it gives up with itself.
HolderArgument(f) ==
    /\ PushArgument
    /\ LET holder == Scalar(Top.id, Pushed + 1)
       IN  Note({Use(holder, f, 1), Use(holder, f, 2)})
    /\ refcnt' = [refcnt EXCEPT ![f] = @ + 1]
----------------------------------------------------------------------------
(* Results, and what is freed. *)

\* The XS glue of get and eval makes a temporary of the SV, which Perl frees
\* with the statement.
FunctionResult(f) ==
    /\ \/ At("converting") /\ MethodEnd
       \/ EvalEnd /\ Top.kind = "eval"
    /\ Note({Use(Scalar(Top.id, 0), f, 1)})
    /\ refcnt' = [refcnt EXCEPT ![f] = @ - 1]

\* FREETMPS, after a sub or after a croak.
FreeCounts ==
    /\ FreesTemps
    /\ refcnt' = [f \in Functions |-> refcnt[f] - Cardinality(GivenUp(f))]
    /\ UNCHANGED uses

\* The croak also frees the container an activation was converting, with the
\* function that was in it by then.
HalfConverted(f) ==
    /\ SubDies \/ ConversionFails
    /\ \E i \in Len(frames') + 1 .. Len(frames) :
          /\ frames[i].phase \in {"converting", "result", "arguments"}
          /\ frames[i].kind # "console"
          /\ Note({Use(Scalar(frames[i].id, 0), f, 1)})
    /\ refcnt' = [g \in Functions |->
                     refcnt[g] - Cardinality(GivenUp(g)) - IF g = f THEN 1 ELSE 0]

SubArgumentsNext ==
    \/ LeavesTemps /\ UNCHANGED <<refcnt, uses>>
    \/ PlainArgument \/ FreeCounts
    \/ \E f \in Functions :
          FunctionArgument(f) \/ HolderArgument(f) \/ FunctionResult(f) \/ HalfConverted(f)

SubArgumentsSpec == SubArgumentsInit /\ [][SubArgumentsNext]_argumentVars
----------------------------------------------------------------------------
(* Properties. *)

\* No call, return or croak frees the temporary of an argument before the sub
\* it was pushed for has returned; and a function made from a coderef is freed
\* while it is such an argument, or is in one, only if another use of it ended.
ArgumentsAlive ==
    \A i \in DOMAIN frames :
        frames[i].kind = "sub" =>
            \A j \in 1 .. frames[i].sp - frames[i].mark :
                LET scalar == Scalar(frames[i].id, j)
                IN  /\ Held(scalar)
                    /\ \A use \in uses :
                          use.scalar = scalar /\ Freed(use.func) =>
                              \E other \in uses :
                                  other.func = use.func /\ ~ Held(other.scalar)
=============================================================================
