------------------------------ MODULE MCCalls ------------------------------
(* Small instances of Calls and SubArguments for TLC. *)
EXTENDS SubArguments

CONSTANT f1

OneFunction == {f1}
NoFunctions == {}

Option(starts, value) == [starts |-> starts, value |-> value]

\* {gather_stats => 1, save_messages => 1}, {}, {gather => 1, gather_stats => 0}
\* and {max_ => 1, unknown => 1}.
FewOptions ==
    { << Option({1}, TRUE), Option({2}, TRUE) >>,
      << >>,
      << Option({1}, TRUE), Option({1}, FALSE), Option({3, 4}, TRUE) >>,
      << Option({3, 4}, TRUE), Option({}, TRUE) >> }

NoOptions == { << >> }

BothTargets == {"stdout", "stderr"}

\* Bound: counts are followed in an object that keeps no times and no lines,
\* which have nothing to do with them, and is not reset.
CountsOrRecords ==
    uses = {} \/ (options = << >> /\ Len(stats) + Len(msgs) = 2)
=============================================================================
