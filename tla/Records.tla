------------------------------ MODULE Records ------------------------------
(***************************************************************************)
(* What one object of V8Context.cc records about the calls it makes: the   *)
(* times of its methods (pl_stats.cc) and the lines its scripts write to   *)
(* the console (pl_console.cc).  Perl gets the very hashes, not copies,    *)
(* and a reset gives the object new ones.                                  *)
(***************************************************************************)
EXTENDS Integers, Sequences, SequencesExt, FiniteSetsExt

CONSTANTS
    OptionLists,   \* the options the object may be created with
    Targets,       \* "stdout" and "stderr"
    MaxResets      \* bound: calls of reset_stats and of reset_msgs

VARIABLES
    options,   \* the options, in the order in which the hash yields them
    flags,     \* what the constructor made of them
    stats,     \* every stats hash so far, name -> elapsed; the last is current
    msgs,      \* every message hash so far, target -> lines; the last is current
    printed,   \* the lines printed per target
    timed,     \* history: the measured calls that ended, with their true time
    said       \* history: the lines that were finished, and where they belong

recordVars == <<options, flags, stats, msgs, printed, timed, said>>

ASSUME RecordsAssumption ==
    /\ {"stdout", "stderr"} = Targets
    /\ MaxResets \in Nat
----------------------------------------------------------------------------
(* The constructor.  An option names[i] is matched by memcmp over the      *)
(* length of the KEY, so a key is as good as the names it starts.          *)

names == <<"gather_stats", "save_messages", "max_memory_bytes", "max_timeout_us">>

\* An option is the names its key starts and whether its value is true.
ASSUME OptionsAssumption ==
    OptionLists \subseteq Seq([starts : SUBSET (1 .. 4), value : BOOLEAN])

\* Every key that starts no name is an error.
Rejected(opts) == \E i \in DOMAIN opts : opts[i].starts = {}

\* The flag an option raises: the first of the names its key starts decides,
\* so that the empty key, which starts them all, raises gather_stats and no
\* other.  The two limits are kept but not used.
Raised(opt) ==
    LET first == Min(opt.starts)
    IN  IF opt.value /\ first <= 2 THEN {names[first]} ELSE {}

\* Mutant: each option overwrites the flag that one before it raised.
FlagsAssigned(opts) ==
    LET assign(raised, opt) == (raised \ {names[Min(opt.starts)]}) \cup Raised(opt)
    IN  FoldLeft(assign, {}, opts)

Flags(opts) ==
    LET add(raised, opt) == raised \cup Raised(opt)
    IN  FoldLeft(add, {}, opts)

RecordsInit ==
    /\ options \in {opts \in OptionLists : ~ Rejected(opts)}
    /\ flags = Flags(options)
    /\ stats = << <<>> >>
    /\ msgs = << <<>> >>
    /\ printed = [target \in Targets |-> <<>>]
    /\ timed = <<>>
    /\ said = <<>>
----------------------------------------------------------------------------
(* pl_stats.cc *)

Gathers == "gather_stats" \in flags

\* Mutant: an entry that is there is kept.
SaveStatOnce(name, elapsed) ==
    stats' = [stats EXCEPT ![Len(stats)] = [x \in DOMAIN @ \cup {name} |->
                                               IF x \in DOMAIN @ THEN @[x] ELSE elapsed]]

SaveStat(name, elapsed) ==
    stats' = [stats EXCEPT ![Len(stats)] = [x \in DOMAIN @ \cup {name} |->
                                               IF x = name THEN elapsed ELSE @[x]]]

\* Mutant: the first hash is kept for good.
StatsStopFirst(name, elapsed, true) ==
    IF ~ Gathers THEN UNCHANGED <<stats, timed>>
    ELSE /\ stats' = [stats EXCEPT ![1] = [x \in DOMAIN @ \cup {name} |->
                                              IF x = name THEN elapsed ELSE @[x]]]
         /\ timed' = Append(timed, [name |-> name, took |-> true, hash |-> Len(stats)])

\* The call `name` ends, elapsed by its Perf structure; true is the time it
\* really took.
StatsStop(name, elapsed, true) ==
    IF ~ Gathers THEN UNCHANGED <<stats, timed>>
    ELSE /\ SaveStat(name, elapsed)
         /\ timed' = Append(timed, [name |-> name, took |-> true, hash |-> Len(stats)])

ResetStats ==
    /\ Len(stats) <= MaxResets
    /\ stats' = Append(stats, <<>>)
    /\ UNCHANGED <<options, flags, msgs, printed, timed, said>>
----------------------------------------------------------------------------
(* pl_console.cc *)

Saves == "save_messages" \in flags

\* The message list of a target in hash h, and its top index, -1 when the
\* target has none yet.
List(h, target) == IF target \in DOMAIN msgs[h] THEN msgs[h][target] ELSE <<>>
AvTop(h, target) == Len(List(h, target)) - 1

\* Mutant: the line is stored at the top index.
SaveMsgAtTop(target, line) ==
    LET h == Len(msgs)
        top == IF AvTop(h, target) < 0 THEN 0 ELSE AvTop(h, target)
        list == [i \in 1 .. top + 1 |-> IF i = top + 1 THEN line ELSE List(h, target)[i]]
    IN  msgs' = [msgs EXCEPT ![h] = [t \in DOMAIN @ \cup {target} |->
                                        IF t = target THEN list ELSE @[t]]]

\* The line is stored one above the top index.
SaveMsg(target, line) ==
    LET h == Len(msgs)
        top == AvTop(h, target) + 1
        list == [i \in 1 .. top + 1 |-> IF i = top + 1 THEN line ELSE List(h, target)[i]]
    IN  msgs' = [msgs EXCEPT ![h] = [t \in DOMAIN @ \cup {target} |->
                                        IF t = target THEN list ELSE @[t]]]

\* A finished line is saved or printed.
OutputLine(target, line) ==
    /\ IF Saves
       THEN SaveMsg(target, line) /\ UNCHANGED printed
       ELSE printed' = [printed EXCEPT ![target] = Append(@, line)] /\ UNCHANGED msgs
    /\ said' = Append(said, [line |-> line, target |-> target,
                             hash |-> IF Saves THEN Len(msgs) ELSE 0])

ResetMsgs ==
    /\ Len(msgs) <= MaxResets
    /\ msgs' = Append(msgs, <<>>)
    /\ UNCHANGED <<options, flags, stats, printed, timed, said>>
----------------------------------------------------------------------------
(* Properties. *)

\* The variables of this module have their types.
RecordsTypeOK ==
    /\ options \in OptionLists /\ flags \subseteq {names[1], names[2]}
    /\ Len(stats) \in 1 .. MaxResets + 1 /\ Len(msgs) \in 1 .. MaxResets + 1
    /\ \A h \in DOMAIN stats : \A name \in DOMAIN stats[h] : stats[h][name] \in Nat
    /\ \A h \in DOMAIN msgs : DOMAIN msgs[h] \subseteq Targets
    /\ DOMAIN printed = Targets

\* A flag is raised by every true option whose key starts its name and none
\* before it, in whichever order Perl's hash, whose order changes with each
\* process, yields the keys (V8Context.cc, the constructor).
FlagsIgnoreOrder ==
    \A p \in [DOMAIN options -> DOMAIN options] :
        {p[i] : i \in DOMAIN options} = DOMAIN options =>
            Flags([i \in DOMAIN options |-> options[p[i]]]) = flags

\* Each hash holds, under each name, the time of the last call of that name
\* that ended while the hash was the object's, measured from that call's own
\* start, and no other name (save_stat, pl_stats.cc).
StatsAreOfTheLastCall ==
    \A h \in DOMAIN stats :
        LET here == {i \in DOMAIN timed : timed[i].hash = h}
        IN  /\ DOMAIN stats[h] = {timed[i].name : i \in here}
            /\ \A i \in here :
                  (\A k \in here : k > i => timed[k].name # timed[i].name)
                      => stats[h][timed[i].name] = timed[i].took

\* list holds the lines of a target that belong in hash h, or on the terminal
\* (h = 0): as many as were finished, each at the place its turn gives it.
HoldsDue(list, h, target) ==
    LET due == {i \in DOMAIN said : said[i].hash = h /\ said[i].target = target}
        turn(i) == Cardinality({k \in due : k <= i})
    IN  /\ Len(list) = Cardinality(due)
        /\ \A i \in due : list[turn(i)] = said[i].line

\* Every line that was finished is in the one list it belongs to, in the order
\* in which the lines were finished, and nothing else is there (save_msg and
\* console_output_line, pl_console.cc).
LinesInOrder ==
    /\ \A h \in DOMAIN msgs, target \in Targets : HoldsDue(List(h, target), h, target)
    /\ \A target \in Targets : HoldsDue(printed[target], 0, target)

\* A hash that the object gave up in a reset never changes again, whatever
\* calls were under way at the reset (reset_stats, reset_msgs, V8Context.cc).
DetachedUnchanged ==
    [][/\ \A h \in 1 .. Len(stats) - 1 : stats'[h] = stats[h]
       /\ \A h \in 1 .. Len(msgs) - 1 : msgs'[h] = msgs[h]]_recordVars
=============================================================================
