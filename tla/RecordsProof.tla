---------------------------- MODULE RecordsProof ----------------------------
(* Proofs about Records. *)
EXTENDS Records, SequenceLemmas

\* Folding the options from the left collects what each of them raises.
LEMMA FlagsCollect ==
    ASSUME NEW S, NEW opts \in Seq(S)
    PROVE  Flags(opts) = UNION {Raised(opts[i]) : i \in DOMAIN opts}
<1> DEFINE D == DOMAIN opts
           all(s) == UNION {Raised(opts[i]) : i \in s}
           step(iter, s) == IF s = {} THEN {} ELSE iter[s \ {Max(s)}] \cup Raised(opts[Max(s)])
           fold == CHOOSE iter : iter = [s \in SUBSET D |-> step(iter, s)]
<1>1. Flags(opts) = fold[D]
  BY DEF Flags, FoldLeft, MapThenFoldSet
<1>2. D = 1 .. Len(opts) /\ Len(opts) \in Nat
  BY LenProperties
<1>3. fold = [s \in SUBSET D |-> step(fold, s)]
  <2> DEFINE g == [s \in SUBSET D |-> all(s)]
  <2>1. ASSUME NEW s \in SUBSET D
        PROVE  g[s] = step(g, s)
    <3>1. CASE s = {}
      BY <3>1
    <3>2. CASE s # {}
      <4>1. Max(s) \in s
        <5>1. s \in SUBSET (0 .. Len(opts))
          BY <1>2
        <5> QED  BY <1>2, <3>2, <5>1, MaxFacts
      <4>2. s \ {Max(s)} \in SUBSET D
        OBVIOUS
      <4> HIDE DEF D
      <4>3. g[s \ {Max(s)}] = all(s \ {Max(s)}) /\ g[s] = all(s)
        BY <4>2
      <4>4. all(s) = all(s \ {Max(s)}) \cup Raised(opts[Max(s)])
        BY <4>1
      <4> QED  BY <3>2, <4>3, <4>4
    <3> QED  BY <3>1, <3>2
  <2>2. g = [s \in SUBSET D |-> step(g, s)]
    <3> HIDE DEF step, D
    <3> QED  BY <2>1
  <2>3. \E iter : iter = [s \in SUBSET D |-> step(iter, s)]
    BY <2>2
  <2> QED  BY <2>3
<1> HIDE DEF fold
<1>4. ASSUME NEW s \in SUBSET D
      PROVE  fold[s] = step(fold, s)
  BY <1>3
<1> DEFINE Bad == {k \in 0 .. Len(opts) : fold[1 .. k] # all(1 .. k)}
<1>5. Bad = {}
  <2> SUFFICES ASSUME Bad # {}
               PROVE  FALSE
    OBVIOUS
  <2>1. Bad \in SUBSET Nat
    BY <1>2
  <2>2. PICK n \in Bad : \A m \in Bad : n <= m
    <3> HIDE DEF Bad
    <3> QED  BY <2>1, LeastNatural
  <2>3. n \in 0 .. Len(opts) /\ n \in Nat /\ fold[1 .. n] # all(1 .. n) /\ 1 .. n \in SUBSET D
    BY <1>2
  <2> HIDE DEF Bad
  <2>4. CASE n = 0
    <3>1. 1 .. n = {}
      BY <2>4
    <3>2. fold[1 .. n] = {}
      BY <1>4, <2>3, <3>1
    <3>3. all(1 .. n) = {}
      BY <3>1
    <3> QED  BY <2>3, <3>2, <3>3
  <2>5. CASE n # 0
    <3>1. Max(1 .. n) = n
      <4>1. 1 .. n \in SUBSET (0 .. n) /\ n \in 1 .. n
        BY <2>3, <2>5
      <4>2. Max(1 .. n) \in 1 .. n /\ n <= Max(1 .. n)
        BY <2>3, <4>1, MaxFacts
      <4> QED  BY <2>3, <4>2
    <3>2. (1 .. n) \ {n} = 1 .. n - 1 /\ n - 1 \in 0 .. Len(opts) /\ ~ (n <= n - 1)
      BY <1>2, <2>3, <2>5
    <3>3. n - 1 \notin Bad
      BY <2>2, <3>2
    <3>4. fold[1 .. n - 1] = all(1 .. n - 1)
      BY <3>2, <3>3 DEF Bad
    <3>5. fold[1 .. n] = fold[1 .. n - 1] \cup Raised(opts[n])
      <4>1. 1 .. n # {}
        BY <2>3, <2>5
      <4> QED  BY <1>4, <2>3, <3>1, <3>2, <4>1
    <3>6. all(1 .. n) = all(1 .. n - 1) \cup Raised(opts[n])
      <4>1. 1 .. n = (1 .. n - 1) \cup {n}
        BY <2>3, <2>5
      <4> QED  BY <4>1
    <3> QED  BY <2>3, <3>4, <3>5, <3>6
  <2> QED  BY <2>4, <2>5
<1>6. Len(opts) \notin Bad /\ Len(opts) \in 0 .. Len(opts)
  BY <1>2, <1>5
<1>7. fold[D] = all(D)
  BY <1>2, <1>6
<1> QED  BY <1>1, <1>7

\* Only the first two names are flags.
LEMMA FlagsType ==
    ASSUME NEW opts \in OptionLists, ~ Rejected(opts)
    PROVE  Flags(opts) \subseteq {names[1], names[2]}
<1> DEFINE Options == [starts : SUBSET (1 .. 4), value : BOOLEAN]
<1>1. opts \in Seq(Options) /\ DOMAIN opts = 1 .. Len(opts)
  BY OptionsAssumption, LenProperties
<1>2. ASSUME NEW i \in DOMAIN opts
      PROVE  Raised(opts[i]) \subseteq {names[1], names[2]}
  <2>1. opts[i].starts \in SUBSET (1 .. 4) /\ opts[i].starts # {}
    <3>1. opts[i] \in Options
      BY <1>1, ElementOfSeq
    <3> QED  BY <3>1 DEF Rejected
  <2>2. Min(opts[i].starts) \in 1 .. 4
    BY <2>1, MinFacts
  <2>3. Min(opts[i].starts) <= 2 => Min(opts[i].starts) \in {1, 2}
    BY <2>2
  <2> QED  BY <2>3 DEF Raised
<1>3. Flags(opts) = UNION {Raised(opts[i]) : i \in DOMAIN opts}
  BY <1>1, FlagsCollect
<1> QED  BY <1>2, <1>3

\* The order of the options does not matter.
LEMMA FlagsPermuted ==
    ASSUME NEW S, NEW opts \in Seq(S), NEW p \in [DOMAIN opts -> DOMAIN opts],
           {p[i] : i \in DOMAIN opts} = DOMAIN opts
    PROVE  Flags([i \in DOMAIN opts |-> opts[p[i]]]) = Flags(opts)
<1> DEFINE gs == [i \in DOMAIN opts |-> opts[p[i]]]
<1>1. DOMAIN opts = 1 .. Len(opts) /\ Len(opts) \in Nat
  BY LenProperties
<1>2. gs \in Seq(S)
  <2>1. \A i \in DOMAIN opts : opts[p[i]] \in S
    BY <1>1, ElementOfSeq
  <2>2. gs \in [1 .. Len(opts) -> S]
    BY <1>1, <2>1
  <2> QED  BY <1>1, <2>2, SeqDef
<1>3. Flags(gs) = UNION {Raised(gs[i]) : i \in DOMAIN gs}
  <2> HIDE DEF gs
  <2> QED  BY <1>2, FlagsCollect
<1>4. Flags(opts) = UNION {Raised(opts[i]) : i \in DOMAIN opts}
  BY FlagsCollect
<1>5. {Raised(gs[i]) : i \in DOMAIN gs} = {Raised(opts[i]) : i \in DOMAIN opts}
  OBVIOUS
<1> QED  BY <1>3, <1>4, <1>5
----------------------------------------------------------------------------
(* The statistics.  N stands for the names of the measured calls. *)

StatHashes(N) == UNION {[D -> Nat] : D \in SUBSET N}

\* A hash with a number stored under a name.
Stored(old, name, number) ==
    [x \in DOMAIN old \cup {name} |-> IF x = name THEN number ELSE old[x]]

\* What StatsAreOfTheLastCall says of one hash.
OfTheLastCall(entries, h, hash) ==
    LET here == {i \in DOMAIN entries : entries[i].hash = h}
    IN  /\ DOMAIN hash = {entries[i].name : i \in here}
        /\ \A i \in here :
              (\A k \in here : k > i => entries[k].name # entries[i].name)
                  => hash[entries[i].name] = entries[i].took

\* The history and the hashes go together.
StatsOK(N) ==
    /\ stats \in Seq(StatHashes(N)) /\ Len(stats) \in 1 .. MaxResets + 1
    /\ timed \in Seq([name : N, took : Nat, hash : Nat])
    /\ \A i \in 1 .. Len(timed) : timed[i].hash \in 1 .. Len(stats)
    /\ \A h \in 1 .. Len(stats) : OfTheLastCall(timed, h, stats[h])

\* A hash takes a number under a name.
LEMMA HashSet ==
    ASSUME NEW N, NEW old \in StatHashes(N), NEW name \in N, NEW elapsed \in Nat
    PROVE  Stored(old, name, elapsed) \in StatHashes(N)
<1>1. PICK D \in SUBSET N : old \in [D -> Nat]
  BY DEF StatHashes
<1>2. D \cup {name} \in SUBSET N /\ Stored(old, name, elapsed) \in [D \cup {name} -> Nat]
  BY <1>1 DEF Stored
<1> QED  BY <1>2 DEF StatHashes

\* The one entry that is added is the last of its name in its hash.
LEMMA TimedAppend ==
    ASSUME NEW S, NEW entries \in Seq(S), NEW e \in S,
           NEW h, NEW old, NEW new,
           OfTheLastCall(entries, h, old),
           e.hash # h => new = old,
           e.hash = h => new = Stored(old, e.name, e.took)
    PROVE  OfTheLastCall(Append(entries, e), h, new)
<1> DEFINE n == Len(entries)
           more == Append(entries, e)
           here == {i \in DOMAIN entries : entries[i].hash = h}
           now == {i \in DOMAIN more : more[i].hash = h}
<1>1. /\ n \in Nat /\ DOMAIN entries = 1 .. n /\ DOMAIN more = 1 .. n + 1
      /\ more[n + 1] = e /\ \A i \in 1 .. n : more[i] = entries[i]
  BY AppendProperties, LenProperties
<1> HIDE DEF more
<1>2. here \subseteq 1 .. n /\ \A i \in here : more[i] = entries[i] /\ i < n + 1 /\ i \in Nat
  BY <1>1
<1>3. CASE e.hash # h
  <2>1. now = here
    BY <1>1, <1>3
  <2>2. {more[i].name : i \in now} = {entries[i].name : i \in here}
    BY <1>2, <2>1
  <2> HIDE DEF now, here
  <2>3. DOMAIN new = {more[i].name : i \in now}
    BY <1>3, <2>2 DEF OfTheLastCall, here
  <2>4. ASSUME NEW i \in now, \A k \in now : k > i => more[k].name # more[i].name
        PROVE  new[more[i].name] = more[i].took
    <3>1. \A k \in here : k > i => entries[k].name # entries[i].name
      BY <1>2, <2>1, <2>4
    <3>2. old[entries[i].name] = entries[i].took
      BY <2>1, <3>1 DEF OfTheLastCall, here
    <3> QED  BY <1>2, <1>3, <2>1, <3>2
  <2> QED  BY <2>3, <2>4 DEF OfTheLastCall, now, more
<1>4. CASE e.hash = h
  <2>1. now = here \cup {n + 1}
    BY <1>1, <1>4
  <2>2. {more[i].name : i \in now} = {entries[i].name : i \in here} \cup {e.name}
    <3>1. \A i \in here : more[i].name = entries[i].name
      BY <1>2
    <3>2. more[n + 1].name = e.name
      BY <1>1
    <3> HIDE DEF now, here
    <3> QED  BY <2>1, <3>1, <3>2
  <2> HIDE DEF now, here
  <2>3. DOMAIN old = {entries[i].name : i \in here}
    BY DEF OfTheLastCall, here
  <2>4. DOMAIN new = {more[i].name : i \in now}
    BY <1>4, <2>2, <2>3 DEF Stored
  <2>5. ASSUME NEW i \in now, \A k \in now : k > i => more[k].name # more[i].name
        PROVE  new[more[i].name] = more[i].took
    <3>1. CASE i = n + 1
      BY <1>1, <1>4, <3>1 DEF Stored
    <3>2. CASE i # n + 1
      <4>1. i \in here /\ n + 1 \in now /\ n + 1 > i
        BY <1>1, <1>2, <2>1, <3>2
      <4>2. more[i] = entries[i] /\ entries[i].name # e.name
        BY <1>1, <1>2, <2>5, <4>1
      <4>3. \A k \in here : k > i => entries[k].name # entries[i].name
        BY <1>2, <2>1, <2>5, <4>1
      <4>4. old[entries[i].name] = entries[i].took
        BY <4>1, <4>3 DEF OfTheLastCall, here
      <4>5. entries[i].name \in DOMAIN old
        BY <2>3, <4>1
      <4> QED  BY <1>4, <4>2, <4>4, <4>5 DEF Stored
    <3> QED  BY <3>1, <3>2
  <2> QED  BY <2>4, <2>5 DEF OfTheLastCall, now, more
<1> QED  BY <1>3, <1>4

\* The end of a measured call, whose Perf structure has its own start.
LEMMA StatsStopKeeps ==
    ASSUME NEW N, StatsOK(N), NEW name \in N, NEW elapsed \in Nat,
           StatsStop(name, elapsed, elapsed)
    PROVE  StatsOK(N)'
<1> DEFINE H == Len(stats)
           Entries == [name : N, took : Nat, hash : Nat]
<1>1. CASE ~ Gathers
  BY <1>1 DEF StatsStop, StatsOK
<1>2. CASE Gathers
  <2> DEFINE e == [name |-> name, took |-> elapsed, hash |-> H]
             new == Stored(stats[H], name, elapsed)
  <2>1. /\ stats \in Seq(StatHashes(N)) /\ H \in 1 .. MaxResets + 1 /\ H \in 1 .. H
        /\ H \in Nat /\ timed \in Seq(Entries) /\ Len(timed) \in Nat
        /\ DOMAIN stats = 1 .. H
    BY LenProperties DEF StatsOK
  <2>2. stats' = [stats EXCEPT ![H] = new] /\ timed' = Append(timed, e)
    BY <1>2 DEF StatsStop, SaveStat, Stored
  <2>3. stats[H] \in StatHashes(N)
    BY <2>1, ElementOfSeq
  <2>4. new \in StatHashes(N)
    <3> HIDE DEF H
    <3> QED  BY <2>3, HashSet
  <2>5. e \in Entries /\ e.hash = H /\ e.name = name /\ e.took = elapsed
    BY <2>1
  <2> HIDE DEF H, e, new
  <2>6. /\ stats' \in Seq(StatHashes(N)) /\ Len(stats') = H
        /\ \A h \in 1 .. H : stats'[h] = IF h = H THEN new ELSE stats[h]
    BY <2>1, <2>2, <2>4, ExceptSeq DEF H
  <2>7. /\ timed' \in Seq(Entries) /\ Len(timed') = Len(timed) + 1
        /\ timed'[Len(timed) + 1] = e
        /\ \A i \in 1 .. Len(timed) : timed'[i] = timed[i]
    BY <2>1, <2>2, <2>5, AppendProperties
  <2>8. ASSUME NEW i \in 1 .. Len(timed')
        PROVE  timed'[i].hash \in 1 .. Len(stats')
    <3>1. i \in 1 .. Len(timed) \/ i = Len(timed) + 1
      BY <2>1, <2>7
    <3> QED  BY <2>1, <2>5, <2>6, <2>7, <3>1 DEF StatsOK, H
  <2>9. ASSUME NEW h \in 1 .. H
        PROVE  OfTheLastCall(timed', h, stats'[h])
    <3>1. OfTheLastCall(timed, h, stats[h])
      BY <2>1 DEF StatsOK, H
    <3>2. e.hash # h => stats'[h] = stats[h]
      BY <2>5, <2>6
    <3>3. e.hash = h => stats'[h] = Stored(stats[h], e.name, e.took)
      BY <2>5, <2>6 DEF new
    <3> HIDE DEF Entries
    <3>4. OfTheLastCall(Append(timed, e), h, stats'[h])
      BY <2>1, <2>5, <3>1, <3>2, <3>3, TimedAppend
    <3> QED  BY <2>2, <3>4
  <2> QED  BY <2>1, <2>6, <2>7, <2>8, <2>9 DEF StatsOK
<1> QED  BY <1>1, <1>2

\* A reset starts a hash that no call has ended in.
LEMMA ResetStatsKeeps ==
    ASSUME NEW N, StatsOK(N), ResetStats
    PROVE  StatsOK(N)'
<1> DEFINE H == Len(stats)
           Entries == [name : N, took : Nat, hash : Nat]
<1>1. /\ stats \in Seq(StatHashes(N)) /\ H \in 1 .. MaxResets + 1
      /\ H \in Nat /\ timed \in Seq(Entries) /\ Len(timed) \in Nat
      /\ DOMAIN stats = 1 .. H /\ DOMAIN timed = 1 .. Len(timed)
  BY LenProperties DEF StatsOK
<1>2. H <= MaxResets /\ stats' = Append(stats, <<>>) /\ timed' = timed
  BY DEF ResetStats
<1>3. PICK none \in StatHashes(N) : none = <<>> /\ DOMAIN none = {}
  <2>1. {} \in SUBSET N /\ <<>> \in [{} -> Nat]
    OBVIOUS
  <2>2. <<>> \in StatHashes(N)
    BY <2>1 DEF StatHashes
  <2> QED  BY <2>1, <2>2
<1> HIDE DEF H
<1>4. /\ stats' \in Seq(StatHashes(N)) /\ Len(stats') = H + 1
      /\ stats'[H + 1] = none /\ \A h \in 1 .. H : stats'[h] = stats[h]
  BY <1>1, <1>2, <1>3, AppendProperties DEF H
<1>6. \A i \in 1 .. Len(timed) : timed[i].hash \in 1 .. H
  BY DEF StatsOK, H
<1>7. ASSUME NEW h \in 1 .. H + 1
      PROVE  OfTheLastCall(timed, h, stats'[h])
  <2>1. CASE h \in 1 .. H
    BY <1>1, <1>4, <2>1 DEF StatsOK, H
  <2>2. CASE h = H + 1
    <3>1. {i \in DOMAIN timed : timed[i].hash = h} = {}
      BY <1>1, <1>6, <2>2
    <3> QED  BY <1>3, <1>4, <2>2, <3>1 DEF OfTheLastCall
  <2> QED  BY <1>1, <2>1, <2>2
<1>9. H + 1 \in 1 .. MaxResets + 1 /\ \A i \in 1 .. Len(timed) : timed[i].hash \in 1 .. H + 1
  BY <1>1, <1>2, <1>6, RecordsAssumption
<1> QED  BY <1>1, <1>2, <1>4, <1>7, <1>9 DEF StatsOK

\* What the theorem says, from the invariant.
LEMMA StatsOfTheLast ==
    ASSUME NEW N, StatsOK(N)
    PROVE  StatsAreOfTheLastCall
<1>1. DOMAIN stats = 1 .. Len(stats)
  BY LenProperties DEF StatsOK
<1>2. \A h \in DOMAIN stats : OfTheLastCall(timed, h, stats[h])
  BY <1>1 DEF StatsOK
<1> QED  BY <1>2 DEF StatsAreOfTheLastCall, OfTheLastCall
----------------------------------------------------------------------------
(* The lines. *)

MsgHashes == UNION {[D -> Seq(Nat)] : D \in SUBSET Targets}
Finished == [line : Nat, target : Targets, hash : Nat]

\* The entries that belong in one list, the turn of each, and what HoldsDue
\* says of the list.
DueIn(entries, h, target) ==
    {i \in DOMAIN entries : entries[i].hash = h /\ entries[i].target = target}
Turn(entries, h, target, i) == Cardinality({k \in DueIn(entries, h, target) : k <= i})
Holds(entries, list, h, target) ==
    /\ Len(list) = Cardinality(DueIn(entries, h, target))
    /\ \A i \in DueIn(entries, h, target) :
          list[Turn(entries, h, target, i)] = entries[i].line

\* The list of a target in a hash of messages.
ListIn(hash, target) == IF target \in DOMAIN hash THEN hash[target] ELSE <<>>

\* The history and the lists go together.
LinesOK ==
    /\ msgs \in Seq(MsgHashes) /\ Len(msgs) \in 1 .. MaxResets + 1
    /\ printed \in [Targets -> Seq(Nat)]
    /\ said \in Seq(Finished)
    /\ \A i \in 1 .. Len(said) : said[i].hash \in 0 .. Len(msgs)
    /\ \A h \in 1 .. Len(msgs), target \in Targets :
          Holds(said, ListIn(msgs[h], target), h, target)
    /\ \A target \in Targets : Holds(said, printed[target], 0, target)

\* The turns of the entries of a list run from one to its length.
LEMMA TurnFacts ==
    ASSUME NEW entries \in Seq(Finished), NEW h, NEW target,
           NEW due, due = DueIn(entries, h, target)
    PROVE  /\ IsFiniteSet(due) /\ due \subseteq 1 .. Len(entries)
           /\ Cardinality(due) \in Nat
           /\ \A i \in due : Turn(entries, h, target, i) \in 1 .. Cardinality(due)
<1>1. Len(entries) \in Nat /\ DOMAIN entries = 1 .. Len(entries)
  BY LenProperties
<1>2. due \in SUBSET (1 .. Len(entries))
  BY <1>1 DEF DueIn
<1>3. IsFiniteSet(due) /\ Cardinality(due) \in Nat
  <2>1. IsFiniteSet(1 .. Len(entries))
    BY <1>1, FS_Interval
  <2>2. IsFiniteSet(due)
    BY <1>2, <2>1, FS_Subset
  <2> QED  BY <2>2, FS_CardinalityType
<1>4. ASSUME NEW i \in due
      PROVE  Turn(entries, h, target, i) \in 1 .. Cardinality(due)
  <2> DEFINE upto == {k \in due : k <= i}
  <2>1. upto \in SUBSET due /\ i \in upto
    BY <1>1, <1>2
  <2>2. IsFiniteSet(upto) /\ Cardinality(upto) <= Cardinality(due)
    BY <1>3, <2>1, FS_Subset
  <2>3. Cardinality(upto) \in Nat /\ Cardinality(upto) # 0
    BY <2>1, <2>2, FS_CardinalityType, FS_EmptySet
  <2>4. Turn(entries, h, target, i) = Cardinality(upto)
    BY DEF Turn
  <2> HIDE DEF upto
  <2> QED  BY <1>3, <2>2, <2>3, <2>4
<1> QED  BY <1>2, <1>3, <1>4

\* A line that belongs elsewhere leaves a list as it is.
LEMMA HoldsOther ==
    ASSUME NEW entries \in Seq(Finished), NEW e \in Finished, NEW h, NEW target, NEW list,
           Holds(entries, list, h, target), e.hash # h \/ e.target # target
    PROVE  Holds(Append(entries, e), list, h, target)
<1> DEFINE n == Len(entries)
           more == Append(entries, e)
<1>1. /\ n \in Nat /\ DOMAIN entries = 1 .. n /\ DOMAIN more = 1 .. n + 1
      /\ more[n + 1] = e /\ \A i \in 1 .. n : more[i] = entries[i]
  BY AppendProperties, LenProperties
<1> HIDE DEF more, n
<1>2. DueIn(more, h, target) = DueIn(entries, h, target)
  <2>1. 1 .. n + 1 = (1 .. n) \cup {n + 1}
    BY <1>1
  <2> QED  BY <1>1, <2>1 DEF DueIn
<1>3. ASSUME NEW i \in DueIn(entries, h, target)
      PROVE  more[i] = entries[i] /\ Turn(more, h, target, i) = Turn(entries, h, target, i)
  BY <1>1, <1>2 DEF DueIn, Turn
<1>4. Holds(more, list, h, target)
  BY <1>2, <1>3 DEF Holds
<1> QED  BY <1>4 DEF more

\* A line that belongs in a list goes to its end.
LEMMA HoldsNext ==
    ASSUME NEW entries \in Seq(Finished), NEW e \in Finished,
           NEW list \in Seq(Nat), NEW longer \in Seq(Nat),
           Holds(entries, list, e.hash, e.target),
           Len(longer) = Len(list) + 1, longer[Len(list) + 1] = e.line,
           \A i \in 1 .. Len(list) : longer[i] = list[i]
    PROVE  Holds(Append(entries, e), longer, e.hash, e.target)
<1> DEFINE n == Len(entries)
           more == Append(entries, e)
           due == DueIn(entries, e.hash, e.target)
           now == DueIn(more, e.hash, e.target)
<1>1. /\ n \in Nat /\ DOMAIN entries = 1 .. n /\ DOMAIN more = 1 .. n + 1
      /\ more[n + 1] = e /\ \A i \in 1 .. n : more[i] = entries[i]
  BY AppendProperties, LenProperties
<1> HIDE DEF more, n
<1>2. /\ IsFiniteSet(due) /\ due \subseteq 1 .. n
      /\ Cardinality(due) \in Nat
      /\ \A i \in due : Turn(entries, e.hash, e.target, i) \in 1 .. Cardinality(due)
  BY TurnFacts DEF n
<1>3. now = due \cup {n + 1} /\ n + 1 \notin due
  <2>1. 1 .. n + 1 = (1 .. n) \cup {n + 1} /\ n + 1 \notin 1 .. n
    BY <1>1
  <2> QED  BY <1>1, <2>1 DEF DueIn
<1>4. Cardinality(now) = Cardinality(due) + 1
  <2> HIDE DEF now, due
  <2> QED  BY <1>2, <1>3, FS_AddElement
<1>5. Len(list) = Cardinality(due)
  BY DEF Holds
<1>6. ASSUME NEW i \in now
      PROVE  longer[Turn(more, e.hash, e.target, i)] = more[i].line
  <2>1. CASE i = n + 1
    <3>1. \A k \in now : k <= n + 1
      BY <1>1, <1>2, <1>3
    <3>2. {k \in now : k <= i} = now
      BY <2>1, <3>1
    <3>3. Turn(more, e.hash, e.target, i) = Cardinality(now)
      BY <3>2 DEF Turn
    <3> QED  BY <1>1, <1>4, <1>5, <2>1, <3>3
  <2>2. CASE i # n + 1
    <3>1. i \in due /\ i \in 1 .. n
      BY <1>2, <1>3, <2>2
    <3>2. {k \in now : k <= i} = {k \in due : k <= i}
      <4>1. ~ (n + 1 <= i)
        BY <1>1, <3>1
      <4> HIDE DEF now, due
      <4> QED  BY <1>3, <4>1
    <3>3. Turn(more, e.hash, e.target, i) = Turn(entries, e.hash, e.target, i)
      BY <3>2 DEF Turn
    <3>4. Turn(entries, e.hash, e.target, i) \in 1 .. Len(list)
      BY <1>2, <1>5, <3>1
    <3>5. list[Turn(entries, e.hash, e.target, i)] = entries[i].line
      BY <3>1 DEF Holds
    <3> QED  BY <1>1, <3>1, <3>3, <3>4, <3>5
  <2> QED  BY <2>1, <2>2
<1>7. Holds(more, longer, e.hash, e.target)
  BY <1>4, <1>5, <1>6 DEF Holds
<1> QED  BY <1>7 DEF more

\* The list of a target, in a hash of messages.
LEMMA ListFacts ==
    ASSUME NEW hash \in MsgHashes, NEW target \in Targets
    PROVE  ListIn(hash, target) \in Seq(Nat) /\ DOMAIN hash \in SUBSET Targets
<1>1. PICK D \in SUBSET Targets : hash \in [D -> Seq(Nat)]
  BY DEF MsgHashes
<1>2. <<>> \in Seq(Nat)
  BY EmptySeq
<1> QED  BY <1>1, <1>2 DEF ListIn

\* A line stored one above the top index of its list is the next of the list.
LEMMA SaveMsgFacts ==
    ASSUME msgs \in Seq(MsgHashes), Len(msgs) # 0, NEW target \in Targets,
           NEW line \in Nat, SaveMsg(target, line)
    PROVE  \E list \in Seq(Nat) :
              /\ Len(list) = Len(ListIn(msgs[Len(msgs)], target)) + 1
              /\ list[Len(list)] = line
              /\ \A i \in 1 .. Len(list) - 1 : list[i] = ListIn(msgs[Len(msgs)], target)[i]
              /\ msgs' \in Seq(MsgHashes) /\ Len(msgs') = Len(msgs)
              /\ ListIn(msgs'[Len(msgs)], target) = list
              /\ \A t \in Targets : t # target =>
                    ListIn(msgs'[Len(msgs)], t) = ListIn(msgs[Len(msgs)], t)
              /\ \A h \in 1 .. Len(msgs) - 1 : msgs'[h] = msgs[h]
<1> DEFINE H == Len(msgs)
           old == List(H, target)
           list == [i \in 1 .. (Len(old) - 1 + 1) + 1 |->
                       IF i = (Len(old) - 1 + 1) + 1 THEN line ELSE old[i]]
           new == [t \in DOMAIN msgs[H] \cup {target} |->
                      IF t = target THEN list ELSE msgs[H][t]]
<1>1. /\ H \in Nat /\ H \in 1 .. H /\ msgs[H] \in MsgHashes
      /\ old = ListIn(msgs[H], target)
  <2>1. H \in Nat /\ H \in 1 .. H
    BY LenProperties
  <2>2. msgs[H] \in MsgHashes
    BY <2>1, ElementOfSeq
  <2> QED  BY <2>1, <2>2 DEF List, ListIn
<1>2. old \in Seq(Nat) /\ Len(old) \in Nat
  <2>1. old \in Seq(Nat)
    BY <1>1, ListFacts
  <2> QED  BY <2>1, LenProperties
<1>3. msgs' = [msgs EXCEPT ![H] = new]
  BY DEF SaveMsg, AvTop
<1> HIDE DEF H, old
<1>4. /\ list \in Seq(Nat) /\ Len(list) = Len(old) + 1
      /\ list[Len(old) + 1] = line /\ \A i \in 1 .. Len(old) : list[i] = old[i]
  <2>1. (Len(old) - 1 + 1) + 1 = Len(old) + 1 /\ Len(old) + 1 \in Nat
    BY <1>2
  <2>2. \A i \in 1 .. Len(old) : old[i] \in Nat
    BY <1>2, ElementOfSeq
  <2>3. /\ list = [i \in 1 .. Len(old) + 1 |-> IF i = Len(old) + 1 THEN line ELSE old[i]]
    BY <2>1
  <2> HIDE DEF list
  <2>4. list \in [1 .. Len(old) + 1 -> Nat]
    <3>1. \A i \in 1 .. Len(old) + 1 : i # Len(old) + 1 => i \in 1 .. Len(old)
      BY <1>2
    <3> QED  BY <2>2, <2>3, <3>1
  <2>5. list \in Seq(Nat) /\ Len(list) = Len(old) + 1
    <3>1. list \in Seq(Nat) /\ DOMAIN list = 1 .. Len(old) + 1
      BY <2>1, <2>4, SeqDef
    <3> QED  BY <2>1, <3>1, LenProperties
  <2>6. Len(old) + 1 \in 1 .. Len(old) + 1
        /\ \A i \in 1 .. Len(old) : i \in 1 .. Len(old) + 1 /\ i # Len(old) + 1
    BY <1>2
  <2> QED  BY <2>3, <2>5, <2>6
<1> HIDE DEF list
<1>5. /\ new \in MsgHashes /\ ListIn(new, target) = list
      /\ \A t \in Targets : t # target => ListIn(new, t) = ListIn(msgs[H], t)
  <2>1. PICK D \in SUBSET Targets : msgs[H] \in [D -> Seq(Nat)]
    BY <1>1 DEF MsgHashes
  <2>2. D \cup {target} \in SUBSET Targets /\ new \in [D \cup {target} -> Seq(Nat)]
    BY <1>4, <2>1
  <2> QED  BY <2>1, <2>2 DEF MsgHashes, ListIn
<1> HIDE DEF new
<1>6. /\ msgs' \in Seq(MsgHashes) /\ Len(msgs') = H
      /\ \A h \in 1 .. H : msgs'[h] = IF h = H THEN new ELSE msgs[h]
  BY <1>1, <1>3, <1>5, ExceptSeq DEF H
<1>7. msgs'[H] = new /\ \A h \in 1 .. H - 1 : msgs'[h] = msgs[h]
  BY <1>1, <1>6
<1>8. Len(list) - 1 = Len(old)
  BY <1>2, <1>4
<1>9. list \in Seq(Nat)
  BY <1>4
<1> USE <1>9
<1> WITNESS list \in Seq(Nat)
<1> QED  BY <1>1, <1>4, <1>5, <1>6, <1>7, <1>8 DEF H

\* A finished line.
LEMMA OutputLineKeeps ==
    ASSUME LinesOK, NEW target \in Targets, NEW line \in Nat, OutputLine(target, line)
    PROVE  LinesOK'
<1> DEFINE H == Len(msgs)
           e == [line |-> line, target |-> target, hash |-> IF Saves THEN H ELSE 0]
<1>1. /\ msgs \in Seq(MsgHashes) /\ H \in 1 .. MaxResets + 1 /\ H \in Nat /\ H # 0
      /\ H \in 1 .. H /\ MaxResets \in Nat
      /\ printed \in [Targets -> Seq(Nat)] /\ said \in Seq(Finished) /\ Len(said) \in Nat
      /\ \A i \in 1 .. Len(said) : said[i].hash \in 0 .. H
  BY LenProperties, RecordsAssumption DEF LinesOK
<1>2. /\ e \in Finished /\ e.line = line /\ e.target = target
      /\ e.hash = (IF Saves THEN H ELSE 0) /\ e.hash \in 0 .. H
  BY <1>1 DEF Finished
<1>3. said' = Append(said, e)
  BY DEF OutputLine
<1> HIDE DEF e, H
<1>4. /\ said' \in Seq(Finished) /\ Len(said') = Len(said) + 1
      /\ said'[Len(said) + 1] = e
      /\ \A i \in 1 .. Len(said) : said'[i] = said[i]
  BY <1>1, <1>2, <1>3, AppendProperties
<1>5. \A i \in 1 .. Len(said') : said'[i].hash \in 0 .. H
  <2>1. \A i \in 1 .. Len(said') : i \in 1 .. Len(said) \/ i = Len(said) + 1
    BY <1>1, <1>4
  <2> QED  BY <1>1, <1>2, <1>4, <2>1
<1>6. CASE Saves
  <2>1. SaveMsg(target, line) /\ printed' = printed /\ e.hash = H
    BY <1>2, <1>6 DEF OutputLine
  <2>2. PICK list \in Seq(Nat) :
              /\ Len(list) = Len(ListIn(msgs[H], target)) + 1
              /\ list[Len(list)] = line
              /\ \A i \in 1 .. Len(list) - 1 : list[i] = ListIn(msgs[H], target)[i]
              /\ msgs' \in Seq(MsgHashes) /\ Len(msgs') = H
              /\ ListIn(msgs'[H], target) = list
              /\ \A t \in Targets : t # target => ListIn(msgs'[H], t) = ListIn(msgs[H], t)
              /\ \A h \in 1 .. H - 1 : msgs'[h] = msgs[h]
    BY <1>1, <2>1, SaveMsgFacts DEF H
  <2>3. ASSUME NEW h \in 1 .. H, NEW t \in Targets
        PROVE  Holds(said', ListIn(msgs'[h], t), h, t)
    <3>1. Holds(said, ListIn(msgs[h], t), h, t)
      BY DEF LinesOK, H
    <3>2. CASE h = H /\ t = target
      <4> DEFINE old == ListIn(msgs[H], target)
      <4>1. old \in Seq(Nat) /\ Len(old) \in Nat
        <5>1. msgs[H] \in MsgHashes
          BY <1>1, ElementOfSeq DEF H
        <5>2. old \in Seq(Nat)
          BY <5>1, ListFacts
        <5> QED  BY <5>2, LenProperties
      <4> HIDE DEF old
      <4>2. Len(list) = Len(old) + 1 /\ list[Len(old) + 1] = e.line
            /\ \A i \in 1 .. Len(old) : list[i] = old[i]
        <5>1. Len(list) = Len(old) + 1
          BY <2>2 DEF old
        <5>2. Len(list) - 1 = Len(old)
          BY <4>1, <5>1
        <5> QED  BY <1>2, <2>2, <5>1, <5>2 DEF old
      <4>3. Holds(said, old, e.hash, e.target)
        BY <1>2, <2>1, <3>1, <3>2 DEF old
      <4>4. Holds(Append(said, e), list, e.hash, e.target)
        BY <1>1, <1>2, <4>1, <4>2, <4>3, HoldsNext
      <4> QED  BY <1>2, <1>3, <2>1, <2>2, <3>2, <4>4
    <3>3. CASE ~ (h = H /\ t = target)
      <4>1. ListIn(msgs'[h], t) = ListIn(msgs[h], t)
        <5>1. CASE h = H
          BY <2>2, <3>3, <5>1
        <5>2. CASE h # H
          <6>1. h \in 1 .. H - 1
            BY <1>1, <5>2
          <6> QED  BY <2>2, <6>1
        <5> QED  BY <5>1, <5>2
      <4>2. e.hash # h \/ e.target # t
        BY <1>2, <2>1, <3>3
      <4>3. Holds(Append(said, e), ListIn(msgs[h], t), h, t)
        BY <1>1, <1>2, <3>1, <4>2, HoldsOther
      <4> QED  BY <1>3, <4>1, <4>3
    <3> QED  BY <3>2, <3>3
  <2>4. ASSUME NEW t \in Targets
        PROVE  Holds(said', printed'[t], 0, t)
    <3>1. Holds(said, printed[t], 0, t) /\ e.hash # 0
      BY <1>1, <2>1 DEF LinesOK
    <3>2. Holds(Append(said, e), printed[t], 0, t)
      BY <1>1, <1>2, <3>1, HoldsOther
    <3> QED  BY <1>3, <2>1, <3>2
  <2> QED  BY <1>1, <1>4, <1>5, <2>1, <2>2, <2>3, <2>4 DEF LinesOK
<1>7. CASE ~ Saves
  <2>1. /\ printed' = [printed EXCEPT ![target] = Append(printed[target], line)]
        /\ msgs' = msgs /\ e.hash = 0
    BY <1>2, <1>7 DEF OutputLine
  <2> DEFINE old == printed[target]
             longer == Append(old, line)
  <2>2. old \in Seq(Nat) /\ Len(old) \in Nat
    BY <1>1, LenProperties
  <2>3. /\ longer \in Seq(Nat) /\ Len(longer) = Len(old) + 1
        /\ longer[Len(old) + 1] = line /\ \A i \in 1 .. Len(old) : longer[i] = old[i]
    BY <2>2, AppendProperties
  <2>4. /\ printed' \in [Targets -> Seq(Nat)] /\ printed'[target] = longer
        /\ \A t \in Targets : t # target => printed'[t] = printed[t]
    BY <1>1, <2>1, <2>3
  <2> HIDE DEF old, longer
  <2>5. ASSUME NEW h \in 1 .. H, NEW t \in Targets
        PROVE  Holds(said', ListIn(msgs'[h], t), h, t)
    <3>1. Holds(said, ListIn(msgs[h], t), h, t) /\ e.hash # h
      BY <1>1, <2>1 DEF LinesOK, H
    <3>2. Holds(Append(said, e), ListIn(msgs[h], t), h, t)
      BY <1>1, <1>2, <3>1, HoldsOther
    <3> QED  BY <1>3, <2>1, <3>2
  <2>6. ASSUME NEW t \in Targets
        PROVE  Holds(said', printed'[t], 0, t)
    <3>1. Holds(said, printed[t], 0, t)
      BY DEF LinesOK
    <3>2. CASE t = target
      <4>1. Holds(said, old, e.hash, e.target)
        BY <1>2, <2>1, <3>1, <3>2 DEF old
      <4>2. Holds(Append(said, e), longer, e.hash, e.target)
        BY <1>1, <1>2, <2>2, <2>3, <4>1, HoldsNext
      <4> QED  BY <1>2, <1>3, <2>1, <2>4, <3>2, <4>2
    <3>3. CASE t # target
      <4>1. Holds(Append(said, e), printed[t], 0, t)
        BY <1>1, <1>2, <3>1, <3>3, HoldsOther
      <4> QED  BY <1>3, <2>4, <3>3, <4>1
    <3> QED  BY <3>2, <3>3
  <2> QED  BY <1>1, <1>4, <1>5, <2>1, <2>4, <2>5, <2>6 DEF LinesOK, H
<1> QED  BY <1>6, <1>7

\* A reset starts a hash that no line belongs in yet.
LEMMA ResetMsgsKeeps ==
    ASSUME LinesOK, ResetMsgs
    PROVE  LinesOK'
<1> DEFINE H == Len(msgs)
<1>1. /\ msgs \in Seq(MsgHashes) /\ H \in 1 .. MaxResets + 1 /\ H \in Nat
      /\ said \in Seq(Finished) /\ DOMAIN said = 1 .. Len(said)
      /\ \A i \in 1 .. Len(said) : said[i].hash \in 0 .. H
  BY LenProperties DEF LinesOK
<1>2. H <= MaxResets /\ msgs' = Append(msgs, <<>>) /\ printed' = printed /\ said' = said
  BY DEF ResetMsgs
<1>3. PICK none \in MsgHashes : none = <<>> /\ \A t : ListIn(none, t) = <<>>
  <2>1. {} \in SUBSET Targets /\ <<>> \in [{} -> Seq(Nat)]
    OBVIOUS
  <2>2. <<>> \in MsgHashes
    BY <2>1 DEF MsgHashes
  <2>3. \A t : ListIn(<<>>, t) = <<>>
    BY DEF ListIn
  <2> QED  BY <2>2, <2>3
<1> HIDE DEF H
<1>4. /\ msgs' \in Seq(MsgHashes) /\ Len(msgs') = H + 1
      /\ msgs'[H + 1] = none /\ \A h \in 1 .. H : msgs'[h] = msgs[h]
  BY <1>1, <1>2, <1>3, AppendProperties DEF H
<1>5. ASSUME NEW h \in 1 .. H + 1, NEW t \in Targets
      PROVE  Holds(said, ListIn(msgs'[h], t), h, t)
  <2>1. CASE h \in 1 .. H
    BY <1>4, <2>1 DEF LinesOK, H
  <2>2. CASE h = H + 1
    <3>1. DueIn(said, h, t) = {}
      BY <1>1, <2>2 DEF DueIn
    <3>2. Len(<<>>) = 0 /\ ListIn(msgs'[h], t) = <<>>
      BY <1>3, <1>4, <2>2
    <3> QED  BY <3>1, <3>2, FS_EmptySet DEF Holds
  <2> QED  BY <1>1, <2>1, <2>2
<1>6. H + 1 \in 1 .. MaxResets + 1 /\ \A i \in 1 .. Len(said) : said[i].hash \in 0 .. H + 1
  BY <1>1, <1>2, RecordsAssumption
<1> QED  BY <1>2, <1>4, <1>5, <1>6 DEF LinesOK

\* What the theorem says, from the invariant.
LEMMA LinesAreInOrder ==
    ASSUME LinesOK
    PROVE  LinesInOrder
<1>1. DOMAIN msgs = 1 .. Len(msgs)
  BY LenProperties DEF LinesOK
<1>2. ASSUME NEW h \in DOMAIN msgs, NEW target \in Targets
      PROVE  HoldsDue(List(h, target), h, target)
  <2>1. List(h, target) = ListIn(msgs[h], target)
    BY DEF List, ListIn
  <2>2. Holds(said, List(h, target), h, target)
    BY <1>1, <2>1 DEF LinesOK
  <2> QED  BY <2>2 DEF Holds, HoldsDue, DueIn, Turn
<1>3. ASSUME NEW target \in Targets
      PROVE  HoldsDue(printed[target], 0, target)
  BY DEF LinesOK, Holds, HoldsDue, DueIn, Turn
<1> QED  BY <1>2, <1>3 DEF LinesInOrder

\* What a step may do to the records: calls end, a line is finished, or one of
\* the resets happens.
Recorded(N) ==
    \/ ResetStats \/ ResetMsgs
    \/ /\ \/ UNCHANGED <<stats, timed>>
          \/ \E name \in N, elapsed \in Nat : StatsStop(name, elapsed, elapsed)
       /\ \/ UNCHANGED <<msgs, printed, said>>
          \/ \E target \in Targets, line \in Nat : OutputLine(target, line)

\* What has been given up in a reset is not the last hash, and only the last is
\* ever stored into.
LEMMA DetachedKept ==
    ASSUME NEW N, StatsOK(N), LinesOK, Recorded(N)
    PROVE  /\ \A h \in 1 .. Len(stats) - 1 : stats'[h] = stats[h]
           /\ \A h \in 1 .. Len(msgs) - 1 : msgs'[h] = msgs[h]
<1>1. /\ stats \in Seq(StatHashes(N)) /\ DOMAIN stats = 1 .. Len(stats) /\ Len(stats) \in Nat
      /\ msgs \in Seq(MsgHashes) /\ DOMAIN msgs = 1 .. Len(msgs) /\ Len(msgs) \in Nat
  BY LenProperties DEF StatsOK, LinesOK
<1>7. PICK none : none = <<>> /\ none \in StatHashes(N) /\ none \in MsgHashes
  <2>1. {} \in SUBSET N /\ <<>> \in [{} -> Nat]
    OBVIOUS
  <2>2. {} \in SUBSET Targets /\ <<>> \in [{} -> Seq(Nat)]
    OBVIOUS
  <2>3. <<>> \in StatHashes(N)
    BY <2>1 DEF StatHashes
  <2>4. <<>> \in MsgHashes
    BY <2>2 DEF MsgHashes
  <2> QED  BY <2>3, <2>4
<1>2. ASSUME NEW name, NEW elapsed, NEW true, StatsStop(name, elapsed, true),
             NEW h \in 1 .. Len(stats) - 1
      PROVE  stats'[h] = stats[h]
  BY <1>1, <1>2 DEF StatsStop, SaveStat
<1>3. ASSUME NEW target, NEW line, OutputLine(target, line), NEW h \in 1 .. Len(msgs) - 1
      PROVE  msgs'[h] = msgs[h]
  BY <1>1, <1>3 DEF OutputLine, SaveMsg
<1>4. CASE ResetStats
  <2>1. stats' = Append(stats, none) /\ msgs' = msgs
    BY <1>4, <1>7 DEF ResetStats
  <2>2. \A h \in 1 .. Len(stats) : stats'[h] = stats[h]
    <3>1. stats \in Seq(StatHashes(N)) /\ none \in StatHashes(N)
      BY <1>1, <1>7
    <3>2. \A h \in 1 .. Len(stats) : Append(stats, none)[h] = stats[h]
      BY <3>1, AppendProperties
    <3> QED  BY <2>1, <3>2
  <2>3. \A h \in 1 .. Len(stats) - 1 : h \in 1 .. Len(stats)
    BY <1>1
  <2> QED  BY <2>1, <2>2, <2>3
<1>5. CASE ResetMsgs
  <2>1. msgs' = Append(msgs, none) /\ stats' = stats
    BY <1>5, <1>7 DEF ResetMsgs
  <2>2. \A h \in 1 .. Len(msgs) : msgs'[h] = msgs[h]
    <3>1. msgs \in Seq(MsgHashes) /\ none \in MsgHashes
      BY <1>1, <1>7
    <3>2. \A h \in 1 .. Len(msgs) : Append(msgs, none)[h] = msgs[h]
      BY <3>1, AppendProperties
    <3> QED  BY <2>1, <3>2
  <2>3. \A h \in 1 .. Len(msgs) - 1 : h \in 1 .. Len(msgs)
    BY <1>1
  <2> QED  BY <2>1, <2>2, <2>3
<1>6. ASSUME \/ UNCHANGED <<stats, timed>>
             \/ \E name \in N, elapsed \in Nat : StatsStop(name, elapsed, elapsed)
      PROVE  \A h \in 1 .. Len(stats) - 1 : stats'[h] = stats[h]
  BY <1>2, <1>6
<1>8. ASSUME \/ UNCHANGED <<msgs, printed, said>>
             \/ \E target \in Targets, line \in Nat : OutputLine(target, line)
      PROVE  \A h \in 1 .. Len(msgs) - 1 : msgs'[h] = msgs[h]
  BY <1>3, <1>8
<1>9. CASE ~ ResetStats /\ ~ ResetMsgs
  <2>1. \A h \in 1 .. Len(stats) - 1 : stats'[h] = stats[h]
    BY <1>6, <1>9 DEF Recorded
  <2>2. \A h \in 1 .. Len(msgs) - 1 : msgs'[h] = msgs[h]
    BY <1>8, <1>9 DEF Recorded
  <2> QED  BY <2>1, <2>2
<1> QED  BY <1>4, <1>5, <1>9

\* The records of a new object.
LEMMA RecordsStart ==
    ASSUME NEW N, RecordsInit
    PROVE  StatsOK(N) /\ LinesOK
<1>1. PICK none : none = <<>> /\ none \in StatHashes(N) /\ none \in MsgHashes
                  /\ DOMAIN none = {} /\ \A t : ListIn(none, t) = <<>>
  <2>1. {} \in SUBSET N /\ <<>> \in [{} -> Nat]
    OBVIOUS
  <2>2. {} \in SUBSET Targets /\ <<>> \in [{} -> Seq(Nat)]
    OBVIOUS
  <2>3. <<>> \in StatHashes(N)
    BY <2>1 DEF StatHashes
  <2>4. <<>> \in MsgHashes
    BY <2>2 DEF MsgHashes
  <2>5. \A t : ListIn(<<>>, t) = <<>>
    BY DEF ListIn
  <2> QED  BY <2>3, <2>4, <2>5
<1>2. stats = << none >> /\ msgs = << none >>
  BY <1>1 DEF RecordsInit
<1>3. 1 \in 1 .. MaxResets + 1 /\ 1 .. 1 = {1}
  BY RecordsAssumption
<1>4. /\ stats \in Seq(StatHashes(N)) /\ Len(stats) = 1 /\ stats[1] = none
      /\ msgs \in Seq(MsgHashes) /\ Len(msgs) = 1 /\ msgs[1] = none
  BY <1>1, <1>2
<1>5. /\ timed \in Seq([name : N, took : Nat, hash : Nat]) /\ Len(timed) = 0
      /\ DOMAIN timed = {}
  <2>1. timed = <<>>
    BY DEF RecordsInit
  <2> QED  BY <2>1, EmptySeq
<1>6. said \in Seq(Finished) /\ Len(said) = 0 /\ DOMAIN said = {}
  <2>1. said = <<>>
    BY DEF RecordsInit
  <2> QED  BY <2>1, EmptySeq
<1>7. StatsOK(N)
  <2>1. ASSUME NEW h \in 1 .. Len(stats)
        PROVE  OfTheLastCall(timed, h, stats[h])
    BY <1>1, <1>3, <1>4, <1>5 DEF OfTheLastCall
  <2> QED  BY <1>3, <1>4, <1>5, <2>1 DEF StatsOK
<1>8. LinesOK
  <2>1. \A h, t : DueIn(said, h, t) = {}
    BY <1>6 DEF DueIn
  <2>2. \A h, t : Holds(said, <<>>, h, t)
    BY <2>1, FS_EmptySet DEF Holds
  <2>3. printed \in [Targets -> Seq(Nat)] /\ \A t \in Targets : printed[t] = <<>>
    <3>1. <<>> \in Seq(Nat)
      BY EmptySeq
    <3> QED  BY <3>1 DEF RecordsInit
  <2>4. \A h \in 1 .. Len(msgs), t \in Targets : ListIn(msgs[h], t) = <<>>
    BY <1>1, <1>3, <1>4
  <2> QED  BY <1>3, <1>4, <1>6, <2>2, <2>3, <2>4 DEF LinesOK
<1> QED  BY <1>7, <1>8

\* Every step keeps the records in order.
LEMMA RecordsKept ==
    ASSUME NEW N, StatsOK(N), LinesOK, Recorded(N)
    PROVE  StatsOK(N)' /\ LinesOK'
<1>1. CASE ResetStats
  <2>1. UNCHANGED <<msgs, printed, said>>
    BY <1>1 DEF ResetStats
  <2> QED  BY <1>1, <2>1, ResetStatsKeeps DEF LinesOK
<1>2. CASE ResetMsgs
  <2>1. UNCHANGED <<stats, timed>>
    BY <1>2 DEF ResetMsgs
  <2> QED  BY <1>2, <2>1, ResetMsgsKeeps DEF StatsOK
<1>3. ASSUME \/ UNCHANGED <<stats, timed>>
             \/ \E name \in N, elapsed \in Nat : StatsStop(name, elapsed, elapsed)
      PROVE  StatsOK(N)'
  <2>1. CASE UNCHANGED <<stats, timed>>
    BY <2>1 DEF StatsOK
  <2> QED  BY <1>3, <2>1, StatsStopKeeps
<1>4. ASSUME \/ UNCHANGED <<msgs, printed, said>>
             \/ \E target \in Targets, line \in Nat : OutputLine(target, line)
      PROVE  LinesOK'
  <2>1. CASE UNCHANGED <<msgs, printed, said>>
    BY <2>1 DEF LinesOK
  <2> QED  BY <1>4, <2>1, OutputLineKeeps
<1> QED  BY <1>1, <1>2, <1>3, <1>4 DEF Recorded

\* The types of the records.
LEMMA RecordsTypes ==
    ASSUME NEW N, StatsOK(N), LinesOK,
           options \in OptionLists, ~ Rejected(options), flags = Flags(options)
    PROVE  RecordsTypeOK
<1>1. flags \subseteq {names[1], names[2]}
  BY FlagsType
<1>2. DOMAIN stats = 1 .. Len(stats) /\ DOMAIN msgs = 1 .. Len(msgs)
  BY LenProperties DEF StatsOK, LinesOK
<1>3. ASSUME NEW h \in DOMAIN stats, NEW name \in DOMAIN stats[h]
      PROVE  stats[h][name] \in Nat
  <2>1. stats[h] \in StatHashes(N)
    BY <1>2, ElementOfSeq DEF StatsOK
  <2> QED  BY <2>1 DEF StatHashes
<1>4. ASSUME NEW h \in DOMAIN msgs
      PROVE  DOMAIN msgs[h] \subseteq Targets
  <2>1. msgs[h] \in MsgHashes
    BY <1>2, ElementOfSeq DEF LinesOK
  <2> QED  BY <2>1 DEF MsgHashes
<1>5. DOMAIN printed = Targets
  BY DEF LinesOK
<1> QED  BY <1>1, <1>3, <1>4, <1>5 DEF RecordsTypeOK, StatsOK, LinesOK
=============================================================================
