# Verification of JavaScript::V8::XS

TLA+ models of the C++ core of `JavaScript::V8::XS`, a Perl module that embeds
the V8 engine: what is modelled, what TLC checks on small instances and what
TLAPS proves for every instance. Paths such as `pl_eventloop.cc:158` are files
of the repository.

## 1. The system

A Perl program creates objects of class `JavaScript::V8::XS`. Each object owns
a V8 isolate (a JavaScript heap). One thread runs everything; "concurrency" here
is reentrancy: Perl calls JavaScript (`eval`), JavaScript calls Perl subs
(`perl_caller`), and those may call the methods of any object again.

| Part | Code | State | Operations |
|---|---|---|---|
| Timers and event loop | `pl_eventloop.cc`, `pl_inlined.cc` (`setTimeout` ...), `pl_eval.cc` | statics of the library: `timer_list` (sorted, earliest last), `timer_count`, `timer_next_id`, `timer_expiring` | `create_timer`, `delete_timer`, `expire_timers`, `eventloop_run`, `pl_eval`, `pl_run_function_in_event_loop` |
| Object life cycle | `V8Context.cc` | per object: `isolate`, `inited`, `flags`, persistent context; how often the isolate is entered | `new`, `reset`, `DESTROY`, `ENTER_SCOPE` of every method |
| Data conversion | `pl_v8.cc:18-363` | per conversion: the map of containers seen; per coderef: a `FuncData` with a counted SV | `pl_perl_to_v8`, `pl_v8_to_perl` |
| Property names | `pl_v8.cc:365-621` | the JavaScript heap | `find_parent`, `find_object`, `get`, `set`, `remove`, `exists`, `typeof`, `instanceof`, `global_objects` |
| Calls from JavaScript to Perl | `pl_v8.cc:49-110` | the Perl stack, its temporaries | `perl_caller`; croaks when the sub died |
| Console and messages | `pl_console.cc`, `pl_inlined.cc` (`JSON_stringify_with_cycles`) | `msgs`: a list per target | `console.*`, `pl_show_error`, `get_msgs`, `reset_msgs` |
| Statistics | `pl_stats.cc` | `stats`: two numbers per method | `pl_stats_start/stop`, `get_stats`, `reset_stats` |
| Error reporting | `pl_eval.cc:17-77` | none | `ReportException` |
| Native functions, clock | `pl_native.cc`, `pl_util.cc` | none | `print`, `version`, `timestamp_ms`, `now_us` |
| Perl side | `lib/JavaScript/V8/XS.pm` | none | `parse_js_stacktrace` |

How they interact. Every method enters the isolate (`ENTER_SCOPE`). `eval` compiles
and runs the script and then, unless the script threw, runs the event loop until the
timer list is empty. The list is a *static*: the timers of all objects are in it,
and the loop of whichever `eval` is running expires all of them, with its own
isolate. `set` of a coderef makes a JavaScript function that calls `perl_caller`,
through which a script or a timer callback reaches Perl, and from there `eval`
again, `reset`, or `die`. A sub that died makes `perl_caller` croak, a `longjmp`
over the C++ frames of V8 and of `expire_timers`. A conversion can call back too: a
getter of the object that is converted runs JavaScript, a tied value runs Perl. Each
method measures itself, and a console call or an uncaught exception adds a line to the
object's messages, wherever in such a nest it happens. `reset` and `DESTROY` dispose
the isolate and do not look at the timer list.

What is hard, and which properties make each part correct:

* **Event loop.** A callback changes the list its caller is walking, and clears the
  very timer that runs. The list must stay sorted (`Sorted`), no timer may be lost
  (`NoLostTimer`), come back after it was cleared (`NoZombie`) or run twice in a
  round (`OncePerRound`), and a round must not leave a due timer behind
  (`RoundComplete`). Rounding to whole milliseconds must neither spin nor oversleep
  (`NoOversleep`). Intervals must not starve one-shots (`NoStarvation`), and `eval`
  must return (`EvalReturns`).
* **Reentrancy.** A nested `eval` runs the loop over the same list, the same
  `timer_expiring` and the same id counter (`NoEmptyCallback`,
  `ImplementsService`).
* **Life cycle.** No isolate may be disposed while an activation runs in it
  (`NotUnderfoot`); a callback must only run in the isolate that made it
  (`StaleOnlyIfAbandoned`, `ForeignOnlyIfNested`), and none in an object that is not
  complete (`QuietSetUp`).
* **Calls and records.** Subs and methods nest, and may be left by `croak` at any point.
  The Perl stack must be balanced again (`StackBalanced`), arguments must arrive
  (`OnlyCallsDisturbArguments`, `ArgumentsArrive`) and live as long as the sub
  (`ArgumentsAlive`); each time belongs to its own call (`StatsAreOfTheLastCall`), lines come in
  the order in which they were finished (`LinesInOrder`), and hashes that were given up stay as they
  were (`DetachedUnchanged`). Options mean the same in any order (`FlagsIgnoreOrder`).
* **Conversion.** Sharing and cycles must survive (`SharingKept`, `RoundTrip`), a
  cycle must not be converted for ever (`SetEnds`), and a sub must live as long as
  the function that calls it (`FuncAlive`). What the console prints of cyclic data must say
  which container is meant (`LogReadsBack`).
* **Property names.** A dotted name must mean its JavaScript expression
  (`WalkFollowsPath`), `get` must give what `set` wrote (`SetThenGet`), `remove` must
  leave only what is inherited (`RemoveThenExists`), and neither may change another
  name (`OnlyReadersChange`), in heaps that are cyclic, inherited and partly frozen, and
  also when the heap changes between the walk and the write (`SetLandsWhereAsked`).
  `instanceof` must be inheritance (`InstanceOfInherits`).

## 2. The modules

| Module | Models | Source lines |
|---|---|---|
| `EventLoop` | the timer list, the loop, the activations of `pl_eval` | `pl_eventloop.cc`, `pl_eval.cc:79-149`, `pl_inlined.cc:27-107` |
| `TimerService` | what the timer functions promise: a set of armed timers, at most one running | (abstract) |
| `EventLoopRefinement` | the refinement mapping from `EventLoop` to `TimerService` | |
| `Embedding` | objects, isolates, the methods and the event loop together | `V8Context.cc:25-226, 256-335` |
| `Records` | the options, the statistics and the messages of one object | `V8Context.cc:47-90, 236-254`, `pl_stats.cc`, `pl_console.cc:14-64` |
| `Calls` | methods, evals, subs and console calls on the C stack and the Perl stack, around `Records` | `pl_v8.cc:49-110, 162-224`, `pl_eval.cc`, `pl_console.cc:66-181`, `V8Context.cc:113-226` |
| `SubArguments` | whose count a temporary gives up: the arguments of `Calls` as plain values, functions and containers of them | `pl_v8.cc:39-45, 83-110, 136-224` |
| `Marshal` | the two conversions | `pl_v8.cc:18-48, 112-380` |
| `ConsoleText` | what the console writes of the data that `Marshal` has set | `pl_inlined.cc:114-130`, `pl_console.cc:108-117` |
| `PropertyPath` | the walk along a dotted name, and `get`, `exists`, `set`, `remove`, `instanceof` on it | `pl_v8.cc:365-481, 516-585` |
| `SequenceLemmas` | lemmas on sequences, on the largest and smallest of finite sets of numbers, and on least counterexamples, for all the proofs | |
| `EventLoopProof`, `RefinementProof`, `EmbeddingProof`, `RecordsProof`, `CallsProof`, `MarshalProof`, `PathProof` | theorems about `EventLoop`, `EventLoopRefinement`, `Embedding`, `Calls` with `Records` and `SubArguments`, `Marshal` with `ConsoleText`, and `PropertyPath` | |
| `MCEventLoop`, `MCEmbedding`, `MCCalls`, `MCMarshal`, `MCPropertyPath` | the small instances | |

### EventLoop

`timer_list` is the array up to `timer_count` (so the count is the length);
`timer_expiring` is the static slot, `Unused` when zeroed; `timer_next_id` is the
counter. `frames` is the C stack: one record for each activation of `pl_eval`, with
where it is (`pc`) and the locals that matter (`now` and `sanity` of
`expire_timers`, the time left in `poll()`). `clock` is `gettimeofday()`. `gone` and
`Frame.unserved` are history for the properties; nothing reads them.

The loop is cut where something else can happen: where user code runs (`script`,
`callback`), where the clock is read (`loop`, `wait`), between two timers of a round
(`round`) and in `poll()`. Everything between two cuts is one action, the trailing
work included: `Expire` moves the timer to the slot, sets the new target or the
removed mark and enters the callback; `Requeue` pushes the interval back *and*
bubbles it. A C++ `double` is an integer number of ticks or `NaN`, with NaN's
comparisons (`LE`, `GT`). Aborting (`fault = "abort"`), the write past the end of a full
list (`"overrun"`), calling an empty function and opening a function of another
isolate end the run: the C++ code has no defined continuation.

`BubbleStop` describes where `bubble_last_timer` ends instead of its swaps;
`PushAndBubble` inserts there. Console output and exception messages are left out.

### Embedding

Adds to `EventLoop` the isolate each object has, how often it is entered, the
isolate in which each timer was armed (`born`), the activations that run no loop
(`loopless`), and the timers left in the list when the last activation of their object ended with no loop
run to its end (`abandoned`; this and `born` are history). Each action is an action of `EventLoop` plus what the method around it does:
`Call` (`eval`, `dispatch`) enters, `Finish` and `Throw` leave the scope, `Jump` (croak) does not, because
`longjmp` runs no destructor. `Access` is `get`, `exists`, `typeof`, `instanceof`, `set` or `remove` when it runs a
getter, a setter, `Symbol.hasInstance` or the `FETCH` of a tied value: what runs there can do all that a script can,
but no `pl_eval` is around it, so `AccessReturn` leaves the timers it armed for the next loop of any object. A getter
that throws ends like one that returns, or croaks, or aborts the process where `ToChecked` meets the
exception (`AccessAborts`). The six methods are not told apart, so that each is given all that any of them can
run; when they run none of it, and in `global_objects` and `run_gc`, the scope is entered and left
with nothing between. `SetUp` includes the two inlined scripts, each with its
event loop: creating an object runs the pending timers of all others, before the
console is registered. `setup` says how far each object is: a callback that dies there
leaves the constructor (`JumpOutOfNew`) or, in a `reset`, an object that is marked as set up
and never completed (`JumpOutOfReset`).

### Records and Calls

`Records` holds what an object keeps for Perl: `stats` and `msgs` are sequences of
hashes, because Perl gets the hash itself and a reset gives the object a new one; only the last
is written. `timed` and `said` are history: the calls that ended and the lines that were
finished, each with the hash that was current. `Raised` is the constructor's `memcmp` over the
length of the *key*, for which any beginning of a name is as good as the name: an option is a record
of the names its key starts, the first of which decides. The empty key starts all four and raises
`gather_stats` only.

`Calls` EXTENDS it with the C stack. `frames` holds one record per activation: a method,
an eval, a `pl_eval` under `dispatch_function_in_event_loop`, a sub called from JavaScript, a
console call. `PL_stack_sp` is the interpreter's stack pointer, `sp` of a frame is
`perl_caller`'s copy in a local (`dSP`), `mark` and `floor` what `PUSHMARK` and `SAVETMPS` keep.
The steps are cut where other code may run: while a value is converted (`Converts`: a getter),
while a script or the loop runs, in the body of a sub. Time is counted in activations
and reports (`made`): a call takes as long as the number of calls and reports it contains, which
is enough to tell one measurement from another. `Croak` is `longjmp` to the body of the nearest sub, or to the
program: nothing of what it skips is recorded. `DispatchSyntaxError` is a `dispatch` whose text does not compile: it
reports and arms nothing, and its method still runs the loop.

### SubArguments

`SubArguments` EXTENDS `Calls` with the counts of the SVs that functions made from coderefs keep in their
`FuncData` (`refcnt`, one each to begin with), and with what is noted of each count that somebody is going to give
up (`uses`, past ones included): freeing the temporary `scalar` gives up count `n` of the function. `perl_caller`
makes each argument a temporary; an SV made for the call has a count for that, the SV of `FuncData` has none
(`FunctionArgument`), and in a container it is a temporary as well, the container having a count of its
own (`HolderArgument`). A `get` or `eval` that returns the function makes a temporary of it too, freed at the end of
Perl's statement (`FunctionResult`), and a croak frees what an unfinished conversion held
(`HalfConverted`). `FreeCounts` is `FREETMPS`. The other actions are those of `Calls`, unchanged.

### Marshal

A Perl value is a graph of nodes (array, hash, sub, reference to a scalar) with
leaves. `set` walks it with the map `p2j`, building `js`; `get` walks that with
`j2p`, building `perl`. The recursion of the code is `stack`, one record for each
container being filled; a step converts one value, and `Close` stores the finished
container in its parent. A JavaScript object is looked up in a `std::map` whose comparison
is by the address of the *handle slot*, which differs each time, so `MayMiss` lets a
map with two keys or more miss what it holds; `RoundTrip` shows that this can cost
sharing, never data. `func` counts references to each `FuncData`'s SV. An integer is
its value: `LongOf` is the `long` it is read into, `Width` bits wide, and `Double` the nearest
number with a mantissa of `Mantissa` bits. A hole ends the conversion of its array, and
`RoundTrip` asks for what precedes it (`Given`). `IsGraph` says which graphs are Perl data:
references to nodes that exist, integers that are signed or unsigned, no `null`, holes only
in arrays, and scalars that lead back to themselves are excluded by a rank that
every step to a scalar's value lowers. `Behind` follows such references to what
the code converts.

### ConsoleText

The replacer that `JSON.stringify` calls for each value: `seen` holds the containers in
the order of their numbers (a `WeakMap` and a counter in the code), `open` is the recursion of
`JSON.stringify`, `text` a list of tokens. `LogReadsBack` reads the tokens without `seen`, by counting
the containers that are opened, as a person reading the line would, and compares what
that means with the data.

### PropertyPath

A name is a sequence of segments, `Empty` where two dots meet. `heap` is what V8 keeps:
each object's own slots, its prototype, and whether it is frozen; `Has`, `Held`,
`Put` and `Drop` are V8's `Has`, `Get`, `Set` and `Delete` of one slot, as the code uses
them. `Parents` is the variable `parent` of `find_parent` at each turn of its loop, a recursive
function over the position in the name; `FindParent` is the last of them.
The methods are written as functions of a heap, so that the invariants can say what a
call *would* do in every heap that earlier calls and scripts build; `Set` and `RemoveSlot`
are the calls themselves, the rest of `Next` is what a script can do in between. `setting`
is a `set` whose value is tied: `SetTied` finds the parent, then the `FETCH` takes up to
`MaxFetch` of those steps, and `SetFetched` writes to the parent found before.
`Function` stands for the one class; `InstanceOf` follows prototypes, and answers "abort" where
`ToChecked` ends the process.
`SetThenGet` and `RemoveThenExists` leave out writes that cut the path they were found by
(`a.a` when `a` is the global object itself), as the JavaScript expression would too.

## 3. The runs

Passing runs:

| Run | Instance | Shows |
|---|---|---|
| `EventLoop` | one object, 3 slots, 4 timers, `MAX_EXPIRIES` 2, clock to 3, `eval` nested in scripts (depth 2) | type, order, no loss, no zombie, no empty callback, once per round, complete rounds; the loop implements `TimerService` |
| `ClockTicks` | half-millisecond ticks, clock may step back, subs may die, 2 timers, clock to 7 | `poll()` waits at least 1 ms and never passes a target by more; no zombie, complete rounds |
| `LoopLiveness` | one object, 3 timers, `MAX_EXPIRIES` 1 | `NoStarvation`, `EvalReturns` under fairness |
| `Embedding` | two interchangeable objects, 3 isolates, depth 2, 2 timers, subs may die | isolates are not disposed underfoot; stale and foreign callbacks, and callbacks during `set_up`, have only these causes: the timer was left by a script that threw, by a sub that died, or by a getter or the like in a method that runs no loop; or objects are nested |
| `Calls` | 4 activations and reports, 4 deep, subs of up to 2 arguments, one method, one reset of each hash, with and without `gather_stats` and `save_messages`; without them, also one function made from a coderef as argument and result, with up to 4 counts to be given up | the Perl stack is balanced, arguments stay in their place, their temporaries live as long as the sub, and a function that is an argument as long as no other use of it ends; times and lines are in the right place and hash, options mean the same in every order |
| `Marshal` | every graph of two nodes with up to two values each, every graph of three arrays, every integer of 5 bits alone and behind a reference | conversions end, keep sharing and data; the console's text reads back |
| `PropertyPath` | the global object, `Object.prototype`, `Object` and one more, two slot names, names of up to three segments, heaps of up to three own slots, one step in a `FETCH` | the six properties of names |

Violation runs: each states what a comment or the documentation says, and TLC finds
a behaviour of the code that contradicts it.

| Run | Property | What happens |
|---|---|---|
| `ReenteredCallback` | `NoEmptyCallback` | a callback reaches `eval` through a Perl sub; the nested round zeroes `timer_expiring`; the outer round queues the zeroed slot back and calls its empty function (`pl_eventloop.cc:158`, comment at 119) |
| `NaNPoll` | `ClampingFits` | `setInterval(f, NaN)`: neither bound of the clamp applies, and `(int) NaN` is undefined (`pl_eventloop.cc:187`) |
| `StaleAfterReset` | `NoStaleCallback` | a timer left by a script that threw, or armed by a getter in `get`, survives `reset`, and its function is opened in the new isolate (`V8Context.cc:319`) |
| `LostArguments` | `ArgumentsArrive` | a getter of a later argument calls another sub, which starts on the stack where this one did and overwrites the arguments already pushed (`pl_v8.cc:87`) |
| `ReleasedSub` | `FuncAlive` | `get` of a function made from a sub returns its SV without counting it, and a later call of the function finds it freed (`pl_v8.cc:143`) |

Known behaviours that the models contain and no run of its own shows: a NaN target
breaks the order of the list (`bubble_last_timer` swaps past every timer), which is why the
proofs about order assume numeric delays; the SV that `ReleasedSub` is about is also passed to subs
without a count, so that it is freed when the sub returns, and under an outer sub that was passed it and still runs (the
exception in `ArgumentsAlive`); a full list makes an interval be written
past its end after the error is reported (`RequeueOverrun`); a script that throws
returns from `eval` with its timers armed (`ScriptThrow`, and `abandoned` in
`Embedding`); a sub that dies under an interval's callback loses the interval (`Die`);
two objects that nest run each other's timers (`foreign_callback`);
`clearTimeout(0)` between callbacks matches the zeroed slot and returns true;
`set` on a name whose parent is missing, and `remove` of what `var` declared or of a frozen
slot, do nothing and report nothing (`SetName`, `Kept`), although XS.pm's synopsis sets
`my.object.slot` in a new object; an array loses what follows its first hole (`Finished`);
`instanceof` with a class that is not callable aborts the process (`InstanceOf`); an object whose `reset` was
left by a croak has no console (`setup = "half"`); a croak leaves a call out of the statistics (`Croak`);
unsigned integers above the signed ones come back negative (`LongOf`).

### Bounds

`MaxId`, `MaxClock`, `MaxDepth`, `MaxIsolates`, `MaxEntered`, `MaxContainers`, `MaxArgs`,
`MaxMade`, `MaxUses`, `MaxResets`, `MaxSegments`, `MaxSlots`, `TiedNames` and `MaxFetch` are the only bounds
that are not in the code; `Width` and `Mantissa` are its 64 and 53, made small. The list is full at 2 or 3 timers instead of 4096 and a
round stops after 1 or 2 instead of 10, so the cases at the limits happen in
every run. Four ids give a cleared timer, its successor in the same slot, an interval
and one that a callback adds. Delays are at and above the minimum, so equal targets,
overtaking and overdue timers occur. The clock stops at `MaxClock`, while the
time in `poll()` does not, so the last wait ends; liveness is stated for timers due
within the bound. Depth 2 is the smallest with a nested loop; a deeper
stack repeats it. Three isolates are two objects and one `reset`. In `Marshal` two
nodes give self-reference, mutual cycles, sharing and nesting of every pair of kinds; the three
arrays give longer cycles, and look-ups that miss. Scalars that lead back to themselves
are left out: the code recurses until the stack is gone. In `PropertyPath` three own
slots are a path, a slot at its end and one that it shadows in the prototype; three
segments go through an object twice; one step of a `FETCH` is enough to redirect a name of
two segments. Five bits with a mantissa of three have integers that fit both types, that are rounded,
tied and that wrap. In `Calls` four activations are a method whose getter calls a sub that calls the
method again, with one more at any level; two arguments are one pushed and one under way; with one
reset a call can begin before it and end after it. Four counts are those of a
function that is an argument, in a container that is an argument, and a result. `CountsOrRecords` follows them only in an
object that keeps no times and no lines and is not reset: no count depends on what the records hold.

### Fairness

`EventLoop!Fairness` asks for weak fairness of the steps of the one thread: the
script and the callbacks terminate (a script that loops for ever keeps any program from
returning), the loop's own steps are taken, and time passes. No fairness is
asked of Perl calling `eval` or of signals that interrupt `poll()`. In `Marshal` weak
fairness of the whole step is enough, the console's text included: the conversion is sequential.

## 4. What is proved

TLAPS proves the following for every value of the constants that the named
assumptions of the modules admit: any number of slots, ids, objects, isolates, ticks,
activations and arguments, any options, any graph of Perl data, any JavaScript heap and names of any
length.

| Theorem | States | Needs |
|---|---|---|
| **`EventLoopProof`** | | |
| `TypeCorrect` | `Spec => []TypeOK` | nothing more |
| `ListSorted` | `Spec => []Sorted` | delays are numbers |
| `NoTimerRevived` | `Spec => []NoZombie` | callbacks do not reach `eval` |
| `NoEmptyFunction` | `Spec => []NoEmptyCallback` | callbacks do not reach `eval` |
| `NoTimerLost` | `Spec => []NoLostTimer` | the same, and Perl subs do not die |
| `NeverOversleeps` | `Spec => NoOversleep` | delays are numbers |
| `RoundsComplete` | `Spec => RoundComplete` | delays are numbers |
| `RunOncePerRound` | `Spec => OncePerRound` | delays are numbers, callbacks do not reach `eval`, the clock does not go back |
| **`RefinementProof`** | | |
| `LoopImplementsService` | `Spec => ImplementsService` | all of these, and one object |
| **`EmbeddingProof`** | | |
| `NeverUnderfoot` | `EmbeddingSpec => []NotUnderfoot` | nothing more |
| `ObjectsTyped` | `EmbeddingSpec => []EmbeddingTypeOK` | callbacks do not reach `eval` |
| `SetUpIsQuiet` | `EmbeddingSpec => []QuietSetUp` | the same |
| `StaleNeedsAbandoned` | `EmbeddingSpec => []StaleOnlyIfAbandoned` | the same |
| `ForeignNeedsNesting` | `EmbeddingSpec => []ForeignOnlyIfNested` | the same |
| **`CallsProof`** | | |
| `CallsTypes` | `CallsSpec => []CallsTypeOK` | nothing more, here and below |
| `StackIsBalanced` | `CallsSpec => []StackBalanced` | |
| `ArgumentsStayAlive` | `SubArgumentsSpec => []ArgumentsAlive` | |
| `OnlyCallsDisturb` | `CallsSpec => []OnlyCallsDisturbArguments` | |
| `StatsOfTheLastCall` | `CallsSpec => []StatsAreOfTheLastCall` | |
| `LinesStayInOrder` | `CallsSpec => []LinesInOrder` | |
| `FlagsAreUnordered` | `CallsSpec => []FlagsIgnoreOrder` | |
| `DetachedStayUnchanged` | `CallsSpec => DetachedUnchanged` | |
| **`MarshalProof`** | | |
| `HeapsTyped` | `TextSpec => []TypeOK` | |
| `SharingIsKept` | `TextSpec => []SharingKept` | |
| `RoundTrips` | `TextSpec => []RoundTrip` | no scalar leads back to itself (`IsGraph`) |
| `LogsReadBack` | `TextSpec => []LogReadsBack` | the same |
| **`PathProof`** | | |
| `WalksFollowPaths` | `Spec => []WalkFollowsPath` | |
| `GetGivesWhatWasSet` | `Spec => []SetThenGet` | |
| `RemovedIsGone` | `Spec => []RemoveThenExists` | |
| `OnlyReadersAreChanged` | `Spec => []OnlyReadersChange` | |
| `SetsLandWhereAsked` | `Spec => SetLandsWhereAsked` | |
| `InstancesInherit` | `Spec => []InstanceOfInherits` | |

The extra assumptions are hypotheses of the theorems, on constants that say what the
environment does. Numeric delays, subs that live and callbacks that stay away from `eval` are
conditions a program can meet, and without them the code does the contrary
(section 3). The hypothesis on callbacks in `EmbeddingProof` is
there because a reentered round may lose and double ids, on which all it says of timers rests.

The argument, invariant by invariant:

* *Types* (`TypeOK`). It is inductive. The interesting step is the insertion, which
  `SequenceLemmas` reduces to facts on `InsertAt` and `RemoveAt`; the list is never
  longer than `MAX_TIMERS` because each insertion tests it.
* *Order* (`SortedInv`: types, `Numeric`, `Sorted`). `BubbleStop` puts the new timer
  behind every timer that is not before it and in front of the rest, so insertion keeps the order;
  this needs `LE` to be total, which is where NaN is excluded. `RoundsComplete` follows:
  when the last timer is not due, none is. `NeverOversleeps` too: the wait is computed from the
  last timer, and rounding a time of at least a millisecond down to whole milliseconds
  (`WholeMs`) leaves a millisecond at least.
* *Identity* (`IdInv`). `NoZombie` is not inductive. The strengthening says that every
  activation below the innermost is suspended in its script (`ScriptsBelow`, which is what
  excluding reentrant callbacks gives), that listed timers have distinct ids that were
  given out, are not gone and not marked removed, and have a function (`AllWaiting`), that the
  slot holds a copy of a listed timer only between an interval's callback and the next step of
  the round (`ExpiringApart`), and that the timer whose callback runs is marked exactly when it
  is gone (`RunningOne`). Then `CallbackReturn` drops what is gone and `Requeue` only queues
  back what is not. `NoEmptyFunction` follows because a zeroed slot is never listed.
* *No loss* (`KeepInv`). `IdInv` with `NoLostTimer` itself, which is inductive relative to it.
* *Once per round* (`OnceInv`). During a round `now` is at most `clock`, and a listed timer that is
  due by `now` was listed when the round began and has not run since (`RoundInv`): a timer
  armed or re-armed meanwhile has a target after `now`, because every delay is at least
  one tick (`PositiveDelays`).

* *Refinement* (`LoopImplementsService`). `OnceInv`, which has all the others in it, tells what each
  action is to the service: `AddTimer` arms, `DeleteListed` clears, `DeleteExpiring` clears what
  runs, `Expire` fires, `CallbackReturn` and `Requeue` return, `Tick` advances, the two ends at a
  full list exhaust it, and the rest stutters (`ArmStep` to `TickStep`, collected in `EveryStep`).
  The order of the list makes the timer that fires the earliest; distinct ids make the set `Armed` as
  large as the list, so the list is full when the service's slots are. `NoTimerAssumption` only says that
  the mark for "nothing runs" is not a timer.
* *Isolates* (`UnderInv`). Every object has at least as many entries as activations (`Sheltered`).
  A croak leaves entries too many, never too few, and `reset` and `DESTROY` only go on when there is
  none: V8 aborts otherwise.
  Counting the activations of one object in a sequence that grows and shrinks is the work
  (`ActivationsOf`), not the induction. It needs no hypothesis.
* *Timers and isolates* (`EmbeddingInv`: `IdInv`, `UnderInv` and `History`). Every timer that is listed
  or running was abandoned, or its object has an activation and still the isolate the timer was
  armed in (`Attached`). It is kept because a loop that ends in order leaves no
  timer, a script that throws, a croak or a method that runs no loop marks as abandoned what it leaves, and a
  reset finds nobody in the object. An activation in `loopless` stays in its script until it
  returns (its part of `EmbeddingTypeOK`), so it never gets to the loop by itself. An object under construction is the innermost activation
  (`SetUpOnTop`), and no timer has been armed in its new isolate (`NewIsolateQuiet`); so a callback there is an
  abandoned one.
* *The Perl stack* (`StackInv`). Each activation's mark, floor and first temporary are
  what the activations below leave (`Chained`, `Below`), and the interpreter's registers are what the
  activation on top leaves (`Balanced`). Then cutting the stack at any point, which is what a
  return and a croak over any number of activations do, restores them (`CutChain`, `CutStep`), and
  `StackBalanced` follows. A sub's arguments are above the floors of all activations below and under those
  of all above (`EndsOrdered`), so a `FREETMPS` frees only its own (`Alive`, `ArgumentsHeld`). `Written` says which
  cells hold the arguments already pushed: those pushed since the last sub that was called
  meanwhile. `Reach` bounds the stack pointer by the number of activations.
* *Arguments* (`ArgumentsInv`: `StackInv`, `UsesOK` and `CountsOK`). A function has a count left unless
  one of its uses ended: whatever takes a count away either frees a temporary that was noted, or notes
  a use that is over. The work is that a use, once over, stays so (`FreedStays`): the ids of activations are never used
  twice (`KnownStays`, from `StackOutgrown`: a stack only grows new ids), and of an argument nothing is noted before it is
  pushed (`Known`, `PushedFacts`), so no later temporary is taken for one that was freed.
* *Records* (`RecordsInv`). The hashes are what the history says: each name maps to the last call
  that ended under it, each list to the lines that were finished, in order. A call is in the
  history of the hash that was current when it *ended*; this makes resets in the middle of a call
  harmless. `FlagsIgnoreOrder` is shown by writing the constructor's fold as a union (`RecordsProof`), with the least length
  at which the two would differ.
* *Data* (`HeapInv`). Both images only grow, and everything seen refers to something in them. A container
  that is opened gets the next index of the image, which is in no pair of `p2j`, and is opened
  only when its node is in no pair either; so `p2j` stays one-to-one, in both directions.
* *Round trip* (`TripInv`). Both conversions are the same walk (`Walk`), of one graph into another,
  and the lemmas about it (`WalkOpens`, `WalkTakes`, `WalkPops`, `WalkStores`, `WalkGrows`) do not know
  which. A container that is seen and no longer on the stack holds what all its values have become
  (`Closed`); one on the stack holds what those before the current one have (`Rests`, `Busy`), and the
  current value is what leads to the container above it (`Frames`); what is returned at the end is what
  the root has become (`AtRoot`). What a value may become (`Becomes`, `BecomesBack`) refers to the
  pairs seen, so it only widens, and the walk never asks a node to have one image only: that is why a
  look-up that misses does no harm. `Composes` puts the two together, `LeafFacts` and `DoubleIsExact`
  are the leaves and numbers, and `BehindFacts`, by induction along the rank, the scalars. That a
  long holds 1 is an assumption (`1 < 2 ^ (Width - 1)`), because the provers cannot compute
  powers; TLC evaluates it.
* *The text* (`LogInv`). `LogReadsBack` speaks of a finished text; `Logged` says the same of one that
  is being written. Every container that was numbered has one opening token (`Numbered`). From there on
  either all its values are told and a token closes it (`Whole`), or it is open, at the depth of
  its place in `open`, and the tokens just inside it tell the values before the next one (`Part`,
  `Tells`). A token changes nothing of what was read before it (`Follows`, `TellsOn`), and it is just
  inside the innermost container only, because the depth there is the length of `open`; so
  it tells one container its next value (`Entered`) and the others nothing (`Stays`). A value that was met
  before is found under the number of its opening (`NumberFacts`), and that number never changes. That
  the values are references to objects and leaves with a token of their own comes from the invariant of
  the conversion (`Made`, `WrittenFacts`). `InOrder` lists a set of numbers by their ranks and is used in place
  of a sort, whose definition the provers do not have (`RankExists`, `InOrderAdds`).
* *Names* (`PathInv`). The invariant is about the heap only (`HeapOK`): what slots hold is in the heap,
  and there is a rank that every prototype lowers, so a chain of prototypes ends although the
  references between objects may be cyclic. A new object is ranked above all others. The recursive
  functions (`Holder`, `Consulted`, `Ancestors`, `Parents`) are first shown to exist (`Recursion`, by the
  least rank to which none does); then they are known from one step to the next (`HolderUnfolds`
  to `ParentsUnfold`), and the rest is induction along the rank or the segments, over sets
  (`PrototypeInduction`, `SegmentInduction`). All about writes is locality: a heap that differs in one
  slot (`SameBut`) looks the same to a name whose evaluation does not look at that slot
  (`LookedUpElsewhere`, `WalksElsewhere`, `MeansElsewhere`). For `remove`, what the prototypes of an object
  hold does not depend on the object (`LooksUpwards`).

So every invariant and action property of the passing runs is proved. Only model-checked:
liveness (`NoStarvation`, `EvalReturns`, `SetEnds`), which is out of the
prover's reach. The violation runs need no proof: each is a behaviour.

## 5. What is not modelled

* `ppport.h` (8641 lines, three quarters of the repository) is generated by Devel::PPPort and
  vendored: macros that give older Perls the names of newer ones. It is none of this
  program's own logic, and any share of the code that counts it stays low. Of the other C++
  files the models cover about three fifths; the rest is mostly tables of V8 type flags,
  disabled code, includes and comments.
* Data files, platform initialisation and the version hash of `V8Context.cc` run once and keep
  no state that the rest reads. The limits on memory and time are read from the options and,
  as `V8Context.h:60-61` says, not used.
* Native functions print, or return a constant or the clock. `ReportException` and the console's
  wording are text; so are the kinds that `typeof` names, and `parse_js_stacktrace`, which
  reads files. `global_objects` lists the slots of one object.
* Getters and proxies in a walk of `find_parent`, and its `create` flag, which only `set_up`
  uses, on a heap no script has touched.
* The Perl stack growing, and so moving, under `perl_caller`'s pointer into it; the
  iterator that `pl_perl_to_v8` shares with the hash it converts; scalars that lead back to themselves, for which the conversion does not end.
* Strings and keys are carried as they are: no text encoding (`SvUTF8_on` on the caller's own key and value), and no
  NUL, at which `set` cuts a string or a key (`pl_v8.cc:246`, `326` ask for the length and do not pass it on). In
  `ConsoleText` a string is never one of the replacer's own words: a leaf `"<cycle0>"` reads like a reference to the
  first container. Nor does an object have a `toJSON`, which `JSON.stringify` would call first.
* `create_timer` and `delete_timer` with a wrong number of arguments, which abort the process (`pl_eventloop.cc:230`,
  `278`): the inlined `setTimeout` and its like always pass the right number, and a script that calls
  `EventLoop.createTimer` past them is left out.
* In `SubArguments` a container holds one function, once; a croak leaves one container half made; Perl code keeps no
  count of its own of an argument (a reference that a sub takes and stores) or of a result's container; and what is done
  with an SV that was freed is not defined: the count just goes on below zero.
* Perl writing into the hashes that `get_stats` and `get_msgs` give it: `save_stat` croaks and
  `save_msg` drops the line when an entry is not what they put there.
* V8's garbage collector, its compiler and the semantics of JavaScript are the environment: a
  script is any sequence of the calls it can make.

## 6. Plan

Done, in this order: `EventLoop` with its abstract service and proofs, `Embedding`,
`Marshal`, `PropertyPath`; then `Records`, `Calls`, `ConsoleText`, tied values and `instanceof`, and
the objects that are half set up; then the refinement of `TimerService` and the
invariants of `Calls`, `Records`, `Embedding`, `Marshal`, `PropertyPath` and `ConsoleText`; then the methods that run JavaScript outside the loop
(`Access` in `Embedding`) and the counts of the arguments (`SubArguments`). All of the
plan is done. What could still be modelled is in section 5: a stack of Perl that moves and the
iterator of the caller's hash come first.
