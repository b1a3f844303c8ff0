---------------------------- MODULE PropertyPath ----------------------------
(***************************************************************************)
(* The methods of pl_v8.cc that take a dotted name (get, set, remove,      *)
(* exists, instanceof) over a small JavaScript heap.  find_parent walks the*)
(* name from the global object; scripts change the heap between calls.     *)
(* What V8 does with one slot (prototypes, frozen objects, slots that var  *)
(* declared) is the environment, as the code relies on it.                 *)
(***************************************************************************)
EXTENDS Integers, SequencesExt

CONSTANTS
    Slots,       \* names of slots
    Empty,       \* a segment of length zero, as in "a..b" or ""
    Global,      \* the global object
    Root,        \* Object.prototype
    Function,    \* the function Object, whose prototype is Root
    Others,      \* the other objects, made by scripts and by set
    Nowhere,     \* no object
    Leaves,      \* values that are not objects
    Undefined,
    MaxSegments, \* bound: segments of a name
    MaxSlots,    \* bound: own slots in the heap
    TiedNames,   \* bound: the names that are set to a tied value
    MaxFetch     \* bound: steps of the FETCH of a tied value

ASSUME PathAssumption ==
    /\ Empty \notin Slots /\ Undefined \notin Leaves
    /\ Cardinality({Global, Root, Function, Nowhere}) = 4
    /\ {Global, Root, Function, Nowhere} \cap Others = {}
    /\ {MaxSegments, MaxSlots} \subseteq Nat \ {0} /\ MaxFetch \in Nat

\* A name split at its dots.
Names == UNION {[1 .. n -> Slots \cup {Empty}] : n \in 1 .. MaxSegments}

PlainNames == {name \in Names : Empty \notin Range(name)}

ASSUME TiedAssumption == TiedNames \subseteq Names

Leaf(l) == [leaf |-> l]
Ref(o) == [to |-> o]
IsRef(v) == "to" \in DOMAIN v

VARIABLES
    heap,    \* own slots, prototype and whether it is frozen, of each object
    setting  \* the call of set whose value is being fetched, or NotSetting

vars == <<heap, setting>>

Objects(h) == DOMAIN h.own
NotSetting == [left |-> -1]
Fetching == setting # NotSetting

\* What JavaScript comes with is not changed here, save Object.prototype.
Init ==
    /\ heap = [own    |-> [o \in {Global, Root, Function} |-> <<>>],
               proto  |-> [o \in {Global, Root, Function} |->
                             IF o = Root THEN Nowhere ELSE Root],
               frozen |-> {Function}]
    /\ setting = NotSetting
----------------------------------------------------------------------------
(* One slot: Object::Has, Get, Set and Delete of V8. *)

\* The function f with a mapped to b.
With(f, a, b) == [x \in DOMAIN f \cup {a} |-> IF x = a THEN b ELSE f[x]]

\* The object that holds s, o itself or the nearest of its prototypes.
Holder(h, o, s) ==
    LET up[p \in Objects(h) \cup {Nowhere}] ==
            IF p = Nowhere \/ s \in DOMAIN h.own[p] THEN p ELSE up[h.proto[p]]
    IN  up[o]

Has(h, o, s) == Holder(h, o, s) # Nowhere
Held(h, o, s) == h.own[Holder(h, o, s)][s].value

\* A frozen object keeps its slots, also from those that inherit them.
Writable(h, o, s) == {o, Holder(h, o, s)} \cap h.frozen = {}

\* A slot that may not be written is left as it is, and no error is raised.
Put(h, o, s, v) ==
    IF ~ Writable(h, o, s) THEN h
    ELSE IF s \in DOMAIN h.own[o] THEN [h EXCEPT !.own[o][s].value = v]
    ELSE [h EXCEPT !.own[o] = With(@, s, [value |-> v, fixed |-> FALSE])]

Kept(h, o, s) == s \in DOMAIN h.own[o] /\ (h.own[o][s].fixed \/ o \in h.frozen)

Drop(h, o, s) ==
    IF Kept(h, o, s) THEN h
    ELSE [h EXCEPT !.own[o] = Restrict(@, DOMAIN @ \ {s})]

Made(h, o, p) == [own |-> With(h.own, o, <<>>), proto |-> With(h.proto, o, p),
                  frozen |-> h.frozen]
----------------------------------------------------------------------------
(* The walk. *)

\* Mutant: an empty segment is passed over.
ParentsPassing(h, name) ==
    LET parent[k \in 1 .. Len(name)] ==
            IF k = 1 THEN Global
            ELSE LET o == parent[k - 1]
                     s == name[k - 1]
                 IN  IF o # Nowhere /\ s = Empty THEN o
                     ELSE IF o # Nowhere /\ Has(h, o, s) /\ IsRef(Held(h, o, s))
                     THEN Held(h, o, s).to ELSE Nowhere
    IN  parent

\* parent at each turn of the loop of find_parent: the object that should hold
\* segment k, or Nowhere once the loop has given up.
Parents(h, name) ==
    LET parent[k \in 1 .. Len(name)] ==
            IF name[k] = Empty THEN Nowhere
            ELSE IF k = 1 THEN Global
            ELSE LET o == parent[k - 1]
                     s == name[k - 1]
                 IN  IF o # Nowhere /\ Has(h, o, s) /\ IsRef(Held(h, o, s))
                     THEN Held(h, o, s).to ELSE Nowhere
    IN  parent

\* find_parent, without create: the object that should hold the last segment.
FindParent(h, name) == Parents(h, name)[Len(name)]

\* find_object, and with it exists; get and typeof of what was not found give
\* undef and "undefined".
Exists(h, name) ==
    LET o == FindParent(h, name) IN o # Nowhere /\ Has(h, o, Last(name))
Value(h, name) ==
    IF Exists(h, name) THEN Held(h, FindParent(h, name), Last(name))
    ELSE Leaf(Undefined)

\* Mutant: a slot that is there keeps its value.
SetNameMissing(h, name, v) ==
    LET o == FindParent(h, name)
    IN  IF o = Nowhere \/ Exists(h, name) THEN h ELSE Put(h, o, Last(name), v)

\* Mutant: what find_parent returns is not looked at, and the parent it was
\* given still is the global object.
SetNameAnyway(h, name, v) ==
    LET o == FindParent(h, name)
    IN  Put(h, IF o = Nowhere THEN Global ELSE o, Last(name), v)

\* set: nothing is done, and nothing reported, when there is no parent.
SetName(h, name, v) ==
    LET o == FindParent(h, name)
    IN  IF o = Nowhere THEN h ELSE Put(h, o, Last(name), v)

\* Mutant: the slot is set to undefined, not deleted.
RemoveNameSets(h, name) ==
    LET o == FindParent(h, name)
    IN  IF o = Nowhere THEN h ELSE Put(h, o, Last(name), Leaf(Undefined))

\* remove: a slot that cannot be deleted is left, and nothing is reported.
RemoveName(h, name) ==
    LET o == FindParent(h, name)
    IN  IF o = Nowhere THEN h ELSE Drop(h, o, Last(name))

\* The prototypes of an object.
Ancestors(h, o) ==
    LET up[p \in Objects(h) \cup {Nowhere}] ==
            IF p = Nowhere THEN {} ELSE {p} \cup up[h.proto[p]]
    IN  up[h.proto[o]]

\* Mutant: the object itself is compared with the prototype of the class.
InstanceOfSelf(h, oname, cname) ==
    IF ~ Exists(h, oname) \/ ~ Exists(h, cname) THEN "no"
    ELSE IF Value(h, cname) # Ref(Function) THEN "abort"
    ELSE IF Value(h, oname) = Ref(Root) THEN "yes" ELSE "no"

\* instanceof: the class is looked up after the object, and ToChecked aborts
\* when JavaScript throws because the class is not a function.
InstanceOf(h, oname, cname) ==
    IF ~ Exists(h, oname) \/ ~ Exists(h, cname) THEN "no"
    ELSE IF Value(h, cname) # Ref(Function) THEN "abort"
    ELSE IF IsRef(Value(h, oname)) /\ Root \in Ancestors(h, Value(h, oname).to)
    THEN "yes" ELSE "no"
----------------------------------------------------------------------------
(* The calls of Perl and the steps of scripts. *)

Size(h) == Cardinality({p \in Objects(h) \X Slots : p[2] \in DOMAIN h.own[p[1]]})
\* A set that is under way still needs a slot.
Becomes(h) == Size(h) + (IF Fetching THEN 1 ELSE 0) <= MaxSlots /\ heap' = h

\* set finds the parent and then converts the value.  That of a tied scalar is
\* fetched by Perl code, which may run scripts and call methods.
SetTied(name) ==
    /\ ~ Fetching /\ Size(heap) < MaxSlots
    /\ FindParent(heap, name) # Nowhere
    /\ \E l \in Leaves :
          setting' = [left |-> MaxFetch, name |-> name, parent |-> FindParent(heap, name),
                      value |-> Leaf(l)]
    /\ UNCHANGED heap

\* Mutant: the parent is looked up after the conversion.
SetFetchedAgain ==
    /\ Fetching
    /\ heap' = SetName(heap, setting.name, setting.value)
    /\ setting' = NotSetting

\* The slot of the object that was the parent when set was called is written.
SetFetched ==
    /\ Fetching
    /\ heap' = Put(heap, setting.parent, Last(setting.name), setting.value)
    /\ setting' = NotSetting

\* The value is a leaf, or a hash, which is converted to a new object.
Set(name) ==
    \/ \E l \in Leaves : Becomes(SetName(heap, name, Leaf(l)))
    \/ \E o \in Others \ Objects(heap) :
          /\ FindParent(heap, name) # Nowhere
          /\ Becomes(SetName(Made(heap, o, Root), name, Ref(o)))

RemoveSlot(name) == Becomes(RemoveName(heap, name))

\* Object.create(p) stored in a slot; p may be null.
Create(o, s) ==
    \E new \in Others \ Objects(heap), p \in Objects(heap) \cup {Nowhere} :
        Becomes(Put(Made(heap, new, p), o, s, Ref(new)))

Assign(o, s) ==
    \E v \in {Leaf(l) : l \in Leaves} \cup {Ref(p) : p \in Objects(heap)} :
        Becomes(Put(heap, o, s, v))

\* var: the slot cannot be deleted.
DeclareVar(s) ==
    /\ s \notin DOMAIN heap.own[Global]
    /\ Becomes([heap EXCEPT !.own[Global] =
                    With(@, s, [value |-> Leaf(Undefined), fixed |-> TRUE])])

Freeze(o) == o # Global /\ Becomes([heap EXCEPT !.frozen = @ \cup {o}])

Step ==
    \/ \E name \in Names : Set(name) \/ RemoveSlot(name)
    \/ \E o \in Objects(heap) :
          Freeze(o) \/ \E s \in Slots : Create(o, s) \/ Assign(o, s)
    \/ \E s \in Slots : DeclareVar(s)

\* Between calls, or from the FETCH of a tied value.
Change ==
    /\ Step
    /\ setting.left # 0
    /\ setting' = IF Fetching THEN [setting EXCEPT !.left = @ - 1] ELSE setting

Next ==
    \/ Change
    \/ \E name \in TiedNames : SetTied(name)
    \/ SetFetched

Spec == Init /\ [][Next]_vars
----------------------------------------------------------------------------
(* Properties.  The invariants are about what a call would do to any heap    *)
(* that scripts and earlier calls can build.                                 *)

\* The slots that JavaScript looks at to read s from o.
Consulted(h, o, s) ==
    LET up[p \in Objects(h) \cup {Nowhere}] ==
            IF p = Nowhere THEN {}
            ELSE {<<p, s>>} \cup (IF s \in DOMAIN h.own[p] THEN {} ELSE up[h.proto[p]])
    IN  up[o]

\* Those it looks at to evaluate the first n segments of a name.
ReadFor(h, name, n) ==
    UNION {LET o == Parents(h, name)[k]
           IN  IF o = Nowhere THEN {} ELSE Consulted(h, o, name[k]) : k \in 1 .. n}

Reads(h, name) == ReadFor(h, name, Len(name))

\* The way to the parent does not read the slot that is written, as a.a does
\* when a is the global object itself.
Aside(h, name) ==
    <<FindParent(h, name), Last(name)>> \notin ReadFor(h, name, Len(name) - 1)

\* exists finds what the JavaScript expression of the name would find: there
\* is a path of objects from the global object along its segments.
WalkFollowsPath ==
    ~ Fetching =>
      \A name \in Names :
          Exists(heap, name) <=>
              /\ Empty \notin Range(name)
              /\ \E path \in [1 .. Len(name) -> Objects(heap)] :
                    /\ path[1] = Global
                    /\ \A k \in 1 .. Len(name) : Has(heap, path[k], name[k])
                    /\ \A k \in 1 .. Len(name) - 1 :
                          Held(heap, path[k], name[k]) = Ref(path[k + 1])

\* After set, get gives the value that was set, whatever the slot inherits or
\* held before, if it may be written and the way to it does not read it.
SetThenGet ==
    ~ Fetching =>
      \A name \in Names, l \in Leaves :
          LET o == FindParent(heap, name)
          IN  o # Nowhere /\ Writable(heap, o, Last(name)) /\ Aside(heap, name) =>
                  /\ Exists(SetName(heap, name, Leaf(l)), name)
                  /\ Value(SetName(heap, name, Leaf(l)), name) = Leaf(l)

\* After remove, a name exists only if its slot is inherited: what remove
\* uncovers in a prototype is still there.
RemoveThenExists ==
    ~ Fetching =>
      \A name \in Names :
          LET o == FindParent(heap, name)
              s == Last(name)
          IN  o # Nowhere /\ ~ Kept(heap, o, s) /\ Aside(heap, name) =>
                  (Exists(RemoveName(heap, name), name) <=>
                      heap.proto[o] # Nowhere /\ Has(heap, heap.proto[o], s))

\* set and remove change a name only if reading it looks at the one slot that
\* they wrote: they never reach into a prototype, and create no parents.
OnlyReadersChange ==
    ~ Fetching =>
      LET changed(name) == {RemoveName(heap, name)} \cup
                           {SetName(heap, name, Leaf(l)) : l \in Leaves}
          changes == UNION {{<<FindParent(heap, name), Last(name)>>} \X (changed(name) \ {heap}) :
                               name \in Names}
      IN  \A other \in PlainNames :
              LET read == Reads(heap, other)
              IN  \A c \in changes :
                      c[1] \notin read =>
                          /\ Exists(c[2], other) = Exists(heap, other)
                          /\ Value(c[2], other) = Value(heap, other)

\* A set whose value is being fetched writes where its name led when set was
\* called: if the name leads there still, get gives the value, and if scripts
\* have redirected the name meanwhile, what it names now is left alone.
SetLandsWhereAsked ==
    [][Fetching /\ ~ Fetching' =>
          LET name == setting.name
              o == FindParent(heap, name)
          IN  IF o = setting.parent
              THEN Writable(heap, o, Last(name)) /\ Aside(heap, name)
                       => Value(heap', name) = setting.value
              ELSE <<setting.parent, Last(name)>> \notin Reads(heap, name)
                       => /\ Exists(heap', name) = Exists(heap, name)
                          /\ Value(heap', name) = Value(heap, name)]_vars

\* instanceof says yes to an object exactly if it inherits: if a slot that
\* nobody has were added to the class's prototype, it would have it.
InstanceOfInherits ==
    ~ Fetching =>
      LET fresh == [heap EXCEPT !.own = [o \in Objects(heap) |->
                       IF o = Root THEN [s \in Slots |-> [value |-> Leaf(Undefined), fixed |-> TRUE]]
                       ELSE <<>>]]
      IN  \A oname, cname \in {name \in Names : Len(name) <= 2} :
              LET answer == InstanceOf(heap, oname, cname)
                  v == Value(heap, oname)
              IN  Exists(heap, cname) /\ Value(heap, cname) = Ref(Function) =>
                      (answer = "yes" <=>
                          IsRef(v) /\ v.to # Root /\ \A s \in Slots : Has(fresh, v.to, s))
=============================================================================
