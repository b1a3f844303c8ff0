SPECIFICATION Spec
CONSTANTS
    x = x
    y = y
    a = a
    one = one
    Slots <- TwoSlots
    Empty = Empty
    Global = Global
    Root = Root
    Function = Function
    Others <- OneObject
    Nowhere = Nowhere
    Leaves <- OneLeaf
    Undefined = Undefined
    MaxSegments = 3
    MaxSlots = 3
    TiedNames <- ShortNames
    MaxFetch = 1
INVARIANTS
    WalkFollowsPath
    SetThenGet
    RemoveThenExists
    OnlyReadersChange
    InstanceOfInherits
PROPERTIES
    SetLandsWhereAsked
SYMMETRY Symmetry
