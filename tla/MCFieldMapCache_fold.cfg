CONSTANTS
    p1 = p1
    p2 = p2
    NonStruct = NonStruct
    NoName = NoName
    NoMap = NoMap
    NumCalls = 1
    MaxDepth = 4
    Procs <- EmbedProcs
    Types <- FoldTypes
    Fields <- FoldFields
    Lower <- MCLower
    Calls <- FoldCalls
SPECIFICATION Spec
INVARIANTS
    HasFieldMatchesSpec
