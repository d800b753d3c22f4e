CONSTANTS
    p1 = p1
    p2 = p2
    NonStruct = NonStruct
    NoName = NoName
    NoMap = NoMap
    NumCalls = 2
    MaxDepth = 4
    Procs <- TwoProcs
    Types <- MixedTypes
    Fields <- MixedFields
    Lower <- MCLower
    Calls <- MixedCalls
SPECIFICATION Spec
INVARIANTS
    TypeOK
    LookupCanonicalSound
    HasFieldMatchesSpec
