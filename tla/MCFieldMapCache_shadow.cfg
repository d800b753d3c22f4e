CONSTANTS
    p1 = p1
    p2 = p2
    NonStruct = NonStruct
    NoName = NoName
    NoMap = NoMap
    NumCalls = 1
    MaxDepth = 4
    Procs <- EmbedProcs
    Types <- ShadowTypes
    Fields <- ShadowFields
    Lower <- MCLower
    Calls <- ShadowCalls
SPECIFICATION Spec
INVARIANTS
    LookupShadowsEmbedded
