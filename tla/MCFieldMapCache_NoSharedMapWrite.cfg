CONSTANTS
    p1 = p1
    p2 = p2
    NonStruct = NonStruct
    NoName = NoName
    NoMap = NoMap
    NumCalls = 2
    MaxDepth = 4
    Procs <- TwoProcs
    Types <- EmbedTypes
    Fields <- EmbedFields
    Lower <- MCLower
    Calls <- EmbedCalls
SPECIFICATION Spec
PROPERTIES
    NoSharedMapWrite
