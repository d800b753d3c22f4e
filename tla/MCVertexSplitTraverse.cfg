CONSTANTS
    Graphs <- MCGraphs
    Starts <- MCStarts
    Names <- MCNames
    MaxDepth <- MCMaxDepth
SPECIFICATION Spec
INVARIANTS
    TypeOK
    SharedHistorySound
PROPERTIES
    Terminates
