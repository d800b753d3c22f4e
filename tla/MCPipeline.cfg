CONSTANTS
    G <- MCGraph
    Workers <- MCWorkers
    NoVertex = NoVertex
    UserVertices <- MCUserVertices
    UserPreparers <- MCUserPreparers
    Width = 4
    Unset = Unset

SPECIFICATION Spec

INVARIANTS
    SkipsExactlyFailedDependents

PROPERTIES
    ImplementsAbstract
    Terminates
