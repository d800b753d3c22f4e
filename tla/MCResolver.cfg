SPECIFICATION Spec
INVARIANTS
    VertexSplitLongestPrefix
