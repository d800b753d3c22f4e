CONSTANTS
    Panic = Panic
    Nil <- MCNil
    Lower <- MCLower
    Heap <- HeapAnon
    Objects <- AnonObjects
    TermSeqs <- AnonTermSeqs
SPECIFICATION Spec
INVARIANTS
    FieldMapFlattening
