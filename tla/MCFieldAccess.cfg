CONSTANTS
    Panic = Panic
    Nil <- MCNil
    Lower <- MCLower
    Heap <- HeapOK
    Objects <- ObjectsOK
    TermSeqs <- TermSeqsOK
SPECIFICATION Spec
INVARIANTS
    FieldMapFlattening
    HasPathAgreesWithEvalTerms
    EvalMemberAgreesWithEvalTerms
