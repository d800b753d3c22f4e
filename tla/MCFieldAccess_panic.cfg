CONSTANTS
    Panic = Panic
    Nil <- MCNil
    Lower <- MCLower
    Heap <- HeapPanic
    Objects <- PanicObjects
    TermSeqs <- PanicTermSeqs
SPECIFICATION Spec
INVARIANTS
    EvalTermsMatchesSpec
