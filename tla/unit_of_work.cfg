\* Up to four nested calls of Do over three transactions and three rows.
SPECIFICATION Spec
CONSTANTS
    Txs = {t1, t2, t3}
    Writes = {w1, w2, w3}
    NoTx = NoTx
    MaxDepth = 4
\* The goroutine ends once it has used its transactions.
CHECK_DEADLOCK FALSE
SYMMETRY UnitSymmetry
INVARIANTS
    TypeOK
    NotEndedUnderneath
    NoneLeaks
PROPERTIES
    ImplementsAtomicStore
