SPECIFICATION TxnFairSpec
CHECK_DEADLOCK FALSE
CONSTANTS
    Txns = {t1, t2, t3}
    Calls = {c1, c2}
    PoolSize = 2
    Late = {t1}
    NoTxn = NoTxn
INVARIANTS
    TxnTypeOK
    ConnectionsAccounted
    OkRunsInside
PROPERTIES
    ImplementsAtomicBatches
    ConnectionsReturn
