---- MODULE MCTxnManager ----
\* A small instance of TxnManager: fewer connections than transactions.
EXTENDS TxnManager
====
