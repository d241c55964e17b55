-------------------------- MODULE MCLedgerIngress --------------------------
\* Small instances of LedgerIngress for TLC.
EXTENDS LedgerIngress, TLC

\* In blocks of two bytes the second block of d1 is its last and is short; the
\* second of d2 is full and another follows.
MCSizeOf == [d \in Digests |-> IF d = "d1" THEN 3 ELSE 5]

\* The server's ledgers: any, and one body for each version.
MCAnyLedger == Ledgers
MCOnePerVersion == {[ver |-> 1, dig |-> "d1"], [ver |-> 2, dig |-> "d2"]}
=============================================================================
