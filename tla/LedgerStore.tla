---------------------------- MODULE LedgerStore ----------------------------
(***************************************************************************)
(* What the ledger ingress promises the site server and the mesh, with no  *)
(* flash, no NVS keys and no tasks: one served ledger that is only ever     *)
(* replaced by a newer one, and a floor below which a reboot cannot take    *)
(* it.  LedgerIngress implements this specification, except while a push    *)
(* is served that got in because the look-up of the stored ledger failed.   *)
(***************************************************************************)
EXTENDS Naturals

CONSTANTS
  Versions,   \* ledger versions, positive
  Digests,    \* manifest digests; one digest stands for one ledger body
  NoLedger    \* nothing is served; not a ledger

VARIABLES
  served,     \* the ledger the manifest and chunk handlers present
  floor       \* newest version the server was told is persisted (0: none)

storeVars == <<served, floor>>

Ledgers == [ver : Versions, dig : Digests]

VersionOf(l) == IF l = NoLedger THEN 0 ELSE l.ver

StoreTypeOK ==
  /\ served \in Ledgers \cup {NoLedger}
  /\ floor \in Versions \cup {0}

StoreInit ==
  /\ served = NoLedger
  /\ floor = 0

\* A pushed ledger becomes the served one only when it is strictly newer.
Replace(l) ==
  /\ l.ver > VersionOf(served)
  /\ served' = l
  /\ UNCHANGED floor

\* The server is told that the served ledger survives a reboot.
Acknowledge ==
  /\ served # NoLedger
  /\ floor' = served.ver
  /\ UNCHANGED served

\* A reboot may lose a ledger that was accepted but never acknowledged as
\* persisted: what comes back is not newer than what was served and not
\* older than the floor.
Restart ==
  /\ served' \in Ledgers \cup {NoLedger}
  /\ floor <= VersionOf(served') /\ VersionOf(served') <= VersionOf(served)
  /\ UNCHANGED floor

StoreNext ==
  \/ \E l \in Ledgers : Replace(l)
  \/ Acknowledge
  \/ Restart

StoreSpec == StoreInit /\ [][StoreNext]_storeVars
=============================================================================
