------------------------------ MODULE MeshData ------------------------------
(***************************************************************************)
(* What the border router keeps for the mesh beside the ledger itself: the    *)
(* advertisement of the ledger, the phonebook, the peer table and the         *)
(* floating book.                                                            *)
(*                                                                          *)
(* The four touch one another only through the served ledger, which the       *)
(* advertisement and the peer table each take from LedgerStore, so a          *)
(* behaviour is of one part: the joint state space is their sum, and each      *)
(* part meets every step of the others it can tell.                          *)
(***************************************************************************)
EXTENDS LedgerAdvert, Phonebook, PeerTable, FloatingBook

VARIABLE part   \* "advert", "book", "peers" or "floating"

vars == <<part, advertVars, phonebookVars, tableVars, floatingVars>>

AdvertPart == part = "advert" /\ AdvertNext /\ UNCHANGED <<part, phonebookVars, tableVars, floatingVars>>

BookPart == part = "book" /\ PhonebookNext /\ UNCHANGED <<part, advertVars, tableVars, floatingVars>>

PeersPart == part = "peers" /\ PeerNext /\ UNCHANGED <<part, publishVars, phonebookVars, floatingVars>>

FloatingPart == part = "floating" /\ FloatingNext /\ UNCHANGED <<part, advertVars, phonebookVars, tableVars>>

Init ==
  /\ AdvertInit /\ PhonebookInit /\ PeerInit /\ FloatingInit
  /\ part \in {"advert", "book", "peers", "floating"}
  /\ part # "book" => net = CHOOSE n \in MeshNets : TRUE

Next == AdvertPart \/ BookPart \/ PeersPart \/ FloatingPart

Spec == Init /\ [][Next]_vars

TypeOK == AdvertTypeOK /\ PhonebookTypeOK /\ PeerTypeOK /\ FloatingTypeOK
=============================================================================
