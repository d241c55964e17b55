------------------------ MODULE LedgerIngressProofs ------------------------
(***************************************************************************)
(* Proofs about LedgerIngress, for any number of httpd workers, versions    *)
(* and digests: the inductive invariant IInv, the safety invariants it      *)
(* implies, and the refinement of LedgerStore.                              *)
(***************************************************************************)
EXTENDS LedgerIngress, TLAPS

LEMMA ChunksType ==
  ASSUME NEW d \in Digests
  PROVE  SizeOf[d] \in Nat /\ Chunks(SizeOf[d]) \in Nat
<1>1. SizeOf[d] \in Nat \ {0} /\ ChunkSize \in Nat \ {0}
  BY IngressAssumption
<1>2. (SizeOf[d] + ChunkSize - 1) \in Nat
  BY <1>1
<1>3. ASSUME NEW a \in Nat, NEW b \in Nat, b > 0
      PROVE  a \div b \in Nat
  BY <1>3
<1> QED
  BY <1>1, <1>2, <1>3 DEF Chunks

LEMMA LedgerType ==
  ASSUME NEW l \in Ledgers
  PROVE  l # NoLedger /\ l # Blank /\ l.ver \in Nat /\ l.ver > 0 /\ l.dig \in Digests
<1>1. l # NoLedger /\ l # Blank
  BY IngressAssumption DEF Ledgers
<1>2. l.ver \in Versions /\ l.dig \in Digests
  BY DEF Ledgers
<1>3. l.ver \in Nat /\ l.ver # 0
  BY <1>2, IngressAssumption
<1> QED
  BY <1>1, <1>2, <1>3

\* What the metadata getter returns.
LEMMA NvsLedgerType ==
  ASSUME TypeOK
  PROVE  /\ NvsLedger \in Ledgers \cup {NoLedger}
         /\ NvsPresent <=> NvsLedger # NoLedger
         /\ NvsPresent => /\ NvsLedger \in Ledgers
                          /\ NvsLedger.ver = nvs.ver
                          /\ NvsLedger.dig = nvs.dig
         /\ Active \in Ledgers \cup {NoLedger}
<1>1. /\ ram \in Ledgers \cup {NoLedger}
      /\ nvs.ver \in Versions \cup {NoVal}
      /\ nvs.dig \in Digests \cup {NoVal}
  BY DEF TypeOK, CacheTypeOK
<1>2. ASSUME NvsPresent
      PROVE  /\ NvsLedger = [ver |-> nvs.ver, dig |-> nvs.dig]
             /\ nvs.ver \in Versions /\ nvs.dig \in Digests
  BY <1>1, <1>2 DEF NvsLedger, NvsPresent
<1>3. ASSUME NvsPresent
      PROVE  /\ NvsLedger \in Ledgers /\ NvsLedger # NoLedger
             /\ NvsLedger.ver = nvs.ver /\ NvsLedger.dig = nvs.dig
  BY <1>2, <1>3, IngressAssumption DEF Ledgers
<1>4. ~NvsPresent => NvsLedger = NoLedger
  BY DEF NvsLedger
<1> QED
  BY <1>1, <1>3, <1>4 DEF Active

LEMMA InitIInv == Init => IInv
<1> SUFFICES ASSUME Init PROVE IInv
  OBVIOUS
<1> USE DEF Init
<1>1. TypeOK
  <2>1. PushTypeOK
    BY DEF PushTypeOK, Busy, LastErrors
  <2>2. CacheTypeOK
    BY DEF CacheTypeOK, Slots
  <2>3. ReaderTypeOK
    BY DEF ReaderTypeOK, FlashReading, ReaderIdle
  <2> QED
    BY <2>1, <2>2, <2>3 DEF TypeOK
<1>2. OnePushAtATime
  BY DEF OnePushAtATime
<1>3. \A p \in Pushers : HandlerInv(p)
  BY DEF HandlerInv, BeforeInstall, Persisting, Written, PartSet, VersionSet,
         DigestSet, SizeSet, ChunksSet
<1>4. KeysInOrder /\ RamNotOlder /\ FlashServesWhole
  BY DEF KeysInOrder, RamNotOlder, FlashServesWhole, NvsPresent
<1>5. LifecycleMatchesServing /\ AckedVersionSurvives
  BY DEF LifecycleMatchesServing, ServingState, AckedVersionSurvives, Active, NvsLedger,
         NvsPresent
<1> QED
  BY <1>1, <1>2, <1>3, <1>4, <1>5 DEF IInv

-----------------------------------------------------------------------------
(* Facts shared by many steps. *)

\* A step that leaves RAM, NVS and flash alone keeps every fact about them.
LEMMA StoreQuiet ==
  ASSUME IInv, UNCHANGED <<ram, nvs, flash, acked, suspect, misread>>
  PROVE  /\ Active' = Active /\ ServingState' = ServingState
         /\ KeysInOrder' /\ RamNotOlder' /\ FlashServesWhole'
         /\ AckedVersionSurvives'
<1>1. NvsPresent' = NvsPresent /\ NvsLedger' = NvsLedger
  BY DEF NvsPresent, NvsLedger
<1>2. Active' = Active /\ ServingState' = ServingState
  BY <1>1 DEF Active, ServingState
<1>3. KeysInOrder' /\ RamNotOlder' /\ AckedVersionSurvives'
  BY <1>1 DEF IInv, KeysInOrder, RamNotOlder, AckedVersionSurvives
<1>4. FlashServesWhole'
  BY <1>1 DEF IInv, FlashServesWhole, Coherent
<1> QED
  BY <1>2, <1>3, <1>4

LEMMA CacheTypeQuiet ==
  ASSUME IInv, UNCHANGED <<ram, nvs, flash, acked, suspect, misread>>
  PROVE  CacheTypeOK'
  BY DEF IInv, TypeOK, CacheTypeOK

LEMMA ReaderTypeQuiet ==
  ASSUME IInv, rd' = rd
  PROVE  ReaderTypeOK'
  BY DEF IInv, TypeOK, ReaderTypeOK

LEMMA IdleHandler ==
  ASSUME NEW q \in Pushers, pc'[q] = "idle"
  PROVE  HandlerInv(q)'
  BY DEF HandlerInv, BeforeInstall, Persisting, Written, PartSet, VersionSet,
         DigestSet, SizeSet, ChunksSet

\* A failed look-up of the push adds what it hid from the gate, a stored ledger
\* answered again takes away what the start could not read; neither disturbs a
\* fact about the store.
LEMMA MisreadStep ==
  ASSUME IInv, UNCHANGED <<ram, nvs, flash, acked, suspect>>,
         \/ misread' = misread \/ misread' = misread \cup {"gate"}
         \/ misread' = misread \ {"boot"}
  PROVE  /\ Active' = Active /\ CacheTypeOK'
         /\ ("boot" \in misread' <=> "boot" \in misread) => ServingState' = ServingState
         /\ KeysInOrder' /\ RamNotOlder' /\ FlashServesWhole'
         /\ AckedVersionSurvives'
<1>1. NvsPresent' = NvsPresent /\ NvsLedger' = NvsLedger
  BY DEF NvsPresent, NvsLedger
<1>2. Active' = Active
  BY <1>1 DEF Active
<1>3. misread' \in SUBSET {"boot", "gate"} /\ ("gate" \in misread => "gate" \in misread')
  BY DEF IInv, TypeOK, CacheTypeOK
<1>4. CacheTypeOK'
  BY <1>3 DEF IInv, TypeOK, CacheTypeOK
<1>5. KeysInOrder' /\ RamNotOlder' /\ AckedVersionSurvives'
  BY <1>1, <1>3 DEF IInv, KeysInOrder, RamNotOlder, AckedVersionSurvives
<1>6. FlashServesWhole'
  BY <1>1 DEF IInv, FlashServesWhole, Coherent
<1> QED
  BY <1>2, <1>4, <1>5, <1>6 DEF ServingState

\* The slot holder moves on: it stays the only one, and only its own facts
\* need proof.
LEMMA Advance ==
  ASSUME IInv, NEW p \in Pushers, NEW next \in Busy, pc[p] # "idle",
         Goto(p, next), inFlight' = inFlight, HandlerInv(p)'
  PROVE  /\ pc' \in [Pushers -> Busy \cup {"idle"}]
         /\ OnePushAtATime' /\ LifecycleMatchesServing'
         /\ \A q \in Pushers : HandlerInv(q)'
<1>1. pc \in [Pushers -> Busy \cup {"idle"}]
  BY DEF IInv, TypeOK, PushTypeOK
<1>2. next # "idle"
  BY DEF Busy, Persisting
<1>3. pc' \in [Pushers -> Busy \cup {"idle"}] /\ pc'[p] = next
  BY <1>1 DEF Goto
<1>4. \A q \in Pushers \ {p} : pc[q] = "idle" /\ pc'[q] = "idle"
  BY <1>1 DEF IInv, OnePushAtATime, Goto
<1>5. OnePushAtATime' /\ inFlight'
  BY <1>2, <1>3, <1>4 DEF IInv, OnePushAtATime
<1>6. LifecycleMatchesServing'
  BY <1>5 DEF LifecycleMatchesServing
<1>7. \A q \in Pushers : HandlerInv(q)'
  BY <1>4, IdleHandler
<1> QED
  BY <1>3, <1>5, <1>6, <1>7

\* The slot holder returns: nobody holds the slot.
LEMMA Freed ==
  ASSUME IInv, NEW p \in Pushers, pc[p] # "idle", Release(p)
  PROVE  /\ pc' \in [Pushers -> Busy \cup {"idle"}]
         /\ led' \in [Pushers -> Ledgers \cup {NoLedger}]
         /\ prior' \in [Pushers -> {"none", "active", "receiving", "validating"}]
         /\ target' \in [Pushers -> Slots \cup {NoVal}]
         /\ inFlight' = FALSE /\ phase' = ""
         /\ OnePushAtATime'
         /\ \A q \in Pushers : HandlerInv(q)'
<1>1. /\ pc \in [Pushers -> Busy \cup {"idle"}]
      /\ led \in [Pushers -> Ledgers \cup {NoLedger}]
      /\ prior \in [Pushers -> {"none", "active", "receiving", "validating"}]
      /\ target \in [Pushers -> Slots \cup {NoVal}]
  BY DEF IInv, TypeOK, PushTypeOK
<1>2. \A q \in Pushers : pc'[q] = "idle"
  BY <1>1 DEF IInv, OnePushAtATime, Release, Return, Goto
<1>3. OnePushAtATime' /\ \A q \in Pushers : HandlerInv(q)'
  BY <1>2, IdleHandler DEF OnePushAtATime, Release
<1> QED
  BY <1>1, <1>3 DEF Release, Return, Goto

-----------------------------------------------------------------------------
(* The push handler up to the RAM copy. *)

\* Unauthorized and refused requests touch the error record alone.
LEMMA ErrorOnlyStep ==
  ASSUME IInv, lastErr' \in LastErrors,
         UNCHANGED <<pushVars, lifecycle, ram, nvs, flash, rd, acked, suspect, misread>>
  PROVE  IInv'
<1> USE DEF pushVars
<1>1. TypeOK'
  BY CacheTypeQuiet, ReaderTypeQuiet DEF IInv, TypeOK, PushTypeOK
<1>2. OnePushAtATime' /\ LifecycleMatchesServing'
  BY StoreQuiet DEF IInv, OnePushAtATime, LifecycleMatchesServing
<1>3. ASSUME NEW p \in Pushers PROVE HandlerInv(p)'
  BY StoreQuiet DEF IInv, HandlerInv
<1> QED
  BY <1>1, <1>2, <1>3, StoreQuiet DEF IInv

LEMMA ClaimStep ==
  ASSUME IInv, NEW p \in Pushers, NEW l \in Ledgers, Claim(p, l)
  PROVE  IInv'
<1> USE DEF Claim
<1>1. /\ PushTypeOK /\ CacheTypeOK /\ ReaderTypeOK
      /\ \A q \in Pushers : pc[q] = "idle"
  BY DEF IInv, TypeOK, OnePushAtATime
<1>2. PushTypeOK'
  BY <1>1 DEF PushTypeOK, Goto, Busy, LastErrors
<1>3. CacheTypeOK' /\ ReaderTypeOK'
  BY CacheTypeQuiet, ReaderTypeQuiet
<1>4. pc'[p] = "receive" /\ \A q \in Pushers \ {p} : pc'[q] = "idle"
  BY <1>1 DEF PushTypeOK, Goto
<1>5. OnePushAtATime' /\ LifecycleMatchesServing'
  BY <1>4 DEF OnePushAtATime, LifecycleMatchesServing
<1>6. HandlerInv(p)'
  <2>1. led'[p] = l /\ l # NoLedger
    BY <1>1, LedgerType DEF PushTypeOK
  <2>2. prior'[p] = ServingState'
    BY <1>1, StoreQuiet DEF PushTypeOK, IInv, LifecycleMatchesServing, ServingState
  <2> QED
    BY <1>4, <2>1, <2>2
    DEF HandlerInv, BeforeInstall, Persisting, Written, PartSet, VersionSet,
        DigestSet, SizeSet, ChunksSet
<1>7. \A q \in Pushers : HandlerInv(q)'
  BY <1>4, <1>6, IdleHandler
<1> QED
  BY <1>2, <1>3, <1>5, <1>7, StoreQuiet DEF IInv, TypeOK

\* Every refusal puts back the state that matches what is served.
LEMMA RefuseStep ==
  ASSUME IInv, NEW p \in Pushers, NEW err \in LastErrors,
         pc[p] \in BeforeInstall, Refuse(p, err)
  PROVE  IInv'
<1> USE DEF Refuse
<1>1. pc[p] # "idle" /\ Release(p)
  BY DEF BeforeInstall
<1>2. prior[p] = ServingState
  BY DEF IInv, HandlerInv
<1>3. PushTypeOK'
  BY <1>1, <1>2, Freed DEF PushTypeOK, ServingState
<1>4. CacheTypeOK' /\ ReaderTypeOK'
  BY CacheTypeQuiet, ReaderTypeQuiet
<1>5. LifecycleMatchesServing'
  BY <1>2, StoreQuiet DEF LifecycleMatchesServing, ServingState
<1> QED
  BY <1>1, <1>3, <1>4, <1>5, Freed, StoreQuiet DEF IInv, TypeOK

LEMMA ReceivedStep ==
  ASSUME IInv, NEW p \in Pushers, Received(p) \/ EnvelopeValid(p)
  PROVE  IInv'
<1> USE DEF Received, EnvelopeValid
<1>1. PICK next \in {"validate", "lookup"} : Goto(p, next)
  OBVIOUS
<1>2. /\ pc[p] \in BeforeInstall /\ pc[p] # "idle"
      /\ pc \in [Pushers -> Busy \cup {"idle"}]
  BY DEF BeforeInstall, IInv, TypeOK, PushTypeOK
<1>3. HandlerInv(p)'
  BY <1>1, <1>2, StoreQuiet
  DEF IInv, HandlerInv, Goto, BeforeInstall, Persisting, Written, PartSet,
      VersionSet, DigestSet, SizeSet, ChunksSet
<1>4. next \in Busy
  BY <1>1 DEF Busy
<1>5. /\ pc' \in [Pushers -> Busy \cup {"idle"}]
      /\ OnePushAtATime' /\ LifecycleMatchesServing'
      /\ \A q \in Pushers : HandlerInv(q)'
  BY <1>1, <1>2, <1>3, <1>4, Advance
<1>6. TypeOK'
  BY <1>5, CacheTypeQuiet, ReaderTypeQuiet DEF IInv, TypeOK, PushTypeOK
<1> QED
  BY <1>5, <1>6, StoreQuiet DEF IInv

\* Past the gate the pushed ledger is newer than the served one, or is it.
LEMMA DecideAccept ==
  ASSUME TypeOK, NEW l \in Ledgers, Decide(Active, l) \in {"accept", "idempotent"}
  PROVE  Active = NoLedger \/ l.ver > Active.ver \/ l = Active
<1>1. CASE Active = NoLedger \/ l.ver > Active.ver
  BY <1>1
<1>2. CASE Active # NoLedger /\ ~(l.ver > Active.ver)
  <2>1. Active \in Ledgers
    BY <1>2, NvsLedgerType
  <2>2. l.ver \in Nat /\ Active.ver \in Nat
    BY <2>1, IngressAssumption DEF Ledgers
  <2>3. l.ver = Active.ver /\ l.dig = Active.dig
    BY <1>2, <2>2 DEF Decide
  <2> QED
    BY <2>1, <2>3 DEF Ledgers
<1> QED
  BY <1>1, <1>2

\* Let in, with the served ledger seen or hidden: past the gate the facts about
\* the store stay, and the pushed ledger is newer, the same, or marked.
LEMMA AcceptStep ==
  ASSUME IInv, NEW p \in Pushers, pc[p] = "lookup", Accept(p) \/ AcceptBlind(p),
         UNCHANGED <<ram, nvs, flash, rd, acked, suspect>>
  PROVE  IInv'
<1>1. /\ PushTypeOK /\ prior[p] = ServingState /\ led[p] \in Ledgers /\ TypeOK
  BY DEF IInv, TypeOK, PushTypeOK, HandlerInv, BeforeInstall
<1>2. /\ Goto(p, "install")
      /\ UNCHANGED <<led, prior, target, inFlight, phase, lifecycle, lastErr>>
  BY DEF Accept, AcceptBlind
<1>3. \/ misread' = misread /\ Decide(Active, led[p]) \in {"accept", "idempotent"}
      \/ misread' = misread \cup {"gate"}
  <2>1. Decide(Active, led[p]) \in {"accept", "idempotent", "rollback", "conflict"}
    BY DEF Decide
  <2> QED
    BY <2>1 DEF Accept, AcceptBlind
<1>4. misread' = misread \/ misread' = misread \cup {"gate"}
  BY <1>3
<1>5. /\ Active' = Active /\ CacheTypeOK' /\ KeysInOrder' /\ RamNotOlder'
      /\ FlashServesWhole' /\ AckedVersionSurvives'
      /\ ServingState' = ServingState
  BY <1>4, MisreadStep
<1>6. \/ "gate" \in misread' \/ Active = NoLedger \/ led[p].ver > Active.ver
      \/ led[p] = Active
  BY <1>1, <1>3, DecideAccept
<1>7. HandlerInv(p)'
  BY <1>1, <1>2, <1>5, <1>6, LedgerType
  DEF HandlerInv, Goto, PushTypeOK, BeforeInstall, Persisting, Written,
      PartSet, VersionSet, DigestSet, SizeSet, ChunksSet
<1>8. /\ pc' \in [Pushers -> Busy \cup {"idle"}]
      /\ OnePushAtATime' /\ LifecycleMatchesServing'
      /\ \A q \in Pushers : HandlerInv(q)'
  BY <1>2, <1>7, Advance DEF Busy
<1>9. TypeOK'
  BY <1>1, <1>2, <1>5, <1>8, ReaderTypeQuiet DEF TypeOK, PushTypeOK
<1> QED
  BY <1>5, <1>8, <1>9 DEF IInv

\* The stored ledger again: the state becomes "active" even after a start that
\* could not read it.
LEMMA AlreadyStoredStep ==
  ASSUME IInv, NEW p \in Pushers, pc[p] = "lookup", AlreadyStored(p),
         UNCHANGED <<ram, nvs, flash, rd, acked, suspect>>
  PROVE  IInv'
<1>1. /\ lifecycle' = "active" /\ Release(p) /\ lastErr' = lastErr
      /\ misread' = misread \ {"boot"} /\ PushTypeOK /\ pc[p] # "idle"
      /\ Active # NoLedger
  BY DEF AlreadyStored, Decide, IInv, TypeOK
<1>2. /\ Active' = Active /\ CacheTypeOK' /\ KeysInOrder' /\ RamNotOlder'
      /\ FlashServesWhole' /\ AckedVersionSurvives'
  BY <1>1, MisreadStep
<1>3. LifecycleMatchesServing'
  BY <1>1, <1>2 DEF LifecycleMatchesServing, ServingState
<1>4. PushTypeOK'
  BY <1>1, Freed DEF PushTypeOK
<1> QED
  BY <1>1, <1>2, <1>3, <1>4, Freed, ReaderTypeQuiet DEF IInv, TypeOK

LEMMA GateStep ==
  ASSUME IInv, NEW p \in Pushers, Gate(p)
  PROVE  IInv'
<1>1. pc[p] = "lookup" /\ UNCHANGED <<ram, nvs, flash, rd, acked, suspect>>
  BY DEF Gate
<1>2. CASE Accept(p) \/ AcceptBlind(p)
  BY <1>1, <1>2, AcceptStep
<1>3. CASE AlreadyStored(p)
  BY <1>1, <1>3, AlreadyStoredStep
<1>4. CASE TooOld(p)
  <2>1. Refuse(p, "version_gate")
    BY <1>1, <1>4 DEF TooOld, Refuse
  <2> QED
    BY <1>1, <2>1, RefuseStep DEF BeforeInstall, LastErrors
<1> QED
  BY <1>2, <1>3, <1>4 DEF Gate

LEMMA InstallStep ==
  ASSUME IInv, NEW p \in Pushers, Install(p)
  PROVE  IInv'
<1> USE DEF Install
<1>1. /\ PushTypeOK /\ CacheTypeOK /\ ReaderTypeOK
      /\ led[p] \in Ledgers
      /\ "gate" \in misread \/ Active = NoLedger \/ led[p].ver > Active.ver
         \/ led[p] = Active
      /\ misread' = misread \ {"boot"}
  BY DEF IInv, TypeOK, PushTypeOK, HandlerInv
<1>2. led[p] # NoLedger /\ ram' = led[p] /\ ram' \in Ledgers
  BY <1>1, IngressAssumption DEF Ledgers
<1>3. HandlerInv(p)'
  BY <1>1, <1>2
  DEF HandlerInv, Goto, PushTypeOK, BeforeInstall, Persisting, Written, PartSet,
      VersionSet, DigestSet, SizeSet, ChunksSet
<1>4. /\ pc' \in [Pushers -> Busy \cup {"idle"}]
      /\ OnePushAtATime' /\ LifecycleMatchesServing'
      /\ \A q \in Pushers : HandlerInv(q)'
  BY <1>3, Advance DEF Busy, Persisting
<1>5. TypeOK'
  <2>1. PushTypeOK'
    BY <1>1, <1>4 DEF PushTypeOK
  <2>2. CacheTypeOK'
    BY <1>1, <1>2 DEF CacheTypeOK
  <2>3. ReaderTypeOK'
    BY <1>1 DEF Overtaken, ReaderTypeOK
  <2> QED
    BY <2>1, <2>2, <2>3 DEF TypeOK
<1>6. NvsPresent' = NvsPresent
  BY DEF NvsPresent
<1>7. KeysInOrder' /\ FlashServesWhole' /\ AckedVersionSurvives'
  BY <1>1, <1>2, <1>6 DEF IInv, KeysInOrder, FlashServesWhole, AckedVersionSurvives
<1>8. RamNotOlder'
  <2>1. SUFFICES ASSUME NvsPresent, "gate" \notin misread PROVE led[p].ver >= nvs.ver
    BY <1>1, <1>2, <1>6 DEF RamNotOlder
  <2>2. /\ NvsLedger \in Ledgers /\ NvsLedger.ver = nvs.ver /\ NvsLedger # NoLedger
        /\ Active \in Ledgers \cup {NoLedger}
    BY <2>1, NvsLedgerType DEF IInv
  <2>3. Active # NoLedger /\ Active.ver >= nvs.ver
    <3>1. nvs.ver \in Nat
      BY <2>2, IngressAssumption DEF Ledgers
    <3> QED
      BY <2>1, <2>2, <3>1 DEF Active, IInv, RamNotOlder
  <2>4. led[p].ver \in Nat /\ Active.ver \in Nat /\ nvs.ver \in Nat
    BY <1>1, <2>2, <2>3, IngressAssumption DEF Ledgers
  <2> QED
    BY <1>1, <2>1, <2>3, <2>4
<1> QED
  BY <1>4, <1>5, <1>7, <1>8 DEF IInv

-----------------------------------------------------------------------------
(* The cache write. *)

\* What every step of the cache write starts from.
LEMMA Cached ==
  ASSUME IInv, NEW p \in Pushers, pc[p] \in Persisting
  PROVE  /\ PushTypeOK /\ CacheTypeOK /\ ReaderTypeOK
         /\ pc[p] # "idle" /\ led[p] \in Ledgers
         /\ ram = led[p] /\ ram # NoLedger /\ lifecycle = "active"
         /\ "boot" \notin misread
  BY DEF IInv, TypeOK, PushTypeOK, HandlerInv, Persisting

\* A step of the cache write that writes neither flash nor NVS.
LEMMA QuietCacheStep ==
  ASSUME IInv, NEW p \in Pushers, pc[p] \in Persisting,
         NEW next \in Persisting, Goto(p, next), HandlerInv(p)',
         target' \in [Pushers -> Slots \cup {NoVal}], lastErr' \in LastErrors,
         UNCHANGED <<led, prior, inFlight, phase, lifecycle, ram, nvs, flash, rd,
                     acked, suspect, misread>>
  PROVE  IInv'
<1>1. /\ pc' \in [Pushers -> Busy \cup {"idle"}]
      /\ OnePushAtATime' /\ LifecycleMatchesServing'
      /\ \A q \in Pushers : HandlerInv(q)'
  BY Advance, Cached DEF Busy
<1>2. PushTypeOK'
  BY <1>1, Cached DEF PushTypeOK
<1> QED
  BY <1>1, <1>2, CacheTypeQuiet, ReaderTypeQuiet, StoreQuiet DEF IInv, TypeOK

LEMMA ChooseTargetStep ==
  ASSUME IInv, NEW p \in Pushers, ChooseTarget(p)
  PROVE  IInv'
<1> USE DEF ChooseTarget
<1>1. PICK part \in {nvs.part, NoVal} :
        target' = [target EXCEPT ![p] = TargetSlot(part)]
  OBVIOUS
<1>2. TargetSlot(part) \in Slots
  BY DEF TargetSlot, Slots
<1>3. pc[p] \in Persisting
  BY DEF Persisting
<1>4. /\ target' \in [Pushers -> Slots \cup {NoVal}] /\ target'[p] \in Slots
      /\ pc'[p] = "erase"
  BY <1>1, <1>2, <1>3, Cached DEF PushTypeOK, Goto
<1>5. HandlerInv(p)'
  BY <1>3, <1>4, Cached
  DEF HandlerInv, BeforeInstall, Persisting, Written, PartSet, VersionSet,
      DigestSet, SizeSet, ChunksSet
<1>6. lastErr' \in LastErrors
  BY <1>3, Cached DEF PushTypeOK
<1> QED
  BY <1>3, <1>4, <1>5, <1>6, QuietCacheStep DEF Persisting

LEMMA CacheFailsStep ==
  ASSUME IInv, NEW p \in Pushers,
         TargetMissing(p) \/ PartitionFails(p) \/ MetadataFails(p)
  PROVE  IInv'
<1>1. PICK err \in LastErrors : CacheFails(p, err)
  BY DEF TargetMissing, PartitionFails, MetadataFails, LastErrors
<1>2. pc[p] \in Persisting /\ UNCHANGED <<nvs, flash>>
  BY DEF TargetMissing, PartitionFails, MetadataFails, Persisting
<1> USE <1>1 DEF CacheFails
<1>3. pc'[p] = "degraded" /\ target' \in [Pushers -> Slots \cup {NoVal}]
  BY <1>2, Cached DEF PushTypeOK, Goto
<1>4. HandlerInv(p)'
  BY <1>2, <1>3, Cached
  DEF HandlerInv, BeforeInstall, Persisting, Written, PartSet, VersionSet,
      DigestSet, SizeSet, ChunksSet
<1> QED
  BY <1>2, <1>3, <1>4, QuietCacheStep DEF Persisting

LEMMA CommitStep ==
  ASSUME IInv, NEW p \in Pushers, Commit(p)
  PROVE  IInv'
<1> USE DEF Commit
<1>1. pc[p] \in Persisting
  BY DEF Persisting
<1>2. /\ pc'[p] = "drop_ram" /\ target' \in [Pushers -> Slots \cup {NoVal}]
      /\ lastErr' \in LastErrors
  BY <1>1, Cached DEF PushTypeOK, Goto
<1>3. HandlerInv(p)'
  BY <1>1, <1>2, Cached
  DEF IInv, HandlerInv, BeforeInstall, Persisting, Written, PartSet, VersionSet,
      DigestSet, SizeSet, ChunksSet
<1> QED
  BY <1>1, <1>2, <1>3, QuietCacheStep DEF Persisting

\* Erasing and writing touch the staging partition only, under a RAM copy.
LEMMA FlashStep ==
  ASSUME IInv, NEW p \in Pushers, Erase(p) \/ Write(p)
  PROVE  IInv'
<1> USE DEF Erase, Write
<1>1. pc[p] \in {"erase", "write"} /\ pc[p] \in Persisting
  BY DEF Persisting
<1>2. target[p] \in Slots
  BY <1>1 DEF IInv, HandlerInv
<1>3. PICK next \in {"write", "set_part"} : Goto(p, next)
  OBVIOUS
<1>4. next \in Busy
  BY <1>3 DEF Busy, Persisting
<1>5. pc'[p] = next
  BY <1>1, <1>3, Cached DEF PushTypeOK, Goto
<1>6. next = "set_part" => flash'[target[p]] = led[p]
  <2>1. next = "set_part" => Write(p)
    BY <1>1, <1>3, <1>5, Cached DEF PushTypeOK, Goto
  <2> QED
    BY <1>1, <1>2, <2>1, Cached DEF CacheTypeOK
<1>7. HandlerInv(p)'
  BY <1>1, <1>2, <1>3, <1>5, <1>6, Cached
  DEF HandlerInv, BeforeInstall, Persisting, Written, PartSet, VersionSet,
      DigestSet, SizeSet, ChunksSet
<1>8. /\ pc' \in [Pushers -> Busy \cup {"idle"}]
      /\ OnePushAtATime' /\ LifecycleMatchesServing'
      /\ \A q \in Pushers : HandlerInv(q)'
  BY <1>1, <1>3, <1>4, <1>7, Advance, Cached
<1>9. TypeOK'
  <2>1. PushTypeOK'
    BY <1>1, <1>8, Cached DEF PushTypeOK
  <2>2. CacheTypeOK'
    BY <1>1, <1>2, Cached DEF CacheTypeOK
  <2>3. ReaderTypeOK'
    BY <1>1, Cached DEF ReaderTypeOK
  <2> QED
    BY <2>1, <2>2, <2>3 DEF TypeOK
<1>10. ram' = ram /\ ram' # NoLedger /\ NvsPresent' = NvsPresent
  BY <1>1, Cached DEF NvsPresent
<1>11. KeysInOrder' /\ RamNotOlder' /\ FlashServesWhole' /\ AckedVersionSurvives'
  BY <1>10 DEF IInv, KeysInOrder, RamNotOlder, FlashServesWhole, AckedVersionSurvives
<1> QED
  BY <1>8, <1>9, <1>11 DEF IInv


\* One nvs_set_* under the RAM copy of the same ledger: what the five keys have
\* in common.  Only the version key decides how old the metadata is.
LEMMA KeyStep ==
  ASSUME IInv, NEW p \in Pushers, pc[p] \in Persisting, NEW next \in Persisting,
         Goto(p, next), HandlerInv(p)', CacheTypeOK', KeysInOrder',
         NvsPresent => NvsPresent',
         \/ nvs'.ver = led[p].ver
         \/ nvs'.ver = nvs.ver /\ (NvsPresent' => NvsPresent),
         UNCHANGED <<led, prior, target, inFlight, phase, lifecycle, lastErr, ram,
                     flash, rd, acked, suspect, misread>>
  PROVE  IInv'
<1>1. /\ pc' \in [Pushers -> Busy \cup {"idle"}]
      /\ OnePushAtATime' /\ LifecycleMatchesServing'
      /\ \A q \in Pushers : HandlerInv(q)'
  BY Advance, Cached DEF Busy
<1>2. PushTypeOK'
  BY <1>1, Cached DEF PushTypeOK
<1>3. ram = led[p] /\ ram # NoLedger /\ ram \in Ledgers
  BY Cached
<1>4. FlashServesWhole'
  BY <1>3 DEF FlashServesWhole
<1>5. RamNotOlder'
  BY <1>3, LedgerType DEF RamNotOlder, IInv
<1>6. AckedVersionSurvives'
  <2>1. SUFFICES ASSUME acked # 0, "gate" \notin misread
                 PROVE  NvsPresent' /\ nvs'.ver >= acked
    BY DEF AckedVersionSurvives
  <2>2. NvsPresent /\ nvs.ver >= acked /\ ram.ver >= nvs.ver
    BY <1>3, <2>1 DEF IInv, AckedVersionSurvives, RamNotOlder
  <2>3. nvs.ver \in Nat /\ ram.ver \in Nat /\ acked \in Nat
    <3>1. nvs.ver \in Versions /\ acked \in Versions
      BY <2>1, <2>2, Cached DEF CacheTypeOK, NvsPresent
    <3> QED
      BY <1>3, <3>1, LedgerType, IngressAssumption
  <2> QED
    BY <1>3, <2>2, <2>3
<1> QED
  BY <1>1, <1>2, <1>4, <1>5, <1>6, ReaderTypeQuiet DEF IInv, TypeOK

LEMMA SetKeyStep ==
  ASSUME IInv, NEW p \in Pushers,
         SetPart(p) \/ SetVersion(p) \/ SetDigest(p) \/ SetSize(p) \/ SetChunks(p)
  PROVE  IInv'
<1> USE DEF SetKey
<1>1. /\ pc[p] \in {"set_part", "set_ver", "set_dig", "set_size", "set_chunks"}
      /\ UNCHANGED <<led, prior, target, inFlight, phase, lifecycle, lastErr, ram,
                     flash, rd, acked, suspect, misread>>
  BY DEF SetPart, SetVersion, SetDigest, SetSize, SetChunks
<1>2. pc[p] \in Persisting
  BY <1>1 DEF Persisting
<1>3. /\ PushTypeOK /\ CacheTypeOK /\ HandlerInv(p) /\ KeysInOrder
      /\ led[p] \in Ledgers /\ ram = led[p] /\ lifecycle = "active"
      /\ led[p] # NoLedger /\ "boot" \notin misread
  BY <1>2, Cached DEF IInv
<1>4. target[p] \in Slots
  BY <1>1, <1>3 DEF HandlerInv, Written, PartSet, VersionSet, DigestSet, SizeSet
<1>5. /\ led[p].ver \in Versions /\ led[p].dig \in Digests
      /\ SizeOf[led[p].dig] \in Nat /\ Chunks(SizeOf[led[p].dig]) \in Nat
  BY <1>3, ChunksType DEF Ledgers
<1>6. target[p] # NoVal /\ led[p].ver # NoVal /\ led[p].dig # NoVal
  <2>1. target[p] \in Nat /\ led[p].ver \in Nat
    BY <1>3, <1>4, LedgerType DEF Slots
  <2> QED
    BY <1>5, <2>1, IngressAssumption
<1> USE DEF HandlerInv, BeforeInstall, Persisting, Written, PartSet, VersionSet,
            DigestSet, SizeSet, ChunksSet
<1>7. CASE SetPart(p)
  <2>1. nvs' = [nvs EXCEPT !.part = target[p]] /\ Goto(p, "set_ver")
    BY <1>7 DEF SetPart
  <2>2. pc'[p] = "set_ver" /\ CacheTypeOK' /\ nvs'.part = target[p]
        /\ nvs'.ver = nvs.ver /\ nvs'.dig = nvs.dig
    BY <1>1, <1>3, <1>4, <2>1 DEF PushTypeOK, CacheTypeOK, Goto
  <2>3. HandlerInv(p)'
    BY <1>1, <1>3, <1>4, <1>7, <2>2 DEF SetPart
  <2>4. KeysInOrder' /\ (NvsPresent => NvsPresent') /\ (NvsPresent' => NvsPresent)
    BY <1>3, <1>6, <2>2 DEF KeysInOrder, NvsPresent
  <2> QED
    BY <1>1, <1>2, <2>1, <2>2, <2>3, <2>4, KeyStep
<1>8. CASE SetVersion(p)
  <2>1. nvs' = [nvs EXCEPT !.ver = led[p].ver] /\ Goto(p, "set_dig") /\ pc[p] = "set_ver"
    BY <1>8 DEF SetVersion
  <2>2. pc'[p] = "set_dig" /\ CacheTypeOK' /\ nvs'.ver = led[p].ver
        /\ nvs'.part = nvs.part /\ nvs'.dig = nvs.dig
    BY <1>1, <1>3, <1>5, <2>1 DEF PushTypeOK, CacheTypeOK, Goto
  <2>3. HandlerInv(p)'
    BY <1>1, <1>3, <1>4, <2>1, <2>2
  <2>4. KeysInOrder' /\ (NvsPresent => NvsPresent')
    BY <1>3, <1>4, <1>6, <2>1, <2>2 DEF KeysInOrder, NvsPresent
  <2> QED
    BY <1>1, <1>2, <2>1, <2>2, <2>3, <2>4, KeyStep
<1>9. CASE SetDigest(p)
  <2>1. nvs' = [nvs EXCEPT !.dig = led[p].dig] /\ Goto(p, "set_size") /\ pc[p] = "set_dig"
    BY <1>9 DEF SetDigest
  <2>2. pc'[p] = "set_size" /\ CacheTypeOK' /\ nvs'.dig = led[p].dig
        /\ nvs'.part = nvs.part /\ nvs'.ver = nvs.ver /\ nvs.ver = led[p].ver
    BY <1>1, <1>3, <1>5, <2>1 DEF PushTypeOK, CacheTypeOK, Goto
  <2>3. HandlerInv(p)'
    BY <1>1, <1>3, <1>4, <2>1, <2>2
  <2>4. KeysInOrder' /\ (NvsPresent => NvsPresent')
    BY <1>3, <1>6, <2>2 DEF KeysInOrder, NvsPresent
  <2> QED
    BY <1>1, <1>2, <2>1, <2>2, <2>3, <2>4, KeyStep
<1>10. CASE SetSize(p)
  <2>1. /\ nvs' = [nvs EXCEPT !.size = SizeOf[led[p].dig]]
        /\ Goto(p, "set_chunks") /\ pc[p] = "set_size"
    BY <1>10 DEF SetSize
  <2>2. pc'[p] = "set_chunks" /\ CacheTypeOK' /\ nvs'.size = SizeOf[led[p].dig]
        /\ nvs'.part = nvs.part /\ nvs'.ver = nvs.ver /\ nvs'.dig = nvs.dig
    BY <1>1, <1>3, <1>5, <2>1 DEF PushTypeOK, CacheTypeOK, Goto
  <2>3. HandlerInv(p)'
    BY <1>1, <1>3, <1>4, <2>1, <2>2
  <2>4. KeysInOrder' /\ (NvsPresent => NvsPresent')
    BY <1>3, <2>2 DEF KeysInOrder, NvsPresent
  <2>5. NvsPresent' => NvsPresent
    BY <2>2 DEF NvsPresent
  <2> QED
    BY <1>1, <1>2, <2>1, <2>2, <2>3, <2>4, <2>5, KeyStep
<1>11. CASE SetChunks(p)
  <2>1. /\ nvs' = [nvs EXCEPT !.chunks = Chunks(SizeOf[led[p].dig])]
        /\ Goto(p, "commit") /\ pc[p] = "set_chunks"
    BY <1>11 DEF SetChunks
  <2>2. /\ pc'[p] = "commit" /\ CacheTypeOK'
        /\ nvs'.chunks = Chunks(SizeOf[led[p].dig]) /\ nvs'.part = nvs.part
        /\ nvs'.ver = nvs.ver /\ nvs'.dig = nvs.dig /\ nvs'.size = nvs.size
    BY <1>1, <1>3, <1>5, <2>1 DEF PushTypeOK, CacheTypeOK, Goto
  <2>3. HandlerInv(p)'
    BY <1>1, <1>3, <1>4, <2>1, <2>2
  <2>4. KeysInOrder' /\ (NvsPresent => NvsPresent')
    BY <1>3, <2>2 DEF KeysInOrder, NvsPresent
  <2>5. NvsPresent' => NvsPresent
    BY <2>2 DEF NvsPresent
  <2> QED
    BY <1>1, <1>2, <2>1, <2>2, <2>3, <2>4, <2>5, KeyStep
<1> QED
  BY <1>7, <1>8, <1>9, <1>10, <1>11

LEMMA AnswerDegradedStep ==
  ASSUME IInv, NEW p \in Pushers, AnswerDegraded(p)
  PROVE  IInv'
<1> USE DEF AnswerDegraded
<1>1. pc[p] \in Persisting
  BY DEF Persisting
<1>2. PushTypeOK'
  BY <1>1, Cached, Freed DEF PushTypeOK
<1>3. LifecycleMatchesServing'
  <2>1. "boot" \notin misread
    BY <1>1, Cached
  <2> QED
    BY <1>1, <2>1, Cached, StoreQuiet DEF LifecycleMatchesServing, ServingState, Active
<1> QED
  BY <1>1, <1>2, <1>3, Cached, Freed, CacheTypeQuiet, ReaderTypeQuiet, StoreQuiet
  DEF IInv, TypeOK

\* Flash takes over: by now partition and keys describe the pushed ledger.
LEMMA DropRamStep ==
  ASSUME IInv, NEW p \in Pushers, DropRam(p)
  PROVE  /\ IInv'
         /\ Active' = Active /\ Active # NoLedger /\ acked' = Active.ver
<1> USE DEF DropRam
<1>1. pc[p] \in Persisting
  BY DEF Persisting
<1>2. /\ PushTypeOK /\ CacheTypeOK /\ ReaderTypeOK /\ pc[p] # "idle"
      /\ led[p] \in Ledgers /\ ram = led[p] /\ ram # NoLedger
      /\ lifecycle = "active" /\ "boot" \notin misread
  BY <1>1, Cached
<1>3. /\ target[p] \in Slots /\ flash[target[p]] = led[p]
      /\ nvs.part = target[p] /\ nvs.ver = led[p].ver /\ nvs.dig = led[p].dig
      /\ nvs.size = SizeOf[led[p].dig] /\ nvs.chunks = Chunks(SizeOf[led[p].dig])
  BY DEF IInv, HandlerInv, Written, PartSet, VersionSet, DigestSet, SizeSet, ChunksSet
<1>4. nvs.part # NoVal /\ nvs.ver # NoVal /\ nvs.dig # NoVal
  <2>1. nvs.part \in Nat /\ nvs.ver \in Nat /\ nvs.dig \in Digests
    BY <1>2, <1>3, LedgerType DEF Slots
  <2> QED
    BY <2>1, IngressAssumption
<1>5. NvsPresent /\ NvsPresent'
  BY <1>4 DEF NvsPresent
<1>6. NvsLedger = led[p] /\ NvsLedger' = led[p]
  BY <1>2, <1>3, <1>5 DEF NvsLedger, Ledgers
<1>7. Active' = led[p] /\ Active = led[p]
  BY <1>2, <1>6 DEF Active
<1>8. FlashServesWhole'
  BY <1>3, <1>5, <1>6 DEF FlashServesWhole, Coherent
<1>9. KeysInOrder' /\ RamNotOlder'
  BY DEF IInv, KeysInOrder, RamNotOlder
<1>10. AckedVersionSurvives'
  BY <1>2, <1>3, <1>5, LedgerType DEF AckedVersionSurvives
<1>11. LifecycleMatchesServing'
  BY <1>2, <1>7 DEF LifecycleMatchesServing, ServingState
<1>12. TypeOK'
  <2>1. PushTypeOK'
    BY <1>2, Freed DEF PushTypeOK
  <2>2. acked' \in Versions
    BY <1>2 DEF Ledgers
  <2>3. CacheTypeOK'
    BY <1>2, <2>2 DEF CacheTypeOK
  <2> QED
    BY <2>1, <2>3, ReaderTypeQuiet DEF TypeOK
<1> QED
  BY <1>2, <1>7, <1>8, <1>9, <1>10, <1>11, <1>12, Freed DEF IInv

-----------------------------------------------------------------------------
(* The chunk handler and the power loss. *)

LEMMA ReaderStep ==
  ASSUME IInv, OnlyReader, ReaderTypeOK'
  PROVE  IInv'
<1> USE DEF OnlyReader, pushVars
<1>1. PushTypeOK' /\ OnePushAtATime' /\ LifecycleMatchesServing'
  BY StoreQuiet DEF IInv, TypeOK, PushTypeOK, OnePushAtATime, LifecycleMatchesServing
<1>2. ASSUME NEW p \in Pushers PROVE HandlerInv(p)'
  BY StoreQuiet DEF IInv, HandlerInv
<1> QED
  BY <1>1, <1>2, CacheTypeQuiet, StoreQuiet DEF IInv, TypeOK

LEMMA ServeStep ==
  ASSUME IInv, Serve
  PROVE  IInv' /\ UNCHANGED <<ram, nvs, flash, acked, suspect, misread>>
<1>1. OnlyReader
  BY DEF Serve, ChunkRequest, GetRam, ReadRam, GetKey, ReadPart, GetSize, ReadFlash,
         ReadFails, Answer
<1>2. /\ ReaderTypeOK /\ CacheTypeOK
      /\ ram # NoLedger => ram \in Ledgers /\ SizeOf[ram.dig] \in Nat
      /\ StoredSize \in Nat
  BY LedgerType, IngressAssumption DEF IInv, TypeOK, CacheTypeOK, StoredSize
<1>3. ReaderTypeOK'
  <2> USE <1>2 DEF ReaderTypeOK, FlashReading, ReaderIdle, NotFound, Step, Need
  <2>1. ASSUME NEW block \in Blocks, ChunkRequest(block) PROVE ReaderTypeOK'
    <3>1. (ram # NoLedger \/ ~suspect) \in BOOLEAN
      OBVIOUS
    <3> QED
      BY <2>1, <3>1 DEF ChunkRequest
  <2>9. ASSUME NEW next, rd' = [rd EXCEPT !.pc = next],
               \/ next \in {"get_part", "get_ver", "get_dig", "get_size", "read_ram",
                          "read_part"}
               \/ rd.pc \in FlashReading /\ next \in FlashReading
        PROVE  ReaderTypeOK'
    BY <2>9
  <2>10. CASE rd' = ReaderIdle
    BY <2>10
  <2>11. ASSUME NEW n \in Nat, rd' = [rd EXCEPT !.pc = "read_ram", !.total = n]
         PROVE  ReaderTypeOK'
    BY <2>11
  <2>2. CASE GetRam
    BY <1>2, <2>2, <2>9, <2>10, <2>11 DEF GetRam
  <2>3. CASE ReadRam
    <3>2. CASE /\ rd' = [rd EXCEPT !.pc = "answer", !.size = SizeOf[ram.dig], !.bytes = ram]
               /\ ram # NoLedger
      BY <3>2
    <3>3. CASE rd' = ReaderIdle
      BY <3>3
    <3>4. CASE rd' = [rd EXCEPT !.pc = "read_part"]
      BY <3>4
    <3> QED
      BY <2>3, <3>2, <3>3, <3>4 DEF ReadRam
  <2>4. CASE GetKey
    <3>1. \/ rd' = ReaderIdle
          \/ rd' = [rd EXCEPT !.pc = "get_ver"] \/ rd' = [rd EXCEPT !.pc = "get_dig"]
          \/ rd' = [rd EXCEPT !.pc = "get_size"]
          \/ rd.pc = "read_ver" /\ rd' = [rd EXCEPT !.pc = "read_dig"]
          \/ rd.pc = "read_dig" /\ rd' = [rd EXCEPT !.pc = "read_size"]
      BY <2>4 DEF GetKey
    <3> QED
      BY <3>1, <2>9, <2>10
  <2>5. CASE ReadPart
    <3>1. nvs.part # NoVal => nvs.part \in Slots
      BY <1>2 DEF CacheTypeOK
    <3>2. ASSUME nvs.part # NoVal, NEW n \in {0, 1},
                 rd' = [rd EXCEPT !.pc = "read_ver", !.part = nvs.part, !.writes = n]
          PROVE  ReaderTypeOK'
      BY <3>1, <3>2
    <3>3. CASE rd' = ReaderIdle
      BY <3>3
    <3> QED
      BY <2>5, <3>2, <3>3 DEF ReadPart
  <2>6. CASE GetSize
    <3>1. CASE rd.pc = "read_size" /\ rd' = [rd EXCEPT !.pc = "read_flash", !.size = StoredSize]
      BY <3>1
    <3> QED
      BY <1>2, <2>6, <2>10, <2>11, <3>1 DEF GetSize
  <2>7. CASE ReadFlash
    <3>1. flash[rd.part] \in Ledgers \cup {Blank}
      BY <1>2, <2>7 DEF ReadFlash, CacheTypeOK
    <3> QED
      BY <2>7, <3>1 DEF ReadFlash
  <2>8. CASE Answer \/ ReadFails
    BY <2>8, <2>10 DEF Answer, ReadFails
  <2> QED
    BY <2>1, <2>2, <2>3, <2>4, <2>5, <2>6, <2>7, <2>8 DEF Serve
<1> QED
  BY <1>1, <1>3, ReaderStep DEF OnlyReader

LEMMA RebootStep ==
  ASSUME IInv, Reboot
  PROVE  IInv'
<1> USE DEF Reboot
<1>1. CacheTypeOK /\ \A q \in Pushers : pc'[q] = "idle"
  BY DEF IInv, TypeOK
<1>2. /\ NvsPresent' = NvsPresent /\ NvsLedger' = NvsLedger /\ Active' = NvsLedger
  BY DEF NvsPresent, NvsLedger, Active
<1>3. TypeOK'
  <2>1. PushTypeOK'
    BY DEF PushTypeOK, LastErrors
  <2>2. CacheTypeOK'
    <3>1. misread' \in SUBSET {"boot", "gate"}
      BY <1>1 DEF CacheTypeOK
    <3> QED
      BY <1>1, <3>1 DEF CacheTypeOK
  <2>3. ReaderTypeOK'
    BY DEF ReaderTypeOK, FlashReading, ReaderIdle
  <2> QED
    BY <2>1, <2>2, <2>3 DEF TypeOK
<1>4. OnePushAtATime' /\ \A q \in Pushers : HandlerInv(q)'
  BY <1>1, IdleHandler DEF OnePushAtATime
<1>5. KeysInOrder' /\ RamNotOlder' /\ AckedVersionSurvives'
  BY <1>2 DEF IInv, KeysInOrder, RamNotOlder, AckedVersionSurvives
<1>6. FlashServesWhole'
  BY <1>2 DEF IInv, FlashServesWhole, Coherent
<1>7. LifecycleMatchesServing'
  BY <1>2, NvsLedgerType DEF IInv, LifecycleMatchesServing, ServingState
<1> QED
  BY <1>3, <1>4, <1>5, <1>6, <1>7 DEF IInv

-----------------------------------------------------------------------------
(* Induction. *)

LEMMA PushStep ==
  ASSUME IInv, NEW p \in Pushers, Push(p) \/ Cache(p)
  PROVE  IInv'
<1>1. CASE Unauthorized(p) \/ \E err \in {"body_size", "receive"} : ClaimRefused(p, err)
  BY <1>1, ErrorOnlyStep DEF Unauthorized, ClaimRefused, LastErrors
<1>2. CASE \E l \in Offered : Claim(p, l)
  BY <1>2, ClaimStep, IngressAssumption DEF Ledgers
<1>3. CASE ReceiveFails(p)
  BY <1>3, RefuseStep DEF ReceiveFails, BeforeInstall, LastErrors
<1>4. CASE EnvelopeInvalid(p)
  BY <1>4, RefuseStep DEF EnvelopeInvalid, BeforeInstall, LastErrors
<1>5. CASE LookupFails(p)
  BY <1>5, RefuseStep DEF LookupFails, BeforeInstall, LastErrors
<1>6. CASE Received(p) \/ EnvelopeValid(p)
  BY <1>6, ReceivedStep
<1>7. CASE Gate(p)
  BY <1>7, GateStep
<1>8. CASE Install(p)
  BY <1>8, InstallStep
<1>9. CASE ChooseTarget(p)
  BY <1>9, ChooseTargetStep
<1>10. CASE TargetMissing(p) \/ PartitionFails(p) \/ MetadataFails(p)
  BY <1>10, CacheFailsStep
<1>11. CASE Erase(p) \/ Write(p)
  BY <1>11, FlashStep
<1>12. CASE SetPart(p) \/ SetVersion(p) \/ SetDigest(p) \/ SetSize(p) \/ SetChunks(p)
  BY <1>12, SetKeyStep
<1>13. CASE Commit(p)
  BY <1>13, CommitStep
<1>14. CASE AnswerDegraded(p)
  BY <1>14, AnswerDegradedStep
<1>15. CASE DropRam(p)
  BY <1>15, DropRamStep
<1> QED
  BY <1>1, <1>2, <1>3, <1>4, <1>5, <1>6, <1>7, <1>8, <1>9, <1>10, <1>11, <1>12,
     <1>13, <1>14, <1>15 DEF Push, Cache

LEMMA NextIInv == IInv /\ [Next]_vars => IInv'
<1> SUFFICES ASSUME IInv, [Next]_vars PROVE IInv'
  OBVIOUS
<1>1. CASE UNCHANGED vars
  BY <1>1, ReaderTypeQuiet, ReaderStep DEF vars, OnlyReader, pushVars
<1>2. CASE Next
  BY <1>2, PushStep, ServeStep, RebootStep DEF Next
<1> QED
  BY <1>1, <1>2

\* IInv holds in every reachable state, for any number of workers, versions,
\* digests and faults.
THEOREM Inductive == Spec => []IInv
<1> QED
  BY InitIInv, NextIInv, PTL DEF Spec

\* Every variable keeps the type of its declaration.
THEOREM TypeCorrect == Spec => []TypeOK
<1>1. IInv => TypeOK
  BY DEF IInv
<1> QED
  BY <1>1, Inductive, PTL

\* The push slot is mutual exclusion between any number of httpd workers.
THEOREM MutualExclusion == Spec => []OnePushAtATime
<1>1. IInv => OnePushAtATime
  BY DEF IInv
<1> QED
  BY <1>1, Inductive, PTL

\* Flash, when it is what serves, holds the whole ledger its metadata names,
\* up to a power loss that hit a push.
THEOREM WholeLedger == Spec => []FlashServesWhole
<1>1. IInv => FlashServesWhole
  BY DEF IInv
<1> QED
  BY <1>1, Inductive, PTL

\* No refused, degraded or interrupted push leaves s_state wrong.
THEOREM LifecycleCorrect == Spec => []LifecycleMatchesServing
<1>1. IInv => LifecycleMatchesServing
  BY DEF IInv
<1> QED
  BY <1>1, Inductive, PTL

\* What was acknowledged as persisted stays the floor across power losses.
THEOREM Durable == Spec => []AckedVersionSurvives
<1>1. IInv => AckedVersionSurvives
  BY DEF IInv
<1> QED
  BY <1>1, Inductive, PTL

\* If reading active_part never fails, the cache write never touches the
\* partition that survives a power loss.
THEOREM Isolation ==
  ASSUME "read" \notin Faults
  PROVE  Spec => []StagingIsolated
<1>1. Init => StagingIsolated
  BY DEF Init, StagingIsolated
<1>2. IInv /\ StagingIsolated /\ [Next]_vars => StagingIsolated'
  <2> SUFFICES ASSUME IInv, StagingIsolated, [Next]_vars, NEW q \in Pushers,
                      pc'[q] \in {"erase", "write"}
               PROVE  target'[q] # nvs'.part
    BY DEF StagingIsolated
  <2>1. /\ PushTypeOK /\ CacheTypeOK
        /\ \A p \in Pushers : pc[p] # "idle" /\ pc[q] # "idle" => p = q
    BY DEF IInv, TypeOK, OnePushAtATime
  <2>2. ASSUME pc'[q] = pc[q], target'[q] = target[q], nvs' = nvs
        PROVE  target'[q] # nvs'.part
    BY <2>2 DEF StagingIsolated
  <2>3. CASE UNCHANGED vars \/ Serve
    BY <2>2, <2>3, ServeStep DEF vars, Serve, OnlyReader, pushVars, ChunkRequest,
       GetRam, ReadRam, GetKey, ReadPart, GetSize, ReadFlash, ReadFails,
       Answer
  <2>4. CASE Reboot
    BY <2>4 DEF Reboot
  <2>5. ASSUME NEW p \in Pushers, Push(p) \/ Cache(p), p # q
        PROVE  target'[q] # nvs'.part
    <3>1. pc'[q] = pc[q] /\ target'[q] = target[q]
      BY <2>1, <2>5
      DEF PushTypeOK, Push, Cache, Unauthorized, Claim, ClaimRefused, Refuse, Release,
          Return, Goto, ReceiveFails, Received, EnvelopeInvalid, EnvelopeValid,
          LookupFails, Gate,
          Accept, AcceptBlind, AlreadyStored, TooOld, Install, ChooseTarget, CacheFails, TargetMissing, Erase,
          PartitionFails, Write, SetKey, SetPart, SetVersion, SetDigest, SetSize,
          SetChunks, MetadataFails, Commit, AnswerDegraded, DropRam, pushVars
    <3>2. pc[p] = "idle"
      BY <2>1, <2>5, <3>1
    <3>3. nvs' = nvs
      BY <2>5, <3>2
      DEF Push, Cache, Unauthorized, Claim, ClaimRefused,
          ReceiveFails, Received, EnvelopeInvalid, EnvelopeValid,
          LookupFails, Gate,
          Accept, AcceptBlind, AlreadyStored, TooOld, Install, ChooseTarget, CacheFails, TargetMissing, Erase,
          PartitionFails, Write, SetKey, SetPart, SetVersion, SetDigest, SetSize,
          SetChunks, MetadataFails, Commit, AnswerDegraded, DropRam
    <3> QED
      BY <2>2, <3>1, <3>3
  <2>6. ASSUME Push(q) \/ Cache(q)
        PROVE  target'[q] # nvs'.part
    <3>1. CASE ChooseTarget(q)
      <4>1. target'[q] = TargetSlot(nvs.part) /\ nvs' = nvs
        BY <2>1, <3>1 DEF ChooseTarget, PushTypeOK
      <4>2. nvs.part \in Slots \cup {NoVal} /\ NoVal \notin Nat
        BY <2>1, IngressAssumption DEF CacheTypeOK
      <4> QED
        BY <4>1, <4>2 DEF TargetSlot, Slots
    <3>2. CASE Erase(q)
      BY <2>1, <3>2 DEF Erase, StagingIsolated, PushTypeOK
    <3>3. CASE ~ChooseTarget(q) /\ ~Erase(q)
      <4>1. pc'[q] \notin {"erase", "write"} \/ UNCHANGED <<pc, target, nvs>>
        BY <2>1, <2>6, <3>3
        DEF PushTypeOK, Push, Cache, Unauthorized, Claim, ClaimRefused, Refuse, Release,
            Return, Goto, ReceiveFails, Received, EnvelopeInvalid, EnvelopeValid,
            LookupFails, Gate,
            Accept, AcceptBlind, AlreadyStored, TooOld, Install, CacheFails, TargetMissing,
            PartitionFails, Write, SetKey, SetPart, SetVersion, SetDigest, SetSize,
            SetChunks, MetadataFails, Commit, AnswerDegraded, DropRam, pushVars
      <4> QED
        BY <2>2, <4>1
    <3> QED
      BY <3>1, <3>2, <3>3
  <2> QED
    BY <2>3, <2>4, <2>5, <2>6 DEF Next
<1> QED
  BY <1>1, <1>2, Inductive, PTL DEF Spec

-----------------------------------------------------------------------------
(* The chunk handler and the double buffer. *)

LEMMA ServeTypes ==
  ASSUME IInv
  PROVE  /\ pc \in [Pushers -> Busy \cup {"idle"}]
         /\ nvs.part \in Slots \cup {NoVal} /\ NoVal \notin Slots
         /\ flash \in [Slots -> Ledgers \cup {Blank}]
         /\ rd.writes \in {0, 1, 2}
         /\ rd.pc \in FlashReading => rd.part \in Slots
<1>1. pc \in [Pushers -> Busy \cup {"idle"}]
  BY DEF IInv, TypeOK, PushTypeOK
<1>2. nvs.part \in Slots \cup {NoVal} /\ flash \in [Slots -> Ledgers \cup {Blank}]
  BY DEF IInv, TypeOK, CacheTypeOK
<1>3. NoVal \notin Slots
  BY IngressAssumption DEF Slots
<1>4. rd.writes \in {0, 1, 2} /\ (rd.pc \in FlashReading => rd.part \in Slots)
  BY DEF IInv, TypeOK, ReaderTypeOK
<1>. QED
  BY <1>1, <1>2, <1>3, <1>4

\* An erase counts for every reader that has fixed its partition, and spares
\* the active one.
LEMMA EraseServe ==
  ASSUME IInv, ServeInv, NEW p \in Pushers, Erase(p)
  PROVE  ActivePartWhole' /\ ChunkReaderInv'
<1>1. /\ pc[p] = "erase" /\ nvs' = nvs /\ target[p] # nvs.part
      /\ flash' = [flash EXCEPT ![target[p]] = Blank]
      /\ rd' = [rd EXCEPT !.writes = IF rd.part # NoVal /\ @ < 2 THEN @ + 1 ELSE @]
  BY DEF Erase, ServeInv, StagingIsolated
<1>2. ActivePartWhole'
  BY <1>1, ServeTypes DEF ServeInv, ActivePartWhole
<1>3. /\ rd'.pc = rd.pc /\ rd'.part = rd.part /\ rd'.bytes = rd.bytes
      /\ rd'.writes = IF rd.part # NoVal /\ rd.writes < 2 THEN rd.writes + 1 ELSE rd.writes
  BY <1>1 DEF IInv, TypeOK, ReaderTypeOK
<1>4. rd'.writes < 2 => rd.writes < 2
  BY <1>3, ServeTypes
<1>5. ASSUME rd.pc \in FlashReading
      PROVE  rd'.writes # 0 /\ (rd'.writes < 2 => flash'[rd.part] # Blank)
  <2>1. rd.part \in Slots /\ rd.part # NoVal
    BY <1>5, ServeTypes
  <2>2. rd'.writes # 0 /\ (rd'.writes < 2 => rd.writes = 0)
    BY <1>3, <2>1, ServeTypes
  <2>3. rd.writes = 0 => rd.part # target[p] /\ flash[rd.part] # Blank
    BY <1>1, <1>5 DEF ServeInv, ChunkReaderInv
  <2>. QED
    BY <1>1, <2>1, <2>2, <2>3, ServeTypes
<1>. QED
  BY <1>2, <1>3, <1>4, <1>5 DEF ServeInv, ChunkReaderInv, ChunkNotErased

\* The write and the turn of active_part find no reader that counts on the old
\* active partition without having counted the erase.
LEMMA TurnServe ==
  ASSUME IInv, ServeInv, NEW p \in Pushers, Write(p) \/ SetPart(p)
  PROVE  ActivePartWhole' /\ ChunkReaderInv'
<1>1. /\ pc[p] \in {"write", "set_part"} /\ pc[p] \in {"write"} \cup Written
      /\ rd' = rd /\ led[p] # Blank /\ target[p] \in Slots
  <2>1. pc[p] \in {"write", "set_part"} /\ rd' = rd
    BY DEF Write, SetPart, SetKey
  <2>2. pc[p] \in {"write"} \cup Written /\ pc[p] # "idle"
    BY <2>1 DEF Written
  <2>3. led[p] \in Ledgers /\ target[p] \in Slots
    BY <2>2 DEF IInv, HandlerInv, TypeOK, PushTypeOK
  <2>. QED
    BY <2>1, <2>2, <2>3, LedgerType
<1>2. \/ nvs' = nvs /\ flash' = [flash EXCEPT ![target[p]] = led[p]]
      \/ nvs'.part = target[p] /\ flash' = flash /\ flash[target[p]] = led[p]
  <2>1. CASE Write(p)
    BY <2>1 DEF Write
  <2>2. CASE SetPart(p)
    <3>1. pc[p] \in Written
      BY <2>2 DEF SetPart, SetKey, Written
    <3>2. nvs'.part = target[p] /\ flash' = flash
      BY <2>2 DEF SetPart, SetKey, IInv, TypeOK, CacheTypeOK
    <3>. QED
      BY <3>1, <3>2 DEF IInv, HandlerInv
  <2>. QED
    BY <2>1, <2>2
<1>3. ActivePartWhole'
  BY <1>1, <1>2, ServeTypes DEF ServeInv, ActivePartWhole
<1>4. rd.pc \in FlashReading => rd.writes # 0
  BY <1>1 DEF ServeInv, ChunkReaderInv
<1>5. rd.pc \in FlashReading /\ rd.writes < 2 => flash'[rd.part] # Blank
  BY <1>1, <1>2, ServeTypes DEF ServeInv, ChunkReaderInv
<1>. QED
  BY <1>1, <1>3, <1>4, <1>5 DEF ServeInv, ChunkReaderInv, ChunkNotErased

LEMMA PushServe ==
  ASSUME IInv, ServeInv, NEW p \in Pushers, Push(p) \/ Cache(p)
  PROVE  ActivePartWhole' /\ ChunkReaderInv'
<1>1. CASE Erase(p)
  BY <1>1, EraseServe
<1>2. CASE Write(p) \/ SetPart(p)
  BY <1>2, TurnServe
<1>3. CASE ~Erase(p) /\ ~Write(p) /\ ~SetPart(p)
  <2>1. /\ flash' = flash /\ nvs'.part = nvs.part
        /\ rd'.pc = rd.pc /\ rd'.part = rd.part /\ rd'.writes = rd.writes
        /\ rd'.bytes = rd.bytes
    BY <1>3
    DEF Overtaken, ReaderTypeOK,
        Push, Cache, Unauthorized, Claim, ClaimRefused, Refuse, ReceiveFails, Received,
        EnvelopeInvalid, EnvelopeValid, LookupFails, Gate,
        Accept, AcceptBlind, AlreadyStored, TooOld, Install, ChooseTarget,
        CacheFails, TargetMissing, PartitionFails, SetKey, SetVersion, SetDigest,
        SetSize, SetChunks, MetadataFails, Commit, AnswerDegraded, DropRam,
        IInv, TypeOK, CacheTypeOK
  <2>2. ASSUME NEW q \in Pushers, pc'[q] \in {"write"} \cup Written
        PROVE  pc[q] \in {"write"} \cup Written
    <3>. USE ServeTypes DEF Written, PartSet, VersionSet, DigestSet, SizeSet, ChunksSet
    <3>1. CASE Push(p)
      BY <2>2, <3>1
      DEF Push, Unauthorized, Claim, ClaimRefused, Refuse, Release, Return, Goto,
          ReceiveFails, Received, EnvelopeInvalid, EnvelopeValid, LookupFails, Gate,
          Accept, AcceptBlind, AlreadyStored, TooOld,
          Install, pushVars
    <3>2. CASE Cache(p)
      BY <1>3, <2>2, <3>2
      DEF Cache, Release, Return, Goto, ChooseTarget, CacheFails, TargetMissing,
          PartitionFails, SetKey, SetVersion, SetDigest, SetSize, SetChunks,
          MetadataFails, Commit, AnswerDegraded, DropRam
    <3>. QED
      BY <3>1, <3>2
  <2>. QED
    BY <2>1, <2>2 DEF ServeInv, ActivePartWhole, ChunkReaderInv, ChunkNotErased
<1>. QED
  BY <1>1, <1>2, <1>3

\* The reader fixes the active partition and reads from a whole one.
LEMMA ReaderServe ==
  ASSUME IInv, ServeInv, Serve
  PROVE  ActivePartWhole' /\ ChunkReaderInv'
<1>1. OnlyReader /\ nvs' = nvs /\ flash' = flash /\ pc' = pc
  BY DEF Serve, ChunkRequest, GetRam, ReadRam, GetKey, ReadPart, GetSize, ReadFlash,
         ReadFails, Answer, OnlyReader, pushVars
<1>2. ActivePartWhole'
  BY <1>1 DEF ServeInv, ActivePartWhole
<1>3. ChunkReaderInv'
  <2>. USE <1>1 DEF ServeInv, ChunkReaderInv, ChunkNotErased, FlashReading
  <2>1. CASE rd' = ReaderIdle \/ \E block \in Blocks : ChunkRequest(block)
    <3>1. ASSUME NEW block \in Blocks, ChunkRequest(block) PROVE rd'.pc = "get_ram"
      BY <3>1 DEF ReaderIdle, ChunkRequest
    <3>2. CASE rd' = ReaderIdle
      BY <3>2 DEF ReaderIdle
    <3>. QED
      BY <2>1, <3>1, <3>2
  <2>2. ASSUME rd'.part = rd.part, rd'.writes = rd.writes, rd'.bytes = rd.bytes,
               \/ rd'.pc \in {"get_part", "get_ver", "get_dig", "get_size",
                             "read_ram", "read_part"}
               \/ rd.pc \in FlashReading /\ rd'.pc \in FlashReading
        PROVE  ChunkReaderInv'
    BY <2>2
  <2>3. CASE /\ ram # NoLedger
             /\ rd' = [rd EXCEPT !.pc = "answer", !.size = SizeOf[ram.dig], !.bytes = ram]
    <3>1. ram \in Ledgers
      BY <2>3 DEF IInv, TypeOK, CacheTypeOK
    <3>2. rd'.pc = "answer" /\ rd'.bytes = ram
      BY <2>3 DEF IInv, TypeOK, ReaderTypeOK
    <3>. QED
      BY <3>1, <3>2, LedgerType
  <2>4. CASE ReadPart /\ nvs.part # NoVal
    <3>1. rd' = [rd EXCEPT !.pc = "read_ver", !.part = nvs.part,
                           !.writes = IF Overwriting THEN 1 ELSE 0]
      BY <2>4 DEF ReadPart
    <3>2. /\ rd'.pc = "read_ver" /\ rd'.part = nvs.part
          /\ rd'.writes = IF Overwriting THEN 1 ELSE 0
      BY <3>1 DEF IInv, TypeOK, ReaderTypeOK
    <3>3. ~Overwriting => \A p \in Pushers : pc[p] \notin {"write"} \cup Written
      BY DEF Overwriting, Persisting, Written, PartSet, VersionSet, DigestSet, SizeSet,
             ChunksSet
    <3>. QED
      BY <2>4, <3>2, <3>3 DEF ActivePartWhole
  <2>5. CASE ReadFlash
    <3>1. rd.pc = "read_flash" /\ rd' = [rd EXCEPT !.pc = "answer", !.bytes = flash[rd.part]]
      BY <2>5 DEF ReadFlash
    <3>2. /\ rd'.pc = "answer" /\ rd'.bytes = flash[rd.part] /\ rd'.writes = rd.writes
      BY <3>1 DEF IInv, TypeOK, ReaderTypeOK
    <3>. QED
      BY <3>1, <3>2
  <2>6. CASE GetRam \/ GetKey \/ GetSize
    <3>2. \/ rd' = ReaderIdle
          \/ \E next : /\ \/ rd' = [rd EXCEPT !.pc = next]
                          \/ \E n : rd' = [rd EXCEPT !.pc = next, !.total = n]
                          \/ \E n : rd' = [rd EXCEPT !.pc = next, !.size = n]
                       /\ \/ next \in {"get_part", "get_ver", "get_dig", "get_size",
                                     "read_ram", "read_part"}
                          \/ rd.pc \in FlashReading /\ next \in FlashReading
      BY <2>6 DEF GetRam, GetKey, GetSize, Need, Step, NotFound
    <3>1. \/ rd' = ReaderIdle
          \/ /\ rd'.part = rd.part /\ rd'.writes = rd.writes /\ rd'.bytes = rd.bytes
             /\ \/ rd'.pc \in {"get_part", "get_ver", "get_dig", "get_size",
                               "read_ram", "read_part"}
                \/ rd.pc \in FlashReading /\ rd'.pc \in FlashReading
      BY <3>2 DEF IInv, TypeOK, ReaderTypeOK
    <3>. QED
      BY <2>1, <2>2, <3>1
  <2>7. CASE ReadRam /\ rd' = [rd EXCEPT !.pc = "read_part"]
    <3>1. /\ rd'.pc = "read_part" /\ rd'.part = rd.part /\ rd'.writes = rd.writes
          /\ rd'.bytes = rd.bytes
      BY <2>7 DEF IInv, TypeOK, ReaderTypeOK
    <3>. QED
      BY <2>2, <3>1
  <2>. QED
    BY <2>1, <2>3, <2>4, <2>5, <2>6, <2>7
    DEF Serve, ReadRam, ReadPart, ReadFails, Answer, NotFound, Step
<1>. QED
  BY <1>2, <1>3

\* If reading active_part never fails, a chunk that fewer than two cache writes
\* overlap comes from a whole ledger, after power losses too
\* (ChunkNotErased; handle_chunk and write_staged_partition).
THEOREM NotErased ==
  ASSUME "read" \notin Faults
  PROVE  Spec => []ChunkNotErased
<1>1. Init => ActivePartWhole /\ ChunkReaderInv
  <2>. SUFFICES ASSUME Init PROVE ActivePartWhole /\ ChunkReaderInv
    OBVIOUS
  <2>1. nvs.part = NoVal /\ rd.pc = "idle"
    BY DEF Init, ReaderIdle
  <2>. QED
    BY <2>1 DEF ActivePartWhole, ChunkReaderInv, ChunkNotErased, FlashReading
<1>2. IInv /\ ServeInv /\ [Next]_vars => ActivePartWhole' /\ ChunkReaderInv'
  <2>. SUFFICES ASSUME IInv, ServeInv, [Next]_vars PROVE ActivePartWhole' /\ ChunkReaderInv'
    OBVIOUS
  <2>1. CASE UNCHANGED vars
    BY <2>1 DEF vars, ServeInv, ActivePartWhole, ChunkReaderInv, ChunkNotErased
  <2>2. CASE Reboot
    BY <2>2 DEF Reboot, ReaderIdle, ServeInv, ActivePartWhole, ChunkReaderInv,
       ChunkNotErased, FlashReading
  <2>. QED
    BY <2>1, <2>2, PushServe, ReaderServe DEF Next
<1>3. ActivePartWhole /\ ChunkReaderInv /\ StagingIsolated => ServeInv
  BY DEF ServeInv
<1>4. ServeInv => ChunkNotErased
  BY DEF ServeInv, ChunkReaderInv
<1>. QED
  BY <1>1, <1>2, <1>3, <1>4, Inductive, Isolation, PTL DEF Spec

LEMMA OffsetType ==
  ASSUME IInv
  PROVE  Offset \in Nat
<1>1. rd.block \in Blocks \cup {0}
  BY DEF IInv, TypeOK, ReaderTypeOK
<1>2. Blocks \subseteq Nat /\ ChunkSize \in Nat
  BY IngressAssumption
<1>3. \A block \in Blocks \cup {0} : block \in Nat
  BY <1>2
<1>4. rd.block \in Nat
  BY <1>1, <1>3
<1> QED
  BY <1>2, <1>4 DEF Offset

\* When flash serves and no power loss cut a swap, the stored size and the
\* active partition are those of the served ledger.
LEMMA FlashCoherent ==
  ASSUME IInv, ram = NoLedger, ~suspect, NvsPresent
  PROVE  /\ Active # NoLedger /\ StoredSize = SizeOf[Active.dig]
         /\ flash[nvs.part] = Active
<1>1. Active = NvsLedger /\ NvsLedger # NoLedger /\ NvsLedger \in Ledgers
      /\ NvsLedger.dig = nvs.dig
  BY NvsLedgerType DEF IInv, Active
<1>2. flash[nvs.part] = NvsLedger /\ nvs.size = SizeOf[nvs.dig]
  BY DEF IInv, FlashServesWhole, Coherent
<1>3. nvs.size # NoVal
  BY <1>1, <1>2, LedgerType, IngressAssumption
<1> QED
  BY <1>1, <1>2, <1>3 DEF StoredSize

\* A push beside the request: an installation ends the claim, and the rest of a
\* cache write runs under the RAM copy, where no key is being read.
LEMMA StillPush ==
  ASSUME IInv, StillInv, NEW p \in Pushers, Push(p) \/ Cache(p)
  PROVE  StillInv'
<1>1. CASE Install(p)
  <2>1. ~rd'.still
    BY <1>1 DEF Install, Overtaken, IInv, TypeOK, ReaderTypeOK
  <2> QED
    BY <2>1 DEF StillInv
<1>2. CASE DropRam(p)
  <2>1. pc[p] \in Persisting /\ ~suspect' /\ rd' = rd /\ nvs' = nvs
    BY <1>2 DEF DropRam, Persisting
  <2>2. ram # NoLedger /\ Active' = Active
    BY <1>2, <2>1, Cached, DropRamStep
  <2> QED
    BY <2>1, <2>2 DEF StillInv, Offset, KeyReading
<1>3. CASE Erase(p) \/ Write(p) \/ SetPart(p) \/ SetVersion(p) \/ SetDigest(p)
           \/ SetSize(p) \/ SetChunks(p)
  <2>1. /\ pc[p] \in Persisting /\ ram' = ram
        /\ rd' = rd \/ \E n : rd' = [rd EXCEPT !.writes = n]
    BY <1>3 DEF Persisting, Erase, Write, SetKey, SetPart, SetVersion, SetDigest,
       SetSize, SetChunks
  <2>2. /\ rd'.pc = rd.pc /\ rd'.still = rd.still /\ rd'.part = rd.part
        /\ rd'.total = rd.total /\ rd'.size = rd.size /\ rd'.block = rd.block
        /\ rd'.bytes = rd.bytes
    BY <2>1 DEF IInv, TypeOK, ReaderTypeOK
  <2>3. ram # NoLedger /\ Active' = Active
    BY <2>1, Cached DEF Active
  <2> QED
    BY <2>1, <2>2, <2>3 DEF StillInv, Offset, KeyReading, FlashReading
<1>4. CASE UNCHANGED <<ram, nvs, flash, suspect, rd>>
  BY <1>4 DEF StillInv, Offset, Active, NvsLedger, NvsPresent
<1>5. \/ Install(p) \/ DropRam(p) \/ Erase(p) \/ Write(p) \/ SetPart(p)
      \/ SetVersion(p) \/ SetDigest(p) \/ SetSize(p) \/ SetChunks(p)
      \/ UNCHANGED <<ram, nvs, flash, suspect, rd>>
  BY DEF Push, Cache, Unauthorized, Claim, ClaimRefused, Refuse, ReceiveFails,
     Received, EnvelopeInvalid, EnvelopeValid, LookupFails, Gate, ChooseTarget,
     CacheFails, TargetMissing, PartitionFails, MetadataFails, Commit, AnswerDegraded
<1> QED
  BY <1>1, <1>2, <1>3, <1>4, <1>5

\* The request itself: each look-up finds the one served ledger.
LEMMA StillServe ==
  ASSUME IInv, StillInv, Serve
  PROVE  StillInv'
<1>1. /\ ram' = ram /\ nvs' = nvs /\ flash' = flash /\ suspect' = suspect
      /\ Active' = Active /\ NvsPresent' = NvsPresent
  BY ServeStep, StoreQuiet DEF NvsPresent
<1>2. ReaderTypeOK
  BY DEF IInv, TypeOK
<1>3. CASE rd' = ReaderIdle
  BY <1>3 DEF StillInv, ReaderIdle
<1>4. ASSUME NEW block \in Blocks, ChunkRequest(block) PROVE StillInv'
  <2>1. rd'.pc = "get_ram" /\ rd'.still = (ram # NoLedger \/ ~suspect)
    BY <1>4 DEF ChunkRequest, ReaderIdle
  <2> QED
    BY <1>1, <2>1 DEF StillInv, KeyReading, FlashReading
<1> SUFFICES ASSUME rd' # ReaderIdle, \A block \in Blocks : ~ChunkRequest(block),
                    rd.still, rd'.still
             PROVE  StillInv'
  <2>1. CASE rd'.still /\ ~rd.still /\ rd' # ReaderIdle
             /\ \A block \in Blocks : ~ChunkRequest(block)
    BY <1>2, <2>1 DEF Serve, GetRam, ReadRam, GetKey, ReadPart, GetSize, ReadFlash,
       ReadFails, Answer, Need, Step, NotFound, ReaderTypeOK
  <2> QED
    BY <1>3, <1>4, <2>1 DEF StillInv
<1> USE DEF StillInv, KeyReading, FlashReading
<1>5. rd'.block = rd.block /\ Offset' = Offset
  BY <1>2 DEF Serve, GetRam, ReadRam, GetKey, ReadPart, GetSize, ReadFlash,
     ReadFails, Answer, Need, Step, NotFound, ReaderTypeOK, Offset
<1>6. rd.pc # "idle" /\ ram = NoLedger => ~suspect
  OBVIOUS
<1>7. CASE GetRam
  <2>1. CASE ram = NoLedger
    <3>1. rd.pc = "get_ram" /\ rd'.pc = "get_part"
      BY <1>2, <1>7, <2>1 DEF GetRam, Step, ReaderTypeOK
    <3> QED
      BY <1>1, <1>6, <2>1, <3>1
  <2>2. CASE ram # NoLedger
    <3>1. rd'.pc = "read_ram" /\ rd'.total = SizeOf[ram.dig]
      BY <1>2, <1>7, <2>2 DEF GetRam, NotFound, ReaderTypeOK
    <3> QED
      BY <1>1, <2>2, <3>1 DEF Active
  <2> QED
    BY <2>1, <2>2
<1>8. CASE ReadRam
  <2>1. CASE ram = NoLedger
    <3>1. rd.pc = "read_ram" /\ rd'.pc = "read_part" /\ rd'.total = rd.total
      BY <1>2, <1>8, <2>1 DEF ReadRam, Step, ReaderTypeOK
    <3> QED
      BY <1>1, <1>6, <2>1, <3>1
  <2>2. CASE ram # NoLedger
    <3>1. /\ rd.pc = "read_ram" /\ rd'.pc = "answer" /\ rd'.total = rd.total
          /\ rd'.size = SizeOf[ram.dig] /\ rd'.bytes = ram
          /\ ~(Offset >= SizeOf[ram.dig])
      BY <1>2, <1>8, <2>2 DEF ReadRam, NotFound, ReaderTypeOK
    <3>2. Offset < SizeOf[ram.dig]
      <4>1. ram \in Ledgers
        BY <2>2 DEF IInv, TypeOK, CacheTypeOK
      <4>2. SizeOf[ram.dig] \in Nat
        BY <4>1, LedgerType, IngressAssumption
      <4> QED
        BY <3>1, <4>2, OffsetType
    <3> QED
      BY <1>1, <1>5, <2>2, <3>1, <3>2 DEF Active
  <2> QED
    BY <2>1, <2>2
<1>9. CASE GetKey
  <2>1. /\ rd'.part = rd.part /\ rd'.total = rd.total
        /\ rd.pc \in {"get_part", "get_ver", "get_dig", "read_ver", "read_dig"}
        /\ \/ rd.pc \in {"get_part", "get_ver"} /\ rd'.pc \in {"get_ver", "get_dig"}
           \/ rd.pc = "get_dig" /\ nvs.dig # NoVal /\ rd'.pc = "get_size"
           \/ rd.pc \in {"read_ver", "read_dig"} /\ rd'.pc \in {"read_dig", "read_size"}
    BY <1>2, <1>9 DEF GetKey, Need, Step, NotFound, ReaderTypeOK
  <2>2. nvs.dig # NoVal => NvsPresent
    BY DEF IInv, KeysInOrder, NvsPresent
  <2> QED
    BY <1>1, <1>6, <2>1, <2>2
<1>10. CASE ReadPart
  <2>1. /\ rd.pc = "read_part" /\ rd'.pc = "read_ver" /\ rd'.part = nvs.part
        /\ rd'.total = rd.total
    BY <1>2, <1>10 DEF ReadPart, NotFound, ReaderTypeOK
  <2> QED
    BY <1>1, <1>6, <2>1
<1>11. CASE GetSize
  <2>1. /\ rd.pc \in {"get_size", "read_size"} /\ ~(Offset >= StoredSize)
        /\ rd'.part = rd.part
        /\ \/ rd.pc = "get_size" /\ rd'.pc = "read_ram" /\ rd'.total = StoredSize
           \/ /\ rd.pc = "read_size" /\ rd'.pc = "read_flash" /\ rd'.size = StoredSize
              /\ rd'.total = rd.total
    BY <1>2, <1>11 DEF GetSize, NotFound, ReaderTypeOK
  <2>2. ram = NoLedger /\ ~suspect
    BY <2>1
  <2>3. NvsPresent
    BY <2>1, <2>2, NvsLedgerType DEF Active, IInv
  <2>4. Active # NoLedger /\ StoredSize = SizeOf[Active.dig]
    BY <2>2, <2>3, FlashCoherent
  <2>5. Offset < StoredSize
    <3>1. StoredSize \in Nat
      BY DEF IInv, TypeOK, CacheTypeOK, StoredSize
    <3> QED
      BY <2>1, <3>1, OffsetType
  <2> QED
    BY <1>1, <1>5, <2>1, <2>2, <2>4, <2>5
<1>12. CASE ReadFlash
  <2>1. /\ rd.pc = "read_flash" /\ rd'.pc = "answer" /\ rd'.bytes = flash[rd.part]
        /\ rd'.total = rd.total /\ rd'.size = rd.size
    BY <1>2, <1>12 DEF ReadFlash, ReaderTypeOK
  <2>2. ram = NoLedger /\ ~suspect /\ Active # NoLedger /\ rd.part = nvs.part
    BY <2>1
  <2>3. NvsPresent
    BY <2>2, NvsLedgerType DEF Active, IInv
  <2>4. flash[rd.part] = Active
    BY <2>2, <2>3, FlashCoherent
  <2> QED
    BY <1>1, <1>5, <2>1, <2>2, <2>4
<1> QED
  BY <1>7, <1>8, <1>9, <1>10, <1>11, <1>12 DEF Serve, ReadFails, Answer, NotFound

\* As long as no ledger is installed beside it, a chunk answer is a block of the
\* served ledger, of the right length and with the right "more" - failing reads,
\* power losses and the hand-over from RAM to flash included (ChunkIsExact;
\* handle_chunk and bos_ledger_ingress_read_active).
THEOREM ChunkExact == Spec => []ChunkIsExact
<1>1. Init => StillInv
  <2>1. Init => rd = ReaderIdle
    BY DEF Init
  <2>2. ~ReaderIdle.still
    BY DEF ReaderIdle
  <2>. QED
    BY <2>1, <2>2 DEF StillInv
<1>2. IInv /\ StillInv /\ [Next]_vars => StillInv'
  <2>. SUFFICES ASSUME IInv, StillInv, [Next]_vars PROVE StillInv'
    OBVIOUS
  <2>1. CASE UNCHANGED vars
    BY <2>1 DEF vars, StillInv, Offset, Active, NvsLedger, NvsPresent
  <2>2. CASE Reboot
    BY <2>2 DEF Reboot, ReaderIdle, StillInv
  <2>. QED
    BY <2>1, <2>2, StillPush, StillServe DEF Next
<1>3. StillInv => ChunkIsExact
  BY DEF StillInv, ChunkIsExact, Length, More
<1>. QED
  BY <1>1, <1>2, <1>3, Inductive, PTL DEF Spec

\* With readable NVS what the mesh is sent comes from one whole ledger.
THEOREM ChunkWhole ==
  ASSUME "read" \notin Faults
  PROVE  Spec => []ChunkFromWholeLedger
<1>1. ChunkNotErased /\ ChunkIsExact => ChunkFromWholeLedger
  BY DEF ChunkFromWholeLedger
<1>. QED
  BY <1>1, NotErased, ChunkExact, PTL
-----------------------------------------------------------------------------
(* What is served, step by step, and the refinement of LedgerStore. *)

LEMMA ActiveStep ==
  ASSUME IInv, NEW p \in Pushers, Push(p) \/ Cache(p)
  PROVE  \/ Active' = Active /\ acked' = acked
         \/ /\ Active' \in Ledgers /\ acked' = acked
            /\ Active = NoLedger \/ Active'.ver > Active.ver
         \/ "gate" \in misread
         \/ Active' = Active /\ Active # NoLedger /\ acked' = Active.ver
<1>1. CASE Install(p)
  <2>1. /\ led[p] \in Ledgers /\ ram' = led[p] /\ acked' = acked
        /\ "gate" \in misread \/ Active = NoLedger \/ led[p].ver > Active.ver \/ led[p] = Active
    BY <1>1 DEF Install, IInv, TypeOK, PushTypeOK, HandlerInv
  <2>2. Active' = led[p]
    BY <2>1, LedgerType DEF Active
  <2> QED
    BY <2>1, <2>2
<1>2. CASE DropRam(p)
  BY <1>2, DropRamStep
<1>3. CASE Erase(p) \/ Write(p) \/ SetPart(p) \/ SetVersion(p) \/ SetDigest(p)
           \/ SetSize(p) \/ SetChunks(p)
  <2>1. pc[p] \in Persisting /\ ram' = ram /\ acked' = acked
    BY <1>3 DEF Persisting, Erase, Write, SetKey, SetPart, SetVersion, SetDigest,
       SetSize, SetChunks
  <2> QED
    BY <2>1, Cached DEF Active
<1>4. CASE UNCHANGED <<ram, nvs, flash, acked, suspect>>
  BY <1>4 DEF Active, NvsLedger, NvsPresent
<1>5. \/ Install(p) \/ DropRam(p) \/ Erase(p) \/ Write(p) \/ SetPart(p)
      \/ SetVersion(p) \/ SetDigest(p) \/ SetSize(p) \/ SetChunks(p)
      \/ UNCHANGED <<ram, nvs, flash, acked, suspect>>
  BY DEF Push, Cache, Unauthorized, Claim, ClaimRefused, Refuse, ReceiveFails,
     Received, EnvelopeInvalid, EnvelopeValid, LookupFails, Gate, ChooseTarget,
     CacheFails, TargetMissing, PartitionFails, MetadataFails, Commit, AnswerDegraded
<1> QED
  BY <1>1, <1>2, <1>3, <1>4, <1>5

LEMMA GrowStep ==
  ASSUME IInv, [Next]_vars
  PROVE  [\/ Reboot
          \/ "gate" \in misread
          \/ Active' = Active
          \/ Active' # NoLedger /\ (Active = NoLedger \/ Active'.ver > Active.ver)]_vars
<1>1. CASE UNCHANGED vars
  BY <1>1
<1>2. CASE Serve
  BY <1>2, ServeStep, StoreQuiet
<1>3. ASSUME NEW p \in Pushers, Push(p) \/ Cache(p)
      PROVE  \/ "gate" \in misread
             \/ Active' = Active
             \/ Active' # NoLedger /\ (Active = NoLedger \/ Active'.ver > Active.ver)
  BY <1>3, ActiveStep, IngressAssumption DEF Ledgers
<1> QED
  BY <1>1, <1>2, <1>3 DEF Next

\* The version gate, end to end: what is served never goes back while powered,
\* as long as no failed read hid it from the gate.
THEOREM Monotone == Spec => ServedOnlyGrows
<1> QED
  BY GrowStep, Inductive, PTL DEF Spec, ServedOnlyGrows

LEMMA RefineStep ==
  ASSUME IInv, [Next]_vars
  PROVE  [Store!StoreNext \/ "gate" \in misread]_<<Active, acked>>
<1> USE DEF Store!VersionOf, Store!Ledgers, Ledgers
<1> USE DEF Store!StoreNext
<1>1. CASE UNCHANGED vars
  BY <1>1, StoreQuiet DEF vars
<1>2. CASE Serve
  BY <1>2, ServeStep, StoreQuiet
<1>3. ASSUME NEW p \in Pushers, Push(p) \/ Cache(p)
      PROVE  [Store!StoreNext \/ "gate" \in misread]_<<Active, acked>>
  <2>1. CASE Active' = Active /\ acked' = acked
    BY <2>1
  <2>2. CASE /\ Active' \in Ledgers /\ acked' = acked
             /\ Active = NoLedger \/ Active'.ver > Active.ver
    <3>1. Active'.ver > Store!VersionOf(Active)
      BY <2>2, LedgerType
    <3> QED
      BY <2>2, <3>1 DEF Store!Replace
  <2>3. CASE Active' = Active /\ Active # NoLedger /\ acked' = Active.ver
    BY <2>3 DEF Store!Acknowledge
  <2> QED
    BY <1>3, <2>1, <2>2, <2>3, ActiveStep
<1>4. CASE Reboot /\ "gate" \notin misread
  <2>1. Active' = NvsLedger /\ acked' = acked /\ NvsLedger \in Ledgers \cup {NoLedger}
    BY <1>4, NvsLedgerType DEF Reboot, Active, NvsLedger, NvsPresent, IInv
  <2>2. CASE NvsPresent
    <3>1. NvsLedger \in Ledgers /\ NvsLedger.ver = nvs.ver /\ NvsLedger # NoLedger
      BY <2>2, NvsLedgerType DEF IInv
    <3>2. acked <= nvs.ver
      BY <1>4, <3>1, LedgerType DEF IInv, AckedVersionSurvives, TypeOK, CacheTypeOK
    <3>3. Active \in Ledgers /\ Active # NoLedger /\ nvs.ver <= Active.ver
      <4>1. CASE ram = NoLedger
        BY <3>1, <4>1, LedgerType DEF Active
      <4>2. CASE ram # NoLedger
        <5>1. Active = ram /\ ram.ver >= nvs.ver /\ ram \in Ledgers
          BY <1>4, <2>2, <4>2 DEF Active, IInv, RamNotOlder, TypeOK, CacheTypeOK
        <5> QED
          BY <3>1, <4>2, <5>1, LedgerType
      <4> QED
        BY <4>1, <4>2
    <3> QED
      BY <2>1, <3>1, <3>2, <3>3 DEF Store!Restart
  <2>3. CASE ~NvsPresent
    <3>1. NvsLedger = NoLedger /\ acked = 0
      BY <1>4, <2>3 DEF NvsLedger, IInv, AckedVersionSurvives
    <3>2. 0 <= Store!VersionOf(Active)
      BY LedgerType, NvsLedgerType DEF IInv
    <3> QED
      BY <2>1, <3>1, <3>2 DEF Store!Restart
  <2> QED
    BY <2>2, <2>3
<1> QED
  BY <1>1, <1>2, <1>3, <1>4 DEF Next

\* Every step of the ingress is one of the abstract store - a power loss may take
\* back what was never acknowledged, and nothing else - except while a push let in
\* past a gate that could not read active_part is served or half stored.
THEOREM Refinement == Spec => ImplementsStore
<1>1. Init => Store!StoreInit
  <2> SUFFICES ASSUME Init PROVE Active = NoLedger /\ acked = 0
    BY DEF Store!StoreInit
  <2>1. ~NvsPresent /\ ram = NoLedger /\ acked = 0
    BY DEF Init, NvsPresent
  <2> QED
    BY <2>1 DEF Active, NvsLedger
<1> QED
  BY <1>1, RefineStep, Inductive, PTL DEF Spec, ImplementsStore
=============================================================================
