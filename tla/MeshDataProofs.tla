--------------------------- MODULE MeshDataProofs ---------------------------
(***************************************************************************)
(* What holds of the mesh data for any ledgers, documents, peers and devices: *)
(* the advertisement is the manifest's, the book is the one that was           *)
(* answered, what the peer table offers was announced, the floating book is    *)
(* saved, and a synced clock was set.                                         *)
(***************************************************************************)
EXTENDS MeshData, TLAPS, SequenceTheorems, WellFoundedInduction

-----------------------------------------------------------------------------
(* The clock. *)

ClockInv ==
  /\ ClockTypeOK /\ SyncedMeansSet
  /\ \A s \in Setters : setting[s] \in {"set", "marked"} => clock \in Setters

\* The order of the sources.
LEMMA Ranks ==
  /\ Rank["none"] = 0 /\ Rank["nvs"] = 1 /\ Rank["gateway"] = 2 /\ Rank["sntp"] = 3
  /\ DOMAIN Rank = {"none", "nvs", "gateway", "sntp"}
BY DEF Rank

LEMMA ClockKeeps ==
  ASSUME ClockInv, ClockStep \/ ClockRestarts
  PROVE  ClockInv'
<1>1. CASE TimerPersists
  BY <1>1 DEF ClockInv, ClockTypeOK, SyncedMeansSet, IsSynced, TimerPersists, Persist
<1>2. CASE StartSntpOnce
  BY <1>2 DEF ClockInv, ClockTypeOK, SyncedMeansSet, IsSynced, StartSntpOnce
<1>3. CASE SntpSets \/ NoteSets
  BY <1>3 DEF ClockInv, ClockTypeOK, SyncedMeansSet, IsSynced, SntpSets, NoteSets, Setter,
              Setters, Times
<1>4. CASE SntpSyncCb \/ NoteMarks
  BY <1>4, Ranks DEF ClockInv, ClockTypeOK, SyncedMeansSet, IsSynced, SntpSyncCb, NoteMarks,
                     Setter, SetSource, Setters
<1>5. CASE SntpPersists \/ NotePersists
  BY <1>5 DEF ClockInv, ClockTypeOK, SyncedMeansSet, IsSynced, SntpPersists, NotePersists,
              Setter, Persist, Setters
<1>6. CASE NoteAllowed \/ NoteSkips
  BY <1>6 DEF ClockInv, ClockTypeOK, SyncedMeansSet, IsSynced, NoteAllowed, NoteSkips,
              Setter, Setters
<1>7. CASE ClockRestarts
  <2>1. source' \in {"none", "nvs"} /\ clock' \in Times
    BY <1>7 DEF ClockRestarts, Restored, Times
  <2>2. /\ sntpOn' \in BOOLEAN /\ UNCHANGED stored
        /\ setting' = [s \in Setters |-> "idle"]
    BY <1>7 DEF ClockRestarts
  <2>3. ~IsSynced'
    BY <2>1, Ranks DEF IsSynced
  <2>4. ClockTypeOK'
    BY <2>1, <2>2, Ranks DEF ClockInv, ClockTypeOK
  <2>5. QED
    BY <2>2, <2>3, <2>4 DEF ClockInv, SyncedMeansSet
<1>8. QED
  BY <1>1, <1>2, <1>3, <1>4, <1>5, <1>6, <1>7 DEF ClockStep

LEMMA ClockAlways == Spec => []ClockInv
<1>1. Init => ClockInv
  <2>1. SUFFICES ASSUME ClockInit PROVE ClockInv
    BY DEF Init, FloatingInit
  <2>2. ~IsSynced
    BY <2>1, Ranks DEF ClockInit, IsSynced
  <2>3. ClockTypeOK
    BY <2>1, Ranks DEF ClockInit, ClockTypeOK, Times
  <2>4. QED
    BY <2>1, <2>2, <2>3 DEF ClockInit, ClockInv, SyncedMeansSet
<1>2. ClockInv /\ [Next]_vars => ClockInv'
  <2>1. ASSUME ClockInv, FloatingPart PROVE ClockInv'
    <3>1. ASSUME UNCHANGED clockVars PROVE ClockInv'
      BY <2>1, <3>1 DEF ClockInv, ClockTypeOK, SyncedMeansSet, IsSynced, clockVars
    <3>2. QED
      BY <2>1, <3>1, ClockKeeps DEF FloatingPart, FloatingNext
  <2>2. ASSUME ClockInv, UNCHANGED floatingVars PROVE ClockInv'
    BY <2>2 DEF ClockInv, ClockTypeOK, SyncedMeansSet, IsSynced, floatingVars, clockVars
  <2>3. QED
    BY <2>1, <2>2 DEF Next, vars, AdvertPart, BookPart, PeersPart
<1>3. QED
  BY <1>1, <1>2, PTL DEF Spec

\* A clock that is called synced was set since the start, whatever the two
\* sources do to each other (SyncedMeansSet; bos_time_is_synced).
THEOREM ClockIsSet == Spec => []SyncedMeansSet
<1>1. ClockInv => SyncedMeansSet
  BY DEF ClockInv
<1>2. QED
  BY <1>1, ClockAlways, PTL

-----------------------------------------------------------------------------
(* The floating book. *)

\* While the book is saved it does not change: the task that saves it is the one
\* that writes it.
SavedInv ==
  /\ BookIsSaved
  /\ keeper = "save" => blob = floating
  /\ floating \in Seq(FloatingRow) /\ blob \in Seq(FloatingRow) /\ flashed \in Seq(FloatingRow)

\* A touch that finds all columns as they are leaves the book as it is.
LEMMA SameFields ==
  ASSUME NEW rs \in Seq(FloatingRow), NEW i \in DOMAIN rs, NEW f, rs[i].fields = f
  PROVE  [rs EXCEPT ![i].fields = f] = rs
<1>1. rs[i] \in FloatingRow
  OBVIOUS
<1>2. [rs[i] EXCEPT !.fields = f] = rs[i]
  BY <1>1 DEF FloatingRow
<1>3. QED
  BY <1>2

LEMMA StampedRows ==
  ASSUME NEW rs \in Seq(FloatingRow), NEW b \in BOOLEAN, NEW n \in Nat
  PROVE  [rs EXCEPT ![n].synced = b] \in Seq(FloatingRow)
<1>1. CASE n \in DOMAIN rs
  <2>1. rs[n] \in FloatingRow
    BY <1>1
  <2>2. [rs[n] EXCEPT !.synced = b] \in FloatingRow
    BY <2>1 DEF FloatingRow
  <2>3. QED
    BY <1>1, <2>2
<1>2. CASE n \notin DOMAIN rs
  <2>1. [rs EXCEPT ![n].synced = b] = [k \in DOMAIN rs |-> rs[k]]
    BY <1>2
  <2>2. rs = [k \in DOMAIN rs |-> rs[k]]
    OBVIOUS
  <2>3. QED
    BY <2>1, <2>2, Zenon
<1>3. QED
  BY <1>1, <1>2

LEMMA BookKeeps ==
  ASSUME SavedInv, ClockInv, BookStep
  PROVE  SavedInv'
<1>1. ASSUME NEW e \in Unpaired, NEW f \in Fields, TouchKnown(e, f) PROVE SavedInv'
  <2>1. PICK i \in RowOf(e) :
          /\ floating' = [floating EXCEPT ![i].fields = f]
          /\ dirty' = (dirty \/ floating[i].fields # f)
    BY <1>1 DEF TouchKnown
  <2>2. i \in DOMAIN floating /\ floating[i] \in FloatingRow
    BY DEF RowOf, SavedInv
  <2>3. [floating[i] EXCEPT !.fields = f] \in FloatingRow
    BY <2>2 DEF FloatingRow
  <2>4. floating' \in Seq(FloatingRow)
    BY <2>1, <2>2, <2>3 DEF SavedInv
  <2>5. floating[i].fields = f => floating' = floating
    BY <2>1, <2>2, SameFields DEF SavedInv
  <2>6. keeper = "scan" /\ UNCHANGED <<flashed, keeper, blob, lost, unread>>
    BY <1>1 DEF TouchKnown
  <2>7. QED
    BY <2>1, <2>4, <2>5, <2>6 DEF SavedInv, BookIsSaved
<1>2. ASSUME NEW e \in Unpaired, NEW f \in Fields, TouchNew(e, f) PROVE SavedInv'
  <2>1. [eui |-> e, fields |-> f, at |-> clock, synced |-> FALSE] \in FloatingRow
    BY DEF FloatingRow, ClockInv, ClockTypeOK
  <2>2. floating' \in Seq(FloatingRow)
    BY <1>2, <2>1, FloatingAssumption DEF TouchNew, Ring, SavedInv
  <2>3. QED
    BY <1>2, <2>2 DEF TouchNew, SavedInv, BookIsSaved
<1>3. CASE TouchStamps
  <2>1. floating' = [floating EXCEPT ![Len(floating)].synced = IsSynced]
    BY <1>3 DEF TouchStamps
  <2>2. floating' \in Seq(FloatingRow)
    <3>1. IsSynced \in BOOLEAN /\ floating \in Seq(FloatingRow) /\ Len(floating) \in Nat
      BY DEF SavedInv, IsSynced
    <3>2. QED
      BY <2>1, <3>1, StampedRows, Zenon
  <2>3. QED
    BY <1>3, <2>2 DEF TouchStamps, SavedInv, BookIsSaved
<1>4. CASE PersistTakes
  BY <1>4 DEF PersistTakes, SavedInv, BookIsSaved
<1>5. CASE PersistWrites
  BY <1>5 DEF PersistWrites, SavedInv, BookIsSaved
<1>6. CASE PersistRefused
  BY <1>6 DEF PersistRefused, Redirty, SavedInv, BookIsSaved
<1>7. QED
  BY <1>1, <1>2, <1>3, <1>4, <1>5, <1>6 DEF BookStep

LEMMA SavedAlways == Spec => []SavedInv
<1>1. Init => SavedInv
  BY DEF Init, FloatingInit, BookInit, SavedInv, BookIsSaved
<1>2. SavedInv /\ ClockInv /\ [Next]_vars => SavedInv'
  <2>1. ASSUME SavedInv, ClockInv, FloatingPart PROVE SavedInv'
    <3>1. CASE UNCHANGED bookVars
      BY <2>1, <3>1 DEF SavedInv, BookIsSaved, bookVars
    <3>2. CASE BookReloads
      <4>1. <<>> \in Seq(FloatingRow)
        OBVIOUS
      <4>2. QED
        BY <2>1, <3>2, <4>1 DEF SavedInv, BookIsSaved, BookReloads
    <3>3. QED
      BY <2>1, <3>1, <3>2, BookKeeps DEF FloatingPart, FloatingNext
  <2>2. ASSUME SavedInv, UNCHANGED floatingVars PROVE SavedInv'
    BY <2>2 DEF SavedInv, BookIsSaved, floatingVars, bookVars
  <2>3. QED
    BY <2>1, <2>2 DEF Next, vars, AdvertPart, BookPart, PeersPart
<1>3. QED
  BY <1>1, <1>2, ClockAlways, PTL DEF Spec

\* Between two scans the book is saved or due to be (BookIsSaved;
\* bos_floating_book_persist_if_dirty).
THEOREM FloatingSaved == Spec => []BookIsSaved
<1>1. SavedInv => BookIsSaved
  BY DEF SavedInv
<1>2. QED
  BY <1>1, SavedAlways, PTL

-----------------------------------------------------------------------------
(* The advertisement. *)

Current == advert = [led |-> served, counted |-> TRUE]

\* The push handler has nothing to publish, or has published it.
Settled == pusher \in {"idle", "push", "nudge"} \/ (pusher = "compare" /\ served = before)

\* What the main task is about to publish, if it is still the served ledger, has
\* its chunk count; what the push handler is about to publish is served.
AdvertInv ==
  /\ served \in Ledgers \cup {NoLedger}
  /\ part # "advert" => pusher = "idle" /\ boot = "init"
  /\ pusher = "push" => before = served
  /\ pusher = "compare" /\ served # before => served # NoLedger
  /\ pusher \in {"count", "publish"} => served # NoLedger /\ led["web"] = served
  /\ pusher = "publish" => counted["web"] = TRUE
  /\ boot \in {"count", "publish"} =>
       /\ led["boot"] \in Ledgers
       /\ led["boot"] = served \/ (served # NoLedger /\ led["boot"].ver < served.ver)
  /\ boot = "publish" /\ led["boot"] = served => counted["boot"] = TRUE
  /\ boot = "init" => ~started
  /\ Settled /\ boot = "done" /\ started /\ ~late /\ served # NoLedger => Current
  /\ DOMAIN led = Tasks /\ DOMAIN counted = Tasks

\* A newer ledger is served.
LEMMA Newer ==
  ASSUME AdvertInv, NEW l \in Ledgers, Replace(l)
  PROVE  /\ served' = l /\ served' # NoLedger /\ served' # served
         /\ \A k \in Ledgers : k = served \/ (served # NoLedger /\ k.ver < served.ver) =>
              served' # k /\ k.ver < served'.ver
<1>1. served' = l /\ l # NoLedger /\ l.ver \in Nat /\ l.ver > VersionOf(served)
  BY AdvertAssumption DEF Replace, Ledgers
<1>2. served # NoLedger => served.ver \in Nat /\ l.ver > served.ver
  BY <1>1, AdvertAssumption DEF VersionOf, AdvertInv, Ledgers
<1>3. \A k \in Ledgers : k.ver \in Nat /\ k # NoLedger
  BY AdvertAssumption DEF Ledgers
<1>4. QED
  BY <1>1, <1>2, <1>3

LEMMA PushKeeps ==
  ASSUME AdvertInv, part' = part, part = "advert", PushBegins \/ PushStep
  PROVE  AdvertInv'
<1>1. CASE PushBegins
  BY <1>1 DEF PushBegins, AdvertInv, Settled, Current
<1>2. CASE PushIngress
  <2>1. CASE UNCHANGED <<served, floor>>
    BY <1>2, <2>1 DEF PushIngress, AdvertInv, Settled, Current
  <2>2. ASSUME NEW l \in Ledgers, Replace(l) PROVE AdvertInv'
    BY <1>2, <2>2, Newer DEF PushIngress, AdvertInv, Settled, Current
  <2>3. QED
    BY <1>2, <2>1, <2>2 DEF PushIngress
<1>3. CASE PushUnchanged
  BY <1>3 DEF PushUnchanged, AdvertInv, Settled, Current
<1>4. CASE PushChanged
  BY <1>4 DEF PushChanged, AdvertInv, Settled, Current, Tasks
<1>5. CASE PushCounts
  BY <1>5 DEF PushCounts, CountChunks, AdvertInv, Settled, Current, Tasks
<1>6. CASE PushPublishes
  BY <1>6 DEF PushPublishes, PublishLocked, AdvertInv, Settled, Current, Tasks
<1>7. CASE PushNudges
  BY <1>7 DEF PushNudges, AdvertInv, Settled, Current
<1>8. QED
  BY <1>1, <1>2, <1>3, <1>4, <1>5, <1>6, <1>7 DEF PushStep

LEMMA BootKeeps ==
  ASSUME AdvertInv, part' = part, part = "advert", BootStep
  PROVE  AdvertInv'
<1>1. CASE BootInit
  BY <1>1 DEF BootInit, AdvertInv, Settled, Current
<1>2. CASE BootReads
  BY <1>2 DEF BootReads, AdvertInv, Settled, Current, Tasks
<1>3. CASE BootCounts
  BY <1>3, AdvertAssumption DEF BootCounts, CountChunks, AdvertInv, Settled, Current, Tasks
<1>4. CASE BootPublishes
  BY <1>4 DEF BootPublishes, AdvertInv, Settled, Current, Tasks
<1>5. QED
  BY <1>1, <1>2, <1>3, <1>4 DEF BootStep

LEMMA AdvertAlways == Spec => []AdvertInv
<1>1. Init => AdvertInv
  BY DEF Init, AdvertInit, StoreInit, AdvertInv, Settled, Tasks
<1>2. AdvertInv /\ [Next]_vars => AdvertInv'
  <2>1. ASSUME AdvertInv, AdvertPart PROVE AdvertInv'
    <3>1. part' = part /\ part = "advert"
      BY <2>1 DEF AdvertPart
    <3>2. CASE AdvertAcknowledge
      BY <2>1, <3>1, <3>2 DEF AdvertAcknowledge, Acknowledge, AdvertInv, Settled, Current
    <3>3. CASE AdvertRestart
      BY <2>1, <3>1, <3>3 DEF AdvertRestart, AdvertStart, Restart, AdvertInv, Settled, Tasks
    <3>4. QED
      BY <2>1, <3>1, <3>2, <3>3, PushKeeps, BootKeeps DEF AdvertPart, AdvertNext
  <2>2. ASSUME AdvertInv, PeersPart PROVE AdvertInv'
    <3>1. part' = part /\ part = "peers" /\ UNCHANGED publishVars
      BY <2>2 DEF PeersPart
    <3>2. served' \in Ledgers \cup {NoLedger}
      BY <2>2 DEF PeersPart, PeerNext, BrowseAttach, ScanBegins, ScanTakes, ScanMerges, ScanEnds,
                  ReaderSamples, ReaderRenders, ReaderFails, PeerRegisters, PeersLedgerPushed,
                  Replace, TimePasses, PeersRestart, storeVars, AdvertInv
    <3>3. QED
      BY <2>2, <3>1, <3>2 DEF AdvertInv, Settled, publishVars
  <2>3. ASSUME AdvertInv, UNCHANGED <<part, advertVars>> PROVE AdvertInv'
    BY <2>3 DEF AdvertInv, Settled, Current, advertVars, publishVars
  <2>4. QED
    BY <2>1, <2>2, <2>3 DEF Next, vars, BookPart, FloatingPart
<1>3. QED
  BY <1>1, <1>2, PTL DEF Spec

\* Between pushes the advertisement is the manifest's ledger with its chunk count
\* (AdvertIsCurrent; bos_ledger_mesh_serve_publish_active).
THEOREM AdvertFollows == Spec => []AdvertIsCurrent
<1>1. AdvertInv => AdvertIsCurrent
  BY DEF AdvertInv, AdvertIsCurrent, Manifest, Settled, Current
<1>2. QED
  BY <1>1, AdvertAlways, PTL

-----------------------------------------------------------------------------
(* What the mesh was told. *)

\* Every ledger the mesh was told of, or a task holds to tell it.
Told == {nudge} \cup {led[t] : t \in Tasks} \cup (IF advert = NoAdvert THEN {} ELSE {advert.led})

\* None of them is a ledger the manifest never had: the served one only grows, and
\* each was read from it.
ToldInv ==
  /\ AdvertTypeOK
  /\ \A l \in Told : l = NoLedger \/ l = served \/ (served # NoLedger /\ l.ver < served.ver)
  /\ part # "advert" => Told = {NoLedger}

LEMMA ToldTyped ==
  ASSUME AdvertTypeOK
  PROVE  Told \subseteq Ledgers \cup {NoLedger}
BY DEF AdvertTypeOK, Told, Published

\* A step that tells nothing new.
LEMMA NothingNew ==
  ASSUME ToldInv, AdvertTypeOK', Told' \subseteq Told \cup {served, NoLedger}, served' = served,
         part' = part, part = "advert"
  PROVE  ToldInv'
BY DEF ToldInv

LEMMA TellsNothing ==
  ASSUME AdvertTypeOK, UNCHANGED <<led, advert, nudge>>
  PROVE  Told' = Told
BY DEF Told

LEMMA PushTells ==
  ASSUME AdvertInv, ToldInv, part' = part, part = "advert", PushBegins \/ PushStep
  PROVE  ToldInv'
<1>1. AdvertTypeOK /\ served \in Ledgers \cup {NoLedger} /\ "web" \in Tasks
  BY DEF ToldInv, AdvertInv, Tasks
<1>2. CASE PushBegins \/ PushUnchanged
  <2>1. AdvertTypeOK' /\ Told' = Told /\ served' = served
    BY <1>1, <1>2, TellsNothing DEF PushBegins, PushUnchanged, AdvertTypeOK
  <2>2. QED
    BY <2>1, NothingNew
<1>3. CASE PushIngress
  <2>1. AdvertTypeOK' /\ Told' = Told
    BY <1>1, <1>3, TellsNothing DEF PushIngress, AdvertTypeOK
  <2>2. ASSUME NEW l \in Ledgers, Replace(l) PROVE ToldInv'
    <3>1. Told \subseteq Ledgers \cup {NoLedger}
      BY <1>1, ToldTyped
    <3>2. /\ served' # NoLedger
          /\ \A k \in Ledgers : k = served \/ (served # NoLedger /\ k.ver < served.ver) =>
               k.ver < served'.ver
      BY <2>2, Newer
    <3>3. QED
      BY <2>1, <3>1, <3>2 DEF ToldInv
  <2>3. QED
    BY <1>3, <2>1, <2>2, NothingNew DEF PushIngress
<1>4. CASE PushChanged
  <2>1. led' = [led EXCEPT !["web"] = served] /\ UNCHANGED <<served, advert, nudge>>
    BY <1>4 DEF PushChanged
  <2>2. led' \in [Tasks -> Ledgers \cup {NoLedger}]
    BY <1>1, <2>1 DEF AdvertTypeOK
  <2>3. AdvertTypeOK'
    BY <1>1, <1>4, <2>1, <2>2 DEF PushChanged, AdvertTypeOK
  <2>4. Told' \subseteq Told \cup {served, NoLedger}
    BY <1>1, <2>1 DEF Told, AdvertTypeOK
  <2>5. QED
    BY <2>1, <2>3, <2>4, NothingNew
<1>5. CASE PushCounts
  <2>1. counted' \in [Tasks -> BOOLEAN]
    BY <1>1, <1>5 DEF PushCounts, CountChunks, AdvertTypeOK
  <2>2. AdvertTypeOK' /\ Told' = Told /\ served' = served
    BY <1>1, <1>5, <2>1, TellsNothing DEF PushCounts, AdvertTypeOK
  <2>3. QED
    BY <2>2, NothingNew
<1>6. CASE PushPublishes
  <2>1. led["web"] \in Ledgers /\ counted["web"] \in BOOLEAN
    BY <1>1, <1>6 DEF PushPublishes, AdvertInv, AdvertTypeOK
  <2>2. /\ advert' \in {[led |-> led["web"], counted |-> counted["web"]], advert, NoAdvert}
        /\ late' \in BOOLEAN /\ UNCHANGED <<served, led, nudge>>
    BY <1>1, <1>6 DEF PushPublishes, PublishLocked, AdvertTypeOK
  <2>3. AdvertTypeOK'
    BY <1>1, <1>6, <2>1, <2>2 DEF PushPublishes, AdvertTypeOK, Published
  <2>4. Told' \subseteq Told
    BY <1>1, <2>2 DEF Told
  <2>5. QED
    BY <2>2, <2>3, <2>4, NothingNew
<1>7. CASE PushNudges
  <2>1. led["web"] \in Ledgers \cup {NoLedger} /\ nudge' \in {led["web"], nudge}
    BY <1>1, <1>7 DEF PushNudges, AdvertTypeOK
  <2>2. AdvertTypeOK' /\ served' = served
    BY <1>1, <1>7, <2>1 DEF PushNudges, AdvertTypeOK
  <2>3. Told' \subseteq Told
    BY <1>1, <1>7, <2>1 DEF PushNudges, Told
  <2>4. QED
    BY <2>2, <2>3, NothingNew
<1>8. QED
  BY <1>2, <1>3, <1>4, <1>5, <1>6, <1>7 DEF PushStep

LEMMA BootTells ==
  ASSUME AdvertInv, ToldInv, part' = part, part = "advert", BootStep
  PROVE  ToldInv'
<1>1. AdvertTypeOK /\ served \in Ledgers \cup {NoLedger} /\ "boot" \in Tasks
  BY DEF ToldInv, AdvertInv, Tasks
<1>2. CASE BootInit
  <2>1. AdvertTypeOK' /\ Told' = Told /\ served' = served
    BY <1>1, <1>2, TellsNothing DEF BootInit, AdvertTypeOK
  <2>2. QED
    BY <2>1, NothingNew
<1>3. CASE BootReads
  <2>1. led' \in {led, [led EXCEPT !["boot"] = served]} /\ UNCHANGED <<served, advert, nudge>>
    BY <1>3 DEF BootReads
  <2>2. led' \in [Tasks -> Ledgers \cup {NoLedger}]
    BY <1>1, <2>1 DEF AdvertTypeOK
  <2>3. AdvertTypeOK'
    BY <1>1, <1>3, <2>1, <2>2 DEF BootReads, AdvertTypeOK
  <2>4. Told' \subseteq Told \cup {served, NoLedger}
    BY <1>1, <2>1 DEF Told, AdvertTypeOK
  <2>5. QED
    BY <2>1, <2>3, <2>4, NothingNew
<1>4. CASE BootCounts
  <2>1. counted' \in [Tasks -> BOOLEAN]
    BY <1>1, <1>4 DEF BootCounts, CountChunks, AdvertTypeOK
  <2>2. AdvertTypeOK' /\ Told' = Told /\ served' = served
    BY <1>1, <1>4, <2>1, TellsNothing DEF BootCounts, AdvertTypeOK
  <2>3. QED
    BY <2>2, NothingNew
<1>5. CASE BootPublishes
  <2>1. led["boot"] \in Ledgers /\ counted["boot"] \in BOOLEAN
    BY <1>1, <1>5 DEF BootPublishes, AdvertInv, AdvertTypeOK
  <2>2. /\ advert' \in {[led |-> led["boot"], counted |-> counted["boot"]], advert, NoAdvert}
        /\ late' \in BOOLEAN /\ UNCHANGED <<served, led, nudge>>
    BY <1>1, <1>5 DEF BootPublishes, AdvertTypeOK
  <2>3. AdvertTypeOK'
    BY <1>1, <1>5, <2>1, <2>2 DEF BootPublishes, AdvertTypeOK, Published
  <2>4. Told' \subseteq Told
    BY <1>1, <2>2 DEF Told
  <2>5. QED
    BY <2>2, <2>3, <2>4, NothingNew
<1>6. QED
  BY <1>2, <1>3, <1>4, <1>5 DEF BootStep

LEMMA ToldAlways == Spec => []ToldInv
<1>1. Init => ToldInv
  BY DEF Init, AdvertInit, StoreInit, ToldInv, AdvertTypeOK, Told, Tasks
<1>2. AdvertInv /\ ToldInv /\ [Next]_vars => ToldInv'
  <2>1. ASSUME AdvertInv, ToldInv, AdvertPart PROVE ToldInv'
    <3>1. part' = part /\ part = "advert"
      BY <2>1 DEF AdvertPart
    <3>2. CASE AdvertAcknowledge
      <4>1. AdvertTypeOK' /\ Told' = Told /\ served' = served
        BY <2>1, <3>2, TellsNothing DEF AdvertAcknowledge, Acknowledge, ToldInv, AdvertTypeOK
      <4>2. QED
        BY <2>1, <3>1, <4>1, NothingNew
    <3>3. CASE AdvertRestart
      <4>1. /\ led' = [t \in Tasks |-> NoLedger] /\ advert' = NoAdvert /\ nudge' = NoLedger
            /\ AdvertTypeOK'
        BY <3>3 DEF AdvertRestart, AdvertStart, AdvertTypeOK
      <4>2. Told' = {NoLedger}
        BY <4>1 DEF Told, Tasks
      <4>3. QED
        BY <4>1, <4>2 DEF ToldInv
    <3>4. QED
      BY <2>1, <3>1, <3>2, <3>3, PushTells, BootTells DEF AdvertPart, AdvertNext
  <2>2. ASSUME ToldInv, UNCHANGED <<part, publishVars>>, part # "advert" \/ served' = served
        PROVE  ToldInv'
    <3>1. AdvertTypeOK' /\ Told' = Told
      BY <2>2, TellsNothing DEF publishVars, ToldInv, AdvertTypeOK
    <3>2. QED
      BY <2>2, <3>1 DEF ToldInv
  <2>3. QED
    BY <2>1, <2>2 DEF Next, vars, PeersPart, BookPart, FloatingPart, advertVars
<1>3. QED
  BY <1>1, <1>2, AdvertAlways, PTL DEF Spec

\* Neither the advertisement nor a nudge names a ledger newer than the manifest, or
\* another one of its version (ToldIsServed; bos_ledger_mesh_serve_publish_active,
\* bos_mesh_announce_fire).
THEOREM ToldServed == Spec => []ToldIsServed
<1>1. AdvertInv /\ ToldInv => ToldIsServed
  BY DEF AdvertInv, ToldInv, ToldIsServed, Told, Manifest, VersionOf
<1>2. QED
  BY <1>1, AdvertAlways, ToldAlways, PTL
-----------------------------------------------------------------------------
(* The peer table. *)

PeerRow == [id : Peers \ {Self}, tmfs : BOOLEAN, mesh : BOOLEAN, addr : BOOLEAN,
            keys : LedgerKeys, seen : Nat]

\* Each field of a row was in some record of that node; if its records name all
\* fields or none, they come from one.
Held(keys, id) ==
  /\ keys.ver # NoKey => \E k \in announced[id] : k.ver = keys.ver
  /\ keys.dig # NoKey => \E k \in announced[id] : k.dig = keys.dig
  /\ keys.chunks # NoKey => \E k \in announced[id] : k.chunks = keys.chunks
  /\ NamesAllOrNone(id) => keys = NoNames \/ keys \in announced[id]

\* A merge of what the node announced keeps that.
LEMMA MergedHeld ==
  ASSUME NEW id, NEW old \in LedgerKeys, NEW new \in announced[id],
         announced[id] \subseteq LedgerKeys, Held(old, id)
  PROVE  MergedKeys(old, new) \in LedgerKeys /\ Held(MergedKeys(old, new), id)
<1> DEFINE keys == MergedKeys(old, new)
<1>1. /\ keys = [ver |-> keys.ver, dig |-> keys.dig, chunks |-> keys.chunks]
      /\ keys.ver = Over(new.ver, old.ver) /\ keys.dig = Over(new.dig, old.dig)
      /\ keys.chunks = Over(new.chunks, old.chunks)
  BY DEF MergedKeys
<1>2. new \in LedgerKeys
  OBVIOUS
<1>3. keys \in LedgerKeys
  BY <1>1, <1>2 DEF LedgerKeys, Over
<1>4. /\ old = [ver |-> old.ver, dig |-> old.dig, chunks |-> old.chunks]
      /\ new = [ver |-> new.ver, dig |-> new.dig, chunks |-> new.chunks]
      /\ DOMAIN new = {"ver", "dig", "chunks"}
  BY <1>2 DEF LedgerKeys
<1>5. new = NoNames => keys = old
  BY <1>1, <1>4 DEF NoNames, Over
<1>6. (\A f \in DOMAIN new : new[f] # NoKey) => keys = new
  BY <1>1, <1>4 DEF Over
<1>7. /\ keys.ver # NoKey => \E k \in announced[id] : k.ver = keys.ver
      /\ keys.dig # NoKey => \E k \in announced[id] : k.dig = keys.dig
      /\ keys.chunks # NoKey => \E k \in announced[id] : k.chunks = keys.chunks
  <2> HIDE DEF keys
  <2>1. QED
    BY <1>1 DEF Held, Over
<1>8. NamesAllOrNone(id) => keys = NoNames \/ keys \in announced[id]
  <2>1. NamesAllOrNone(id) => keys = old \/ keys = new
    BY <1>5, <1>6 DEF NamesAllOrNone
  <2> HIDE DEF keys
  <2>2. QED
    BY <2>1 DEF Held
<1>9. QED
  BY <1>3, <1>7, <1>8 DEF Held

\* The scan merges what the host it names announced; the host cannot change
\* meanwhile, since the scan holds the OpenThread lock.
MergeInv ==
  merging # <<>> =>
    /\ browse = "scan" /\ merging[3] \in Nat
    /\ merging[1] \in Peers \ {Self} /\ registered[merging[1]] # NoHost
    /\ merging[2] \in registered[merging[1]].svc

HostsInv ==
  /\ registered = [p \in Peers |-> registered[p]]
  /\ \A p \in Peers : registered[p] \in Hosts[p] \cup {NoHost}
  /\ announced \in [Peers -> SUBSET LedgerKeys]
  /\ \A p \in Peers : registered[p] # NoHost =>
       \A svc \in registered[p].svc : registered[p].keys[svc] \in announced[p]

PeerInv ==
  /\ HostsInv /\ MergeInv
  /\ rows \in Seq(PeerRow) /\ Len(rows) <= PeerMax
  /\ \A i \in DOMAIN rows : Held(rows[i].keys, rows[i].id)
  /\ todo \subseteq {t \in Peers \X Services :
                     registered[t[1]] # NoHost /\ t[2] \in registered[t[1]].svc}
  /\ todo # {} => browse = "scan"
  /\ tick \in Nat /\ reader.now \in Nat /\ reader.active \in Ledgers \cup {NoLedger}
  /\ FreshPeerIsOnline /\ OfferedPeersHold

\* Answering nothing keeps both properties.
LEMMA SilentHolds ==
  ASSUME Silent
  PROVE  FreshPeerIsOnline' /\ OfferedPeersHold'
BY DEF Silent, NoAnswer, FreshPeerIsOnline, OfferedPeersHold

Updated(r, t, m, a, k, s) ==
  [r EXCEPT !.tmfs = t, !.mesh = m, !.addr = a, !.keys = k, !.seen = s]

LEMMA RowUpdate ==
  ASSUME NEW r \in PeerRow, NEW t \in BOOLEAN, NEW m \in BOOLEAN, NEW a \in BOOLEAN,
         NEW k \in LedgerKeys, NEW s \in Nat
  PROVE  /\ Updated(r, t, m, a, k, s) \in PeerRow
         /\ Updated(r, t, m, a, k, s).id = r.id /\ Updated(r, t, m, a, k, s).keys = k
BY DEF PeerRow, Updated

\* Writing one row, wherever it is.
LEMMA RowWritten ==
  ASSUME NEW rs \in Seq(PeerRow), NEW r \in PeerRow, NEW i
  PROVE  /\ [rs EXCEPT ![i] = r] \in Seq(PeerRow) /\ Len([rs EXCEPT ![i] = r]) = Len(rs)
         /\ \A j \in DOMAIN rs : [rs EXCEPT ![i] = r][j] \in {r, rs[j]}
         /\ DOMAIN [rs EXCEPT ![i] = r] = DOMAIN rs
<1>1. CASE i \in 1 .. Len(rs)
  BY <1>1, ExceptSeq
<1>2. CASE i \notin 1 .. Len(rs)
  <2>1. [rs EXCEPT ![i] = r] = [j \in DOMAIN rs |-> rs[j]]
    BY <1>2
  <2>2. rs = [j \in DOMAIN rs |-> rs[j]]
    OBVIOUS
  <2>3. [rs EXCEPT ![i] = r] = rs
    BY <2>1, <2>2, Zenon
  <2>4. QED
    BY <2>3
<1>3. QED
  BY <1>1, <1>2

\* A merge writes one row, of a host that said so.
LEMMA MergeKeeps ==
  ASSUME PeerInv, ScanMerges
  PROVE  PeerInv'
<1> DEFINE id == merging[1]
           host == registered[id]
           News(r) == Merged(r, merging[2], host, merging[3])
<1>1. /\ id \in Peers \ {Self} /\ merging[3] \in Nat /\ host \in Hosts[id]
      /\ host.keys[merging[2]] \in announced[id] /\ announced[id] \subseteq LedgerKeys
  BY DEF ScanMerges, PeerInv, MergeInv, HostsInv
<1>2. host.addr \in BOOLEAN
  BY <1>1, PeerAssumption
<1>3. \A r \in PeerRow : r.id = id /\ Held(r.keys, id) =>
        News(r) \in PeerRow /\ News(r).id = id /\ Held(News(r).keys, id)
  <2>1. SUFFICES ASSUME NEW r \in PeerRow, r.id = id, Held(r.keys, id)
                 PROVE  News(r) \in PeerRow /\ News(r).id = id /\ Held(News(r).keys, id)
    OBVIOUS
  <2>2. /\ r.tmfs \in BOOLEAN /\ r.mesh \in BOOLEAN /\ r.addr \in BOOLEAN
        /\ (r.tmfs \/ merging[2] = "tmfs") \in BOOLEAN /\ (r.mesh \/ merging[2] = "mesh") \in BOOLEAN
        /\ (r.addr \/ host.addr) \in BOOLEAN
    BY DEF PeerRow
  <2>3. /\ MergedKeys(r.keys, host.keys[merging[2]]) \in LedgerKeys
        /\ Held(MergedKeys(r.keys, host.keys[merging[2]]), id)
    <3>1. r.keys \in LedgerKeys
      BY DEF PeerRow
    <3>2. QED
      BY <1>1, <2>1, <3>1, MergedHeld
  <2>4. /\ News(r) \in PeerRow /\ News(r).id = r.id
        /\ News(r).keys = MergedKeys(r.keys, host.keys[merging[2]])
    <3> DEFINE t == r.tmfs \/ merging[2] = "tmfs"
               m == r.mesh \/ merging[2] = "mesh"
               a == r.addr \/ host.addr
               k == MergedKeys(r.keys, host.keys[merging[2]])
    <3>1. News(r) = Updated(r, t, m, a, k, merging[3])
      BY DEF Merged, Updated
    <3>2. t \in BOOLEAN /\ m \in BOOLEAN /\ a \in BOOLEAN /\ k \in LedgerKeys
      BY <2>2, <2>3
    <3>3. /\ Updated(r, t, m, a, k, merging[3]) \in PeerRow
          /\ Updated(r, t, m, a, k, merging[3]).id = r.id
          /\ Updated(r, t, m, a, k, merging[3]).keys = k
      <4> HIDE DEF t, m, a, k
      <4>1. QED
        BY <1>1, <3>2, RowUpdate
    <3>4. QED
      BY <3>1, <3>3, Zenon
  <2>5. QED
    BY <2>1, <2>3, <2>4, Zenon
<1>4. NewRow(id) \in PeerRow /\ NewRow(id).id = id /\ Held(NewRow(id).keys, id)
  BY <1>1 DEF NewRow, NoNames, LedgerKeys, PeerRow, Held
<1>5. \/ \E i \in DOMAIN rows : rows[i].id = id /\ rows' = [rows EXCEPT ![i] = News(rows[i])]
      \/ rows' = Append(rows, News(NewRow(id))) /\ Len(rows) < PeerMax
      \/ rows' = [rows EXCEPT ![Oldest] = News(NewRow(id))]
  BY DEF ScanMerges, MergeInto, Find, Cleared
<1>6. ASSUME NEW i, NEW r \in PeerRow, Held(r.keys, r.id), rows' = [rows EXCEPT ![i] = r]
      PROVE  /\ rows' \in Seq(PeerRow) /\ Len(rows') <= PeerMax
             /\ \A j \in DOMAIN rows' : Held(rows'[j].keys, rows'[j].id)
  <2>1. rows \in Seq(PeerRow) /\ Len(rows) <= PeerMax
        /\ \A j \in DOMAIN rows : Held(rows[j].keys, rows[j].id)
    BY DEF PeerInv
  <2>2. QED
    BY <1>6, <2>1, RowWritten
<1>7. /\ rows' \in Seq(PeerRow) /\ Len(rows') <= PeerMax
      /\ \A j \in DOMAIN rows' : Held(rows'[j].keys, rows'[j].id)
  <2> DEFINE Good == /\ rows' \in Seq(PeerRow) /\ Len(rows') <= PeerMax
                     /\ \A j \in DOMAIN rows' : Held(rows'[j].keys, rows'[j].id)
  <2>1. /\ rows \in Seq(PeerRow) /\ Len(rows) <= PeerMax
        /\ \A j \in DOMAIN rows : rows[j] \in PeerRow /\ Held(rows[j].keys, rows[j].id)
    BY DEF PeerInv
  <2>2. ASSUME NEW i \in DOMAIN rows, rows[i].id = id, rows' = [rows EXCEPT ![i] = News(rows[i])]
        PROVE  Good
    <3>1. News(rows[i]) \in PeerRow /\ Held(News(rows[i]).keys, News(rows[i]).id)
      BY <1>3, <2>1, <2>2, Zenon
    <3>2. QED
      BY <1>6, <2>2, <3>1, Zenon
  <2>3. News(NewRow(id)) \in PeerRow /\ Held(News(NewRow(id)).keys, News(NewRow(id)).id)
    BY <1>3, <1>4, Zenon
  <2>4. CASE rows' = Append(rows, News(NewRow(id))) /\ Len(rows) < PeerMax
    <3> DEFINE r == News(NewRow(id))
    <3>1. r \in PeerRow /\ Held(r.keys, r.id) /\ rows' = Append(rows, r) /\ Len(rows) < PeerMax
      BY <2>3, <2>4
    <3> HIDE DEF r
    <3>2. QED
      <4>1. rows' \in Seq(PeerRow) /\ Len(rows') = Len(rows) + 1
        BY <2>1, <3>1, AppendProperties
      <4>2. Len(rows') <= PeerMax
        BY <2>1, <3>1, <4>1, PeerAssumption
      <4>3. ASSUME NEW j \in DOMAIN rows' PROVE rows'[j] = r \/ (j \in DOMAIN rows /\ rows'[j] = rows[j])
        BY <2>1, <3>1, <4>1, AppendProperties
      <4>4. QED
        BY <2>1, <3>1, <4>1, <4>2, <4>3
  <2>5. CASE rows' = [rows EXCEPT ![Oldest] = News(NewRow(id))]
    BY <1>6, <2>3, <2>5, Zenon
  <2>6. QED
    BY <1>5, <2>2, <2>4, <2>5, Zenon
<1>8. UNCHANGED <<registered, browse, todo, reader, announced, tick>> /\ merging' = <<>> /\ Silent
  BY DEF ScanMerges
<1>9. QED
  BY <1>7, <1>8, SilentHolds DEF PeerInv, HostsInv, MergeInv, Held, NamesAllOrNone

\* A page that read the time before it waited finds no row older than none.
LEMMA RenderedFresh ==
  ASSUME NEW r \in PeerRow, NEW a, NEW n \in Nat, r.seen >= n
  PROVE  TransferState(r, a, n) \notin {"stale", "offline"}
<1>1. r.seen \in Nat /\ Age(n, r.seen) = 0
  BY DEF Age, PeerRow
<1>2. ~(Age(n, r.seen) > OfflineAfter) /\ Age(n, r.seen) <= StaleAfter /\ ~(Age(n, r.seen) > StaleAfter)
  BY <1>1, PeerAssumption
<1>3. QED
  BY <1>2 DEF TransferState

LEMMA ReadersKeep ==
  ASSUME PeerInv, served \in Ledgers \cup {NoLedger},
         (\E r \in Readers : ReaderSamples(r)) \/ ReaderRenders \/ ReaderFails
  PROVE  PeerInv'
<1>1. ASSUME NEW r \in Readers, ReaderSamples(r) PROVE PeerInv'
  BY <1>1, SilentHolds DEF ReaderSamples, scanVars, PeerInv, HostsInv, MergeInv, Held, NamesAllOrNone
<1>2. CASE ReaderFails
  BY <1>2, SilentHolds DEF ReaderFails, scanVars, Idle, PeerInv, HostsInv, MergeInv, Held, NamesAllOrNone
<1>3. CASE ReaderRenders
  <2>1. /\ UNCHANGED <<registered, rows, browse, todo, merging, announced, tick>>
        /\ reader' = Idle
        /\ answer'.now = reader.now /\ answer'.active = reader.active
        /\ answer'.shown = [i \in DOMAIN rows |-> Shown(rows[i], reader.active, reader.now)]
        /\ answer'.offered = Offered(reader.active, reader.now)
    BY <1>3 DEF ReaderRenders, scanVars
  <2>2. FreshPeerIsOnline'
    <3>1. SUFFICES ASSUME NEW i \in DOMAIN rows, rows[i].seen >= reader.now
                   PROVE  TransferState(rows[i], reader.active, reader.now) \notin {"stale", "offline"}
      BY <2>1 DEF FreshPeerIsOnline, Shown
    <3>2. rows[i] \in PeerRow /\ reader.now \in Nat
      BY DEF PeerInv
    <3>3. QED
      BY <3>1, <3>2, RenderedFresh
  <2>3. OfferedPeersHold'
    <3>1. /\ answer'.offered = Offered(reader.active, reader.now) /\ announced' = announced
          /\ answer'.active = reader.active
      BY <2>1
    <3>2. ASSUME NEW r \in Offered(reader.active, reader.now)
          PROVE  /\ r.id # Self
                 /\ \E k \in announced[r.id] : k.ver = reader.active.ver
                 /\ \E k \in announced[r.id] : k.dig \in Prefixes[reader.active.dig]
                 /\ \E k \in announced[r.id] : k.chunks = "all"
                 /\ NamesAllOrNone(r.id) =>
                      \E k \in announced[r.id] : /\ k.ver = reader.active.ver
                                                /\ k.dig \in Prefixes[reader.active.dig]
                                                /\ k.chunks = "all"
      <4>1. PICK i \in DOMAIN rows :
              r = rows[i] /\ IsCurrent(rows[i], reader.active) /\ rows[i].keys.chunks = "all"
        BY <3>2 DEF Offered
      <4>2. r \in PeerRow /\ Held(r.keys, r.id)
        BY <4>1 DEF PeerInv
      <4>3. /\ r.keys.ver = reader.active.ver /\ r.keys.dig \in Prefixes[reader.active.dig]
            /\ r.keys.chunks = "all" /\ r.keys.ver \in Versions \cup {NoKey}
            /\ r.keys.dig \in Texts \cup {NoKey} /\ r.id # Self
        BY <4>1, <4>2 DEF IsCurrent, PeerRow, LedgerKeys
      <4>4. reader.active \in Ledgers
        BY <4>1 DEF PeerInv, IsCurrent
      <4>5. r.keys.ver # NoKey /\ r.keys.dig # NoKey /\ r.keys.chunks # NoKey
        BY <4>3, <4>4, PeerAssumption DEF Ledgers
      <4>6. r.keys # NoNames
        BY <4>5 DEF NoNames
      <4>7. QED
        BY <4>2, <4>3, <4>5, <4>6 DEF Held
    <3>3. QED
      BY <3>1, <3>2 DEF OfferedPeersHold, NamesAllOrNone
  <2>4. QED
    BY <2>1, <2>2, <2>3 DEF PeerInv, HostsInv, MergeInv, Held, NamesAllOrNone, Idle
<1>4. QED
  BY <1>1, <1>2, <1>3

LEMMA ScanKeeps ==
  ASSUME PeerInv, BrowseAttach \/ ScanBegins \/ ScanTakes \/ ScanEnds
  PROVE  PeerInv'
<1>1. CASE BrowseAttach
  BY <1>1, SilentHolds DEF BrowseAttach, OtLockFree, PeerInv, HostsInv, MergeInv, Held, NamesAllOrNone
<1>2. CASE ScanBegins
  BY <1>2, SilentHolds DEF ScanBegins, PeerInv, HostsInv, MergeInv, Held, NamesAllOrNone
<1>3. CASE ScanTakes
  <2>1. PICK t \in todo :
          /\ todo' = todo \ {t}
          /\ merging' = IF t[1] = Self THEN <<>> ELSE <<t[1], t[2], tick>>
    BY <1>3 DEF ScanTakes
  <2>2. /\ t[1] \in Peers /\ registered[t[1]] # NoHost /\ t[2] \in registered[t[1]].svc
        /\ tick \in Nat
    BY DEF PeerInv
  <2>3. MergeInv'
    BY <1>3, <2>1, <2>2 DEF ScanTakes, MergeInv
  <2>4. QED
    BY <1>3, <2>1, <2>3, SilentHolds DEF ScanTakes, PeerInv, HostsInv, Held, NamesAllOrNone
<1>4. CASE ScanEnds
  BY <1>4, SilentHolds DEF ScanEnds, PeerInv, HostsInv, MergeInv, Held, NamesAllOrNone
<1>5. QED
  BY <1>1, <1>2, <1>3, <1>4

LEMMA NodesKeep ==
  ASSUME PeerInv,
         \/ \E p \in Peers : PeerRegisters(p)
         \/ PeersLedgerPushed \/ TimePasses \/ PeersRestart
  PROVE  PeerInv'
<1>1. ASSUME NEW p \in Peers, PeerRegisters(p) PROVE PeerInv'
  <2>1. PICK h \in Hosts[p] \cup {NoHost} :
          /\ registered' = [registered EXCEPT ![p] = h]
          /\ announced' = [announced EXCEPT ![p] =
                IF h = NoHost THEN @ ELSE @ \cup {h.keys[svc] : svc \in h.svc}]
    BY <1>1 DEF PeerRegisters
  <2>2. h # NoHost => \A svc \in h.svc : h.keys[svc] \in LedgerKeys
    BY PeerAssumption DEF LedgerKeys
  <2>3. /\ announced' \in [Peers -> SUBSET LedgerKeys]
        /\ \A q \in Peers : announced[q] \subseteq announced'[q]
        /\ h # NoHost => \A svc \in h.svc : h.keys[svc] \in announced'[p]
    BY <2>1, <2>2 DEF PeerInv, HostsInv
  <2>4. HostsInv'
    BY <2>1, <2>3 DEF PeerInv, HostsInv
  <2>5. browse # "scan" /\ UNCHANGED <<rows, browse, todo, merging, reader, tick>> /\ Silent
    BY <1>1 DEF PeerRegisters, scanVars
  <2>6. \A i \in DOMAIN rows : Held(rows[i].keys, rows[i].id)'
    <3>1. \A i \in DOMAIN rows : rows[i].id \in Peers /\ Held(rows[i].keys, rows[i].id)
      <4>1. ASSUME NEW i \in DOMAIN rows PROVE rows[i].id \in Peers /\ Held(rows[i].keys, rows[i].id)
        <5>1. rows[i] \in PeerRow /\ Held(rows[i].keys, rows[i].id)
          BY DEF PeerInv
        <5>2. QED
          BY <5>1 DEF PeerRow
      <4>2. QED
        BY <4>1
    <3>2. ASSUME NEW id \in Peers, NEW keys, Held(keys, id) PROVE Held(keys, id)'
      <4>1. announced[id] \subseteq announced'[id] /\ (NamesAllOrNone(id)' => NamesAllOrNone(id))
        BY <2>3 DEF NamesAllOrNone
      <4>2. QED
        BY <3>2, <4>1 DEF Held
    <3>3. QED
      BY <2>5, <3>1, <3>2
  <2>7. QED
    BY <2>4, <2>5, <2>6, SilentHolds DEF PeerInv, MergeInv
<1>2. CASE PeersLedgerPushed
  BY <1>2, SilentHolds DEF PeersLedgerPushed, scanVars, PeerInv, HostsInv, MergeInv, Held, NamesAllOrNone
<1>3. CASE TimePasses
  BY <1>3, SilentHolds DEF TimePasses, scanVars, PeerInv, HostsInv, MergeInv, Held, NamesAllOrNone
<1>4. CASE PeersRestart
  <2>1. HostsInv'
    BY <1>4 DEF PeersRestart, HostsInv
  <2>2. rows' \in Seq(PeerRow) /\ Len(rows') <= PeerMax /\ DOMAIN rows' = {}
    BY <1>4, PeerAssumption DEF PeersRestart
  <2>3. QED
    BY <1>4, <2>1, <2>2, SilentHolds DEF PeersRestart, Silent, PeerInv, MergeInv, Idle
<1>5. QED
  BY <1>1, <1>2, <1>3, <1>4

LEMMA PeersAlways == Spec => []PeerInv
<1>1. Init => PeerInv
  <2>1. SUFFICES ASSUME PeerInit PROVE PeerInv
    BY DEF Init
  <2>2. HostsInv
    BY <2>1 DEF PeerInit, HostsInv
  <2>3. rows \in Seq(PeerRow) /\ Len(rows) <= PeerMax /\ DOMAIN rows = {}
    BY <2>1, PeerAssumption DEF PeerInit
  <2>4. FreshPeerIsOnline /\ OfferedPeersHold
    BY <2>1 DEF PeerInit, NoAnswer, FreshPeerIsOnline, OfferedPeersHold
  <2>5. QED
    BY <2>1, <2>2, <2>3, <2>4 DEF PeerInit, PeerInv, MergeInv, Idle
<1>2. AdvertInv /\ PeerInv /\ [Next]_vars => PeerInv'
  <2>1. ASSUME AdvertInv, PeerInv, PeersPart PROVE PeerInv'
    <3>1. served \in Ledgers \cup {NoLedger}
      BY <2>1 DEF AdvertInv
    <3>2. QED
      BY <2>1, <3>1, MergeKeeps, ReadersKeep, ScanKeeps, NodesKeep DEF PeersPart, PeerNext
  <2>2. ASSUME PeerInv, UNCHANGED tableVars PROVE PeerInv'
    BY <2>2 DEF PeerInv, HostsInv, MergeInv, Held, NamesAllOrNone, FreshPeerIsOnline,
                OfferedPeersHold, tableVars
  <2>3. QED
    BY <2>1, <2>2 DEF Next, vars, AdvertPart, BookPart, FloatingPart
<1>3. QED
  BY <1>1, <1>2, AdvertAlways, PTL DEF Spec

\* A node that registered while a page was on its way is not shown as stale
\* (FreshPeerIsOnline; peer_transfer_state).
THEOREM FreshIsOnline == Spec => []FreshPeerIsOnline
<1>1. PeerInv => FreshPeerIsOnline
  BY DEF PeerInv
<1>2. QED
  BY <1>1, PeersAlways, PTL

\* What is offered as a source was announced by that node
\* (OfferedPeersHold; bos_convergence_aggregator_bootstrap_peers_json).
THEOREM OfferedHold == Spec => []OfferedPeersHold
<1>1. PeerInv => OfferedPeersHold
  BY DEF PeerInv
<1>2. QED
  BY <1>1, PeersAlways, PTL

-----------------------------------------------------------------------------
(* The phonebook. *)

\* Rows have a first one.
LEMMA FirstOf ==
  ASSUME NEW S \in SUBSET Nat, S # {}
  PROVE  \E k \in S : \A j \in S : k <= j
<1> DEFINE R == OpToRel(<, Nat)
<1>1. IsWellFoundedOn(R, Nat)
  BY NatLessThanWellFounded
<1>2. \A j, k \in Nat : j < k => <<j, k>> \in R
  BY DEF OpToRel
<1> HIDE DEF R
<1>3. PICK k \in S : \A j \in S : <<j, k>> \notin R
  BY <1>1, WFMin
<1>4. S \subseteq Nat
  OBVIOUS
<1>5. \A j \in S : ~(j < k)
  BY <1>2, <1>3, <1>4, Zenon
<1>6. \A j \in S : k <= j
  BY <1>4, <1>5
<1>7. QED
  BY <1>6

\* A row that is listed has a first one, with an address of the book.
LEMMA ListedTargets ==
  ASSUME book \in Books, NEW i \in DOMAIN book.rows
  PROVE  TriggerTargets(book.rows[i].dev) \subseteq {r.eid : r \in {book.rows[j] : j \in DOMAIN book.rows}}
<1> DEFINE dev == book.rows[i].dev
           listed == RowsFor("dev", dev)
<1>1. book # NoBook /\ DOMAIN book.rows \subseteq Nat
  BY PhonebookAssumption
<1>2. listed = {k \in DOMAIN book.rows : book.rows[k].dev = dev}
  BY <1>1 DEF RowsFor
<1>3. i \in listed /\ listed \subseteq DOMAIN book.rows /\ listed \in SUBSET Nat
  BY <1>1, <1>2
<1>4. \E k \in listed : \A j \in listed : k <= j
  BY <1>3, FirstOf, Zenon
<1>5. FirstRow(listed) \in DOMAIN book.rows
  <2> HIDE DEF listed
  <2>1. QED
    BY <1>3, <1>4 DEF FirstRow
<1>6. TriggerTargets(dev) \subseteq {book.rows[FirstRow(listed)].eid}
  BY <1>3 DEF TriggerTargets
<1>7. QED
  BY <1>5, <1>6

Storing == {"store", "push", "see", "make", "take", "version", "digest", "give"}

\* A document is answered once it is stored and in force, and the target follows
\* under the mutex.
AnsweredInv ==
  /\ book = (IF fate = "unloaded" THEN NoBook ELSE acked) /\ nvs \in {acked} \cup refused
  /\ acked \in Books \cup {NoBook} /\ refused \subseteq Books
  /\ fate \in {"answered", "late", "unloaded"}
  /\ web \in Storing => doc \in Books
  /\ web \in Storing \ {"store"} => acked = doc /\ fate # "unloaded"
  /\ web = "digest" => target.ver = TargetOf(doc).ver
  /\ web \in {"idle", "proxy", "closed", "store", "give"} => target = TargetOf(book)
  /\ target = [ver |-> target.ver, dig |-> target.dig]

LEMMA RebootKeeps ==
  ASSUME AnsweredInv, PbReboots
  PROVE  AnsweredInv'
<1>1. /\ book' = (IF fate' = "unloaded" THEN NoBook ELSE nvs) /\ fate' \in {"answered", "unloaded"}
      /\ acked' = nvs /\ nvs' = nvs /\ refused' = {} /\ web' \in {"idle", "closed"}
      /\ target' = IF book' = NoBook THEN NoTarget ELSE TargetOf(book')
  BY DEF PbReboots, PbLoads, PbLoadFails
<1>2. nvs \in Books \cup {NoBook}
  BY DEF AnsweredInv
<1>3. target' = TargetOf(book')
  BY <1>1 DEF TargetOf
<1>4. target' = [ver |-> target'.ver, dig |-> target'.dig]
  BY <1>3 DEF TargetOf, NoTarget
<1>5. QED
  BY <1>1, <1>2, <1>3, <1>4 DEF AnsweredInv, Storing, TargetOf

LEMMA RouteKeeps ==
  ASSUME AnsweredInv, PbStep \/ \E b \in Books : PbAccepts(b)
  PROVE  AnsweredInv'
<1>1. ASSUME NEW b \in Books, PbAccepts(b) PROVE AnsweredInv'
  BY <1>1 DEF PbAccepts, PbIdle, AnsweredInv, Storing, TargetOf, targetVars, answerVars
<1>2. CASE PbStores
  BY <1>2 DEF PbStores, AnsweredInv, Storing, TargetOf, targetVars
<1>3. CASE PbPushes \/ PbSees \/ PbMakes \/ PbTakes
  BY <1>3 DEF PbPushes, PbSees, SeesLock, PbMakes, PbTakes, AnsweredInv, Storing, TargetOf,
              targetVars, answerVars
<1>4. CASE PbVersion
  BY <1>4 DEF PbVersion, AnsweredInv, Storing, TargetOf, answerVars
<1>5. CASE PbDigest
  <2>1. doc \in Books /\ doc # NoBook /\ acked = doc /\ fate # "unloaded"
    BY <1>5, PhonebookAssumption DEF PbDigest, AnsweredInv, Storing
  <2>2. target' = [ver |-> TargetOf(doc).ver, dig |-> doc.dig]
    BY <1>5 DEF PbDigest, AnsweredInv
  <2>3. target' = TargetOf(doc)
    BY <2>1, <2>2 DEF TargetOf
  <2>4. target' = [ver |-> target'.ver, dig |-> target'.dig]
    BY <2>2
  <2>5. web' = "give" /\ UNCHANGED <<nvs, book, doc, acked, refused, fate>>
    BY <1>5 DEF PbDigest, answerVars
  <2>6. QED
    BY <2>1, <2>3, <2>4, <2>5 DEF AnsweredInv, Storing, TargetOf
<1>6. CASE PbGives
  BY <1>6 DEF PbGives, AnsweredInv, Storing, TargetOf, answerVars
<1>7. QED
  BY <1>1, <1>2, <1>3, <1>4, <1>5, <1>6 DEF PbStep

\* What the have handler, the proxy and the mesh do leaves the book alone.
LEMMA OthersKeep ==
  ASSUME AnsweredInv,
         \/ \E dev \in Devices : ProxyBegins(dev)
         \/ \E s \in Spatials : \E dev \in SpatialDevices(s) : ProxyBegins(dev)
         \/ HaveStep \/ ProxyStep \/ NetworkChanges
  PROVE  AnsweredInv'
<1>1. UNCHANGED <<nvs, book, doc, target, acked, refused, fate>>
  BY Zenon DEF ProxyBegins, HaveStep, HaveBegins, HaveMakes, HaveTakes, HaveReads, HaveGives, ProxyStep,
         ProxyFails, ProxyForwards, ProxyEnds, NetworkChanges, targetVars, answerVars
<1>2. web' = web \/ (web \in {"idle", "proxy"} /\ web' \in {"idle", "proxy"})
  BY DEF ProxyBegins, PbIdle, HaveStep, HaveBegins, HaveMakes, HaveTakes, HaveReads, HaveGives,
         ProxyStep, ProxyFails, ProxyForwards, ProxyEnds, NetworkChanges
<1>3. QED
  BY <1>1, <1>2 DEF AnsweredInv, Storing, TargetOf

LEMMA AnsweredAlways == Spec => []AnsweredInv
<1>1. Init => AnsweredInv
  BY DEF Init, PhonebookInit, AnsweredInv, Storing, TargetOf, NoTarget
<1>2. AnsweredInv /\ [Next]_vars => AnsweredInv'
  <2>1. ASSUME AnsweredInv, BookPart PROVE AnsweredInv'
    BY <2>1, RebootKeeps, RouteKeeps, OthersKeep DEF BookPart, PhonebookNext, PbAborts
  <2>2. ASSUME AnsweredInv, UNCHANGED phonebookVars PROVE AnsweredInv'
    BY <2>2 DEF AnsweredInv, TargetOf, phonebookVars
  <2>3. QED
    BY <2>1, <2>2 DEF Next, vars, AdvertPart, PeersPart, FloatingPart
<1>3. QED
  BY <1>1, <1>2, PTL DEF Spec

\* Between two documents the book is the one last stored and taken over, or empty
\* after a start that could not load it, and so is the target
\* (BookIsTheAnswered; phonebook_store_raw, phonebook_apply, phonebook_load_from_nvs).
THEOREM BookAnswered == Spec => []BookIsTheAnswered
<1>1. AnsweredInv => BookIsTheAnswered
  <2>1. ASSUME AnsweredInv, NEW i \in DOMAIN (IF book = NoBook THEN <<>> ELSE book.rows)
        PROVE  TriggerTargets(book.rows[i].dev) \subseteq {r.eid : r \in {book.rows[j] : j \in DOMAIN book.rows}}
    <3>1. book # NoBook /\ i \in DOMAIN book.rows
      BY <2>1
    <3>2. book \in Books
      BY <2>1, <3>1 DEF AnsweredInv
    <3>3. QED
      BY <3>1, <3>2, ListedTargets
  <2>2. QED
    BY <2>1 DEF AnsweredInv, BookIsTheAnswered
<1>2. QED
  BY <1>1, AnsweredAlways, PTL

-----------------------------------------------------------------------------
(* Types, of which two say more: the peer table has one row for each peer, and  *)
(* neither it nor the floating book outgrows its bound.                        *)

FloorOK == floor \in Versions \cup {0}

LEMMA FloorTyped == Spec => []FloorOK
<1>1. Init => FloorOK
  BY DEF FloorOK, Init, AdvertInit, StoreInit
<1>2. AdvertInv /\ FloorOK /\ [Next]_vars => FloorOK'
  <2> SUFFICES ASSUME AdvertInv, FloorOK, [Next]_vars PROVE FloorOK'
    OBVIOUS
  <2>1. CASE AdvertPart
    <3>1. floor' = floor \/ (served # NoLedger /\ floor' = served.ver)
      BY <2>1 DEF AdvertPart, AdvertNext, PushBegins, PushStep, PushIngress, Replace, PushUnchanged,
                  PushChanged, PushCounts, PushPublishes, PushNudges, BootStep, BootInit, BootReads,
                  BootCounts, BootPublishes, AdvertAcknowledge, Acknowledge, AdvertRestart, Restart
    <3>2. QED
      BY <3>1 DEF FloorOK, AdvertInv, Ledgers
  <2>2. CASE PeersPart
    BY <2>2 DEF FloorOK, PeersPart, PeerNext, BrowseAttach, ScanBegins, ScanTakes, ScanMerges, ScanEnds,
                ReaderSamples, ReaderRenders, ReaderFails, PeerRegisters, PeersLedgerPushed, Replace,
                TimePasses, PeersRestart, storeVars
  <2>3. QED
    BY <2>1, <2>2 DEF FloorOK, Next, vars, BookPart, FloatingPart, advertVars
<1>3. QED
  BY <1>1, <1>2, AdvertAlways, PTL DEF Spec

\* Each peer has one row, and no row is of a time that has not come.
OneRow == \A i, j \in DOMAIN rows : rows[i].id = rows[j].id => i = j

PeerTyped ==
  /\ browse \in {"detached", "wait", "scan", "sleep"} /\ tick \in 0 .. TickMax
  /\ merging # <<>> => merging[3] \in 0 .. TickMax
  /\ \A i \in DOMAIN rows : rows[i].seen \in 0 .. TickMax
  /\ OneRow

LEMMA MergedIs ==
  ASSUME NEW r \in PeerRow \cup {NewRow(merging[1])}, NEW svc, NEW host, NEW n
  PROVE  Merged(r, svc, host, n).id = r.id /\ Merged(r, svc, host, n).seen = n
BY DEF Merged, PeerRow, NewRow

LEMMA MergeTyped ==
  ASSUME PeerInv, PeerTyped, ScanMerges
  PROVE  PeerTyped'
<1> DEFINE id == merging[1]
           News(r) == Merged(r, merging[2], registered[id], merging[3])
<1>1. /\ rows \in Seq(PeerRow) /\ DOMAIN rows = 1 .. Len(rows) /\ Len(rows) \in Nat
      /\ \A i \in DOMAIN rows : rows[i] \in PeerRow
  BY DEF PeerInv
<1>2. \A r \in PeerRow \cup {NewRow(id)} : News(r).id = r.id /\ News(r).seen = merging[3]
  BY MergedIs
<1>3. merging[3] \in 0 .. TickMax /\ NewRow(id).id = id
  BY DEF ScanMerges, PeerTyped, NewRow
<1> DEFINE Good(rs) == /\ \A i \in DOMAIN rs : rs[i].seen \in 0 .. TickMax
                       /\ \A i, j \in DOMAIN rs : rs[i].id = rs[j].id => i = j
<1> HIDE DEF News
<1>4. ASSUME NEW slot \in Find(id), rows' = [rows EXCEPT ![slot] = News(rows[slot])]
      PROVE  Good(rows')
  <2>1. slot \in DOMAIN rows /\ News(rows[slot]).id = rows[slot].id
        /\ News(rows[slot]).seen \in 0 .. TickMax
    BY <1>1, <1>2, <1>3 DEF Find
  <2>2. /\ DOMAIN rows' = DOMAIN rows
        /\ \A i \in DOMAIN rows : rows'[i] = IF i = slot THEN News(rows[slot]) ELSE rows[i]
    BY <1>1, <1>4, <2>1
  <2>3. QED
    BY <2>1, <2>2 DEF PeerTyped, OneRow
<1>5. ASSUME Find(id) = {}, rows' = Append(rows, News(NewRow(id))) PROVE Good(rows')
  <2>1. /\ DOMAIN rows' = DOMAIN rows \cup {Len(rows) + 1} /\ Len(rows) + 1 \notin DOMAIN rows
        /\ \A i \in DOMAIN rows : rows'[i] = rows[i]
        /\ rows'[Len(rows) + 1] = News(NewRow(id))
    BY <1>1, <1>5
  <2>2. News(NewRow(id)).id = id /\ News(NewRow(id)).seen \in 0 .. TickMax
    BY <1>2, <1>3
  <2>3. \A i \in DOMAIN rows : rows[i].id # id
    BY <1>5 DEF Find
  <2>4. QED
    BY <2>1, <2>2, <2>3 DEF PeerTyped, OneRow
<1>6. ASSUME Find(id) = {}, NEW k, rows' = [rows EXCEPT ![k] = News(NewRow(id))] PROVE Good(rows')
  <2>1. /\ DOMAIN rows' = DOMAIN rows
        /\ \A i \in DOMAIN rows : rows'[i] = IF i = k THEN News(NewRow(id)) ELSE rows[i]
    BY <1>1, <1>6
  <2>2. News(NewRow(id)).id = id /\ News(NewRow(id)).seen \in 0 .. TickMax
    BY <1>2, <1>3
  <2>3. \A i \in DOMAIN rows : rows[i].id # id
    BY <1>6 DEF Find
  <2>4. QED
    BY <2>1, <2>2, <2>3 DEF PeerTyped, OneRow
<1>7. Good(rows')
  <2>1. \/ \E slot \in Find(id) : rows' = [rows EXCEPT ![slot] = News(rows[slot])]
        \/ Find(id) = {} /\ rows' = Append(rows, News(NewRow(id)))
        \/ Find(id) = {} /\ rows' = [rows EXCEPT ![Oldest] = News(NewRow(id))]
    BY DEF ScanMerges, MergeInto, Cleared, News
  <2>2. QED
    BY <1>4, <1>5, <1>6, <2>1
<1>8. UNCHANGED <<browse, tick>> /\ merging' = <<>>
  BY DEF ScanMerges
<1>9. QED
  BY <1>7, <1>8 DEF PeerTyped, OneRow

LEMMA PeersTyped == Spec => []PeerTyped
<1>1. Init => PeerTyped
  BY PeerAssumption DEF Init, PeerInit, PeerTyped, OneRow
<1>2. PeerInv /\ PeerTyped /\ [Next]_vars => PeerTyped'
  <2> SUFFICES ASSUME PeerInv, PeerTyped, [Next]_vars PROVE PeerTyped'
    OBVIOUS
  <2>1. CASE BrowseAttach \/ ScanBegins \/ ScanEnds
    BY <2>1 DEF PeerTyped, OneRow, BrowseAttach, ScanBegins, ScanEnds
  <2>2. CASE ScanTakes
    BY <2>2 DEF PeerTyped, OneRow, ScanTakes
  <2>3. CASE ScanMerges
    BY <2>3, MergeTyped
  <2>4. CASE (\E r \in Readers : ReaderSamples(r)) \/ ReaderRenders \/ ReaderFails
    BY <2>4 DEF PeerTyped, OneRow, ReaderSamples, ReaderRenders, ReaderFails, scanVars
  <2>5. CASE (\E p \in Peers : PeerRegisters(p)) \/ PeersLedgerPushed
    BY <2>5 DEF PeerTyped, OneRow, PeerRegisters, PeersLedgerPushed, scanVars
  <2>6. CASE TimePasses
    BY <2>6, PeerAssumption DEF PeerTyped, OneRow, TimePasses, scanVars
  <2>7. CASE PeersRestart
    BY <2>7, PeerAssumption DEF PeerTyped, OneRow, PeersRestart
  <2>8. CASE UNCHANGED tableVars
    BY <2>8 DEF PeerTyped, OneRow, tableVars
  <2>9. QED
    BY <2>1, <2>2, <2>3, <2>4, <2>5, <2>6, <2>7, <2>8
    DEF Next, vars, AdvertPart, BookPart, PeersPart, FloatingPart, PeerNext
<1>3. QED
  BY <1>1, <1>2, PeersAlways, PTL DEF Spec

FloatTyped ==
  /\ keeper \in {"scan", "stamp", "save"} /\ dirty \in BOOLEAN /\ lost \in BOOLEAN
  /\ unread \in BOOLEAN
  /\ Len(floating) <= BookRows /\ Len(flashed) <= BookRows /\ Len(blob) <= BookRows

LEMMA BookFits ==
  ASSUME SavedInv, FloatTyped, BookStep
  PROVE  FloatTyped'
<1>1. /\ floating \in Seq(FloatingRow) /\ Len(floating) \in Nat /\ Len(<<>>) <= BookRows
      /\ BookRows \in Nat \ {0}
  BY FloatingAssumption DEF SavedInv
<1>2. \A k, v : Len([floating EXCEPT ![k] = v]) = Len(floating)
  BY <1>1
<1>3. ASSUME NEW e \in Unpaired, NEW f \in Fields, TouchKnown(e, f) PROVE FloatTyped'
  <2>1. Len(floating') = Len(floating) /\ dirty' \in BOOLEAN
    BY <1>1, <1>3 DEF TouchKnown, FloatTyped
  <2>2. QED
    BY <1>3, <2>1 DEF TouchKnown, FloatTyped
<1>4. ASSUME NEW e \in Unpaired, NEW f \in Fields, TouchNew(e, f) PROVE FloatTyped'
  <2>1. \A r : Len(Ring(floating, r)) <= BookRows
    BY <1>1 DEF FloatTyped, Ring
  <2>2. QED
    BY <1>4, <2>1 DEF TouchNew, FloatTyped
<1>5. CASE TouchStamps
  <2>1. Len(floating') = Len(floating)
    BY <1>1, <1>5 DEF TouchStamps
  <2>2. QED
    BY <1>5, <2>1 DEF TouchStamps, FloatTyped
<1>6. CASE PersistTakes \/ PersistWrites
  BY <1>1, <1>6 DEF PersistTakes, PersistWrites, FloatTyped
<1>7. CASE PersistRefused
  BY <1>1, <1>7 DEF PersistRefused, Redirty, FloatTyped
<1>8. QED
  BY <1>3, <1>4, <1>5, <1>6, <1>7 DEF BookStep

LEMMA FloatsTyped == Spec => []FloatTyped
<1>1. Init => FloatTyped
  <2>1. Len(<<>>) <= BookRows
    BY FloatingAssumption
  <2>2. QED
    BY <2>1 DEF Init, FloatingInit, BookInit, FloatTyped
<1>2. SavedInv /\ FloatTyped /\ [Next]_vars => FloatTyped'
  <2>1. ASSUME SavedInv, FloatTyped, FloatingPart PROVE FloatTyped'
    <3>1. CASE UNCHANGED bookVars
      BY <2>1, <3>1 DEF FloatTyped, bookVars
    <3>2. CASE BookReloads
      <4>1. Len(<<>>) <= BookRows
        BY FloatingAssumption
      <4>2. QED
        BY <2>1, <3>2, <4>1 DEF FloatTyped, BookReloads
    <3>3. QED
      BY <2>1, <3>1, <3>2, BookFits DEF FloatingPart, FloatingNext
  <2>2. ASSUME FloatTyped, UNCHANGED floatingVars PROVE FloatTyped'
    BY <2>2 DEF FloatTyped, floatingVars, bookVars
  <2>3. QED
    BY <2>1, <2>2 DEF Next, vars, AdvertPart, BookPart, PeersPart
<1>3. QED
  BY <1>1, <1>2, SavedAlways, PTL DEF Spec

\* The mutexes the two tasks make, and what the proxy forwards.
RouteTyped ==
  /\ doc \in Books \cup {NoBook} /\ net \in MeshNets
  /\ web \in {"idle", "store", "push", "see", "make", "take", "version", "digest", "give", "proxy",
             "closed"}
  /\ have \in {"idle", "make", "take", "read", "give"}
  /\ lock \in Nat /\ made \in 0 .. HandleMax /\ lock <= made
  /\ proxy \in [of : Nat, got : Nat, ended : BOOLEAN] /\ proxy.got <= proxy.of

LEMMA RouteFits ==
  ASSUME RouteTyped, PhonebookNext
  PROVE  RouteTyped'
<1>1. NoProxy \in [of : Nat, got : Nat, ended : BOOLEAN] /\ NoProxy.got <= NoProxy.of
  BY DEF NoProxy
<1>2. CASE PbReboots \/ PbAborts
  BY <1>1, <1>2, PhonebookAssumption DEF PbReboots, PbLoads, PbLoadFails, PbAborts, meshVars, RouteTyped
<1>3. ASSUME NEW b \in Books, PbAccepts(b) PROVE RouteTyped'
  BY <1>3 DEF PbAccepts, RouteTyped, targetVars, meshVars, haveVars
<1>4. ASSUME NEW dev, ProxyBegins(dev) PROVE RouteTyped'
  <2>1. PICK n \in 0 .. ChunksMax : proxy' = [of |-> n, got |-> 0, ended |-> FALSE]
    BY <1>4 DEF ProxyBegins
  <2>2. n \in Nat
    BY <2>1, PhonebookAssumption
  <2>3. proxy' \in [of : Nat, got : Nat, ended : BOOLEAN] /\ proxy'.got <= proxy'.of
    BY <2>1, <2>2
  <2>4. QED
    BY <1>4, <2>3 DEF ProxyBegins, RouteTyped, targetVars, meshVars, haveVars
<1>5. CASE PbStep
  BY <1>5, PhonebookAssumption
  DEF PbStep, PbStores, PbPushes, PbSees, SeesLock, PbMakes, MakesLock, PbTakes, Takes, PbVersion, PbDigest,
      PbGives, Gives, RouteTyped, targetVars, meshVars, haveVars
<1>6. CASE HaveStep
  BY <1>6, PhonebookAssumption
  DEF HaveStep, HaveBegins, SeesLock, HaveMakes, MakesLock, HaveTakes, Takes, HaveReads, HaveGives, Gives,
      RouteTyped, targetVars, meshVars, haveVars
<1>7. CASE ProxyStep
  <2>1. proxy' \in [of : Nat, got : Nat, ended : BOOLEAN] /\ proxy'.got <= proxy'.of
    <3>1. proxy \in [of : Nat, got : Nat, ended : BOOLEAN] /\ proxy.got <= proxy.of
      BY DEF RouteTyped
    <3>2. CASE ProxyFails
      BY <1>1, <3>2 DEF ProxyFails
    <3>3. CASE ProxyForwards
      <4>1. proxy' = [proxy EXCEPT !.got = proxy.got + 1] /\ proxy.got < proxy.of
        BY <3>3 DEF ProxyForwards
      <4>2. QED
        BY <3>1, <4>1
    <3>4. CASE ProxyEnds
      <4>1. proxy' = [proxy EXCEPT !.ended = TRUE]
        BY <3>4 DEF ProxyEnds
      <4>2. QED
        BY <3>1, <4>1
    <3>5. QED
      BY <1>7, <3>2, <3>3, <3>4 DEF ProxyStep
  <2>2. QED
    BY <1>7, <2>1 DEF ProxyStep, ProxyFails, ProxyForwards, ProxyEnds, RouteTyped, targetVars, meshVars, haveVars
<1>8. CASE NetworkChanges
  BY <1>8 DEF NetworkChanges, RouteTyped, targetVars, haveVars
<1>9. QED
  BY <1>2, <1>3, <1>4, <1>5, <1>6, <1>7, <1>8 DEF PhonebookNext

LEMMA RoutesTyped == Spec => []RouteTyped
<1>1. Init => RouteTyped
  BY PhonebookAssumption DEF Init, PhonebookInit, NoProxy, RouteTyped
<1>2. RouteTyped /\ [Next]_vars => RouteTyped'
  <2>1. ASSUME RouteTyped, UNCHANGED phonebookVars PROVE RouteTyped'
    BY <2>1 DEF RouteTyped, phonebookVars
  <2>2. QED
    BY <2>1, RouteFits DEF Next, vars, AdvertPart, BookPart, PeersPart, FloatingPart
<1>3. QED
  BY <1>1, <1>2, PTL DEF Spec

\* Every variable of the four parts keeps its type, whatever the tasks do: the peer
\* table holds each peer once and no more than its size (allocate_peer_slot), the
\* floating book no more rows than it may (bos_floating_book_touch), and the proxy
\* forwards no more than the device has (TypeOK).
THEOREM TypeCorrect == Spec => []TypeOK
<1>1. ToldInv => AdvertTypeOK
  BY DEF ToldInv
<1>2. AnsweredInv /\ RouteTyped => PhonebookTypeOK
  BY DEF AnsweredInv, RouteTyped, PhonebookTypeOK
<1>3. AdvertInv /\ FloorOK /\ PeerInv /\ PeerTyped => PeerTypeOK
  <2>1. ASSUME PeerInv, PeerTyped, NEW i \in DOMAIN rows PROVE rows[i] \in Row
    <3>1. rows[i] \in PeerRow /\ rows[i].seen \in 0 .. TickMax
      BY <2>1 DEF PeerInv, PeerTyped
    <3>2. QED
      BY <3>1 DEF PeerRow, Row
  <2>2. QED
    BY <2>1 DEF AdvertInv, FloorOK, StoreTypeOK, PeerInv, HostsInv, PeerTyped, OneRow, PeerTypeOK
<1>4. ClockInv /\ SavedInv /\ FloatTyped => FloatingTypeOK
  BY DEF ClockInv, SavedInv, FloatTyped, FloatingTypeOK
<1>5. QED
  BY <1>1, <1>2, <1>3, <1>4, ToldAlways, AnsweredAlways, RoutesTyped, AdvertAlways, FloorTyped,
     PeersAlways, PeersTyped, ClockAlways, SavedAlways, FloatsTyped, PTL DEF TypeOK
=============================================================================
