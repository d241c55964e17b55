--------------------------- MODULE LedgerIngress ---------------------------
(***************************************************************************)
(* bos_ledger_ingress: the site server pushes a ledger, the border router   *)
(* serves it from RAM at once and then writes it to a flash cache made of   *)
(* two partitions and a set of NVS keys; CoAP handlers on the OpenThread    *)
(* task read it at any time; power may be lost at any time.                 *)
(*                                                                          *)
(* A ledger is its version and its digest.  The digest stands for the body  *)
(* (validate_ledger_envelope recomputes it), and SizeOf for the envelope's  *)
(* length.  A partition holds a whole envelope or Blank: erased, or cut     *)
(* short by a failure or a power loss.                                      *)
(***************************************************************************)
EXTENDS Naturals

CONSTANTS
  Versions,    \* ledger versions, 1 .. 2^32-1 in the code
  Digests,     \* manifest digests
  Offered,     \* the ledgers the site server pushes
  SizeOf,      \* envelope length in bytes, by digest
  ChunkSize,   \* BOS_LEDGER_CHUNK_SIZE
  Blocks,      \* Block2 numbers the mesh asks for
  Pushers,     \* httpd worker tasks (one in today's esp_http_server)
  Faults,      \* which faults occur: "write" (flash, NVS), "crash", "read" (NVS,
               \* in a push or at the start), "serve" (in a chunk request)
  NoLedger,    \* no ledger
  Blank,       \* a partition that holds no whole envelope
  NoVal        \* an NVS key that was never set, an unset local

ASSUME IngressAssumption ==
  /\ Versions \subseteq Nat \ {0}
  /\ Offered \subseteq [ver : Versions, dig : Digests]
  /\ SizeOf \in [Digests -> Nat \ {0}]
  /\ ChunkSize \in Nat \ {0}
  /\ Blocks \subseteq Nat
  /\ NoLedger \notin [ver : Versions, dig : Digests]
  /\ Blank \notin [ver : Versions, dig : Digests]
  /\ NoVal \notin Nat /\ NoVal \notin Digests
  /\ NoVal \notin [ver : Versions, dig : Digests]

VARIABLES
  pc,        \* where each push handler is
  led,       \* the envelope each handler received
  prior,     \* prior_state, restored when a push is refused
  target,    \* target_idx, the staging partition
  inFlight,  \* s_push_in_flight
  phase,     \* s_push_phase
  lifecycle, \* s_state
  lastErr,   \* s_last_error_phase
  ram,       \* s_ram_body with s_ram_meta, changed together under s_ram_mux
  nvs,       \* the bos_ledger NVS keys
  flash,     \* partitions ledger_a (0) and ledger_b (1)
  rd,        \* the chunk request being served on the OpenThread task
  acked,     \* history: newest version answered with persist "persisted"
  suspect,   \* history: a power loss hit while RAM, not flash, was serving
  misread    \* history: what a failed NVS read hid: "boot": s_state was set without
             \* the stored ledger; "gate": a push was let in without it, and no
             \* cache write has completed since

pushVars == <<pc, led, prior, target, inFlight, phase>>
vars == <<pc, led, prior, target, inFlight, phase, lifecycle, lastErr, ram,
          nvs, flash, rd, acked, suspect, misread>>

Ledgers == [ver : Versions, dig : Digests]
Slots == {0, 1}

Chunks(size) == (size + ChunkSize - 1) \div ChunkSize

-----------------------------------------------------------------------------
(* What the getters return. *)

\* get_active_nvs succeeds: partition index, version and digest are all set.
NvsPresent == nvs.part # NoVal /\ nvs.ver # NoVal /\ nvs.dig # NoVal

NvsLedger == IF NvsPresent THEN [ver |-> nvs.ver, dig |-> nvs.dig] ELSE NoLedger

\* bos_ledger_ingress_get_active: the RAM copy first, then the NVS metadata.
Active == IF ram # NoLedger THEN ram ELSE NvsLedger

PersistState ==
  IF ram # NoLedger THEN "ram_only" ELSE IF NvsPresent THEN "persisted" ELSE "none"

Decide_NoRollbackGate(active, l) ==
  IF active = NoLedger \/ l.ver # active.ver THEN "accept"
  ELSE IF l.dig = active.dig THEN "idempotent" ELSE "conflict"

\* ledger_update_decide.
Decide(active, l) ==
  IF active = NoLedger \/ l.ver > active.ver THEN "accept"
  ELSE IF l.ver < active.ver THEN "rollback"
  ELSE IF l.dig # active.dig THEN "conflict"
  ELSE "idempotent"

TargetSlot_Active(part) == IF part = 0 THEN 0 ELSE 1

\* The staging partition is the one active_part does not name; a failed read
\* of active_part counts as 1.
TargetSlot(part) == IF part = 0 THEN 1 ELSE 0

-----------------------------------------------------------------------------
(* The push handler, bos_ledger_ingress_http_push, on an httpd task. *)

Persisting == {"partition", "erase", "write", "set_part", "set_ver", "set_dig",
               "set_size", "set_chunks", "commit", "degraded", "drop_ram"}
Busy == {"receive", "validate", "lookup", "install"} \cup Persisting

Goto(p, next) == pc' = [pc EXCEPT ![p] = next]

\* The handler returns: its locals die and the push slot is free again.
Return(p) ==
  /\ Goto(p, "idle")
  /\ led' = [led EXCEPT ![p] = NoLedger]
  /\ prior' = [prior EXCEPT ![p] = "none"]
  /\ target' = [target EXCEPT ![p] = NoVal]

Release(p) ==
  /\ Return(p)
  /\ inFlight' = FALSE
  /\ phase' = ""

\* A request that fails push_authorized: only the error record changes.
Unauthorized(p) ==
  /\ pc[p] = "idle"
  /\ lastErr' = "auth"
  /\ UNCHANGED <<pushVars, lifecycle, ram, nvs, flash, rd, acked, suspect, misread>>

\* An authorized request claims the push slot; with the slot taken it is
\* answered 409 with the phase and changes nothing.  A body that is empty, too
\* large or cannot be allocated gives the slot back at once.
Claim(p, l) ==
  /\ pc[p] = "idle"
  /\ ~inFlight
  /\ inFlight' = TRUE
  /\ phase' = "receiving"
  /\ led' = [led EXCEPT ![p] = l]
  /\ prior' = [prior EXCEPT ![p] = lifecycle]
  /\ lifecycle' = "receiving"
  /\ lastErr' = ""
  /\ Goto(p, "receive")
  /\ UNCHANGED <<target, ram, nvs, flash, rd, acked, suspect, misread>>

ClaimRefused(p, err) ==
  /\ pc[p] = "idle"
  /\ ~inFlight
  /\ lastErr' = err
  /\ UNCHANGED <<pushVars, lifecycle, ram, nvs, flash, rd, acked, suspect, misread>>

\* Every refusal after the claim: restore s_state, record why, free the slot.
Refuse(p, err) ==
  /\ lifecycle' = prior[p]
  /\ lastErr' = err
  /\ Release(p)
  /\ UNCHANGED <<ram, nvs, flash, rd, acked, suspect, misread>>

ReceiveFails(p) ==
  /\ pc[p] = "receive"
  /\ Refuse(p, "receive")

Received(p) ==
  /\ pc[p] = "receive"
  /\ lifecycle' = "validating"
  /\ phase' = "validating"
  /\ Goto(p, "validate")
  /\ UNCHANGED <<led, prior, target, inFlight, lastErr, ram, nvs, flash, rd,
                 acked, suspect, misread>>

EnvelopeInvalid_KeepsSlot(p) ==
  /\ pc[p] = "validate"
  /\ lifecycle' = prior[p]
  /\ lastErr' = "validate"
  /\ Return(p)
  /\ UNCHANGED <<inFlight, phase, ram, nvs, flash, rd, acked, suspect, misread>>

EnvelopeInvalid_KeepsState(p) ==
  /\ pc[p] = "validate"
  /\ lastErr' = "validate"
  /\ Release(p)
  /\ UNCHANGED <<lifecycle, ram, nvs, flash, rd, acked, suspect, misread>>

EnvelopeInvalid(p) ==
  /\ pc[p] = "validate"
  /\ Refuse(p, "validate")

EnvelopeValid(p) ==
  /\ pc[p] = "validate"
  /\ Goto(p, "lookup")
  /\ UNCHANGED <<led, prior, target, inFlight, phase, lifecycle, lastErr, ram,
                 nvs, flash, rd, acked, suspect, misread>>

\* get_active failed with something other than NVS_NOT_FOUND: nvs_open, or the
\* read of the version or of the digest.
LookupFails(p) ==
  /\ pc[p] = "lookup"
  /\ "read" \in Faults
  /\ ram = NoLedger
  /\ Refuse(p, "active_lookup")

\* The slot holder is the only writer of ram and nvs, so its own reads of them
\* are one step.  A copy held only in RAM is accepted again, so that its cache
\* write is retried.
Accept(p) ==
  /\ \/ Decide(Active, led[p]) = "accept"
     \/ Decide(Active, led[p]) = "idempotent" /\ PersistState # "persisted"
  /\ Goto(p, "install")
  /\ UNCHANGED <<led, prior, target, inFlight, phase, lifecycle, lastErr, misread>>

\* Any failing read of active_part is answered NOT_FOUND, as if no ledger had
\* ever been stored, and the push is let in whatever its version; one in
\* persist_state's look-up lets in the ledger that is already stored.
AcceptBlind(p) ==
  /\ "read" \in Faults
  /\ ram = NoLedger
  /\ Goto(p, "install")
  /\ misread' = IF Decide(Active, led[p]) \in {"rollback", "conflict"}
                THEN misread \cup {"gate"} ELSE misread
  /\ UNCHANGED <<led, prior, target, inFlight, phase, lifecycle, lastErr>>

AlreadyStored(p) ==
  /\ Decide(Active, led[p]) = "idempotent" /\ PersistState = "persisted"
  /\ lifecycle' = "active"
  /\ misread' = misread \ {"boot"}
  /\ Release(p)
  /\ UNCHANGED lastErr

TooOld(p) ==
  /\ Decide(Active, led[p]) \in {"rollback", "conflict"}
  /\ lifecycle' = prior[p]
  /\ lastErr' = "version_gate"
  /\ Release(p)
  /\ UNCHANGED misread

Gate(p) ==
  /\ pc[p] = "lookup"
  /\ Accept(p) \/ AcceptBlind(p) \/ AlreadyStored(p) \/ TooOld(p)
  /\ UNCHANGED <<ram, nvs, flash, rd, acked, suspect>>

\* A chunk request under way no longer runs against one ledger.
Overtaken == rd' = [rd EXCEPT !.still = FALSE]

Install_FlashOnly(p) ==
  /\ pc[p] = "install"
  /\ lifecycle' = "active"
  /\ phase' = "persisting"
  /\ Overtaken
  /\ misread' = misread \ {"boot"}
  /\ Goto(p, "partition")
  /\ UNCHANGED <<led, prior, target, inFlight, lastErr, ram, nvs, flash, acked,
                 suspect>>

\* ram_ledger_set: the accepted ledger serves from RAM from here on.
Install(p) ==
  /\ pc[p] = "install"
  /\ ram' = led[p]
  /\ lifecycle' = "active"
  /\ phase' = "persisting"
  /\ Overtaken
  /\ misread' = misread \ {"boot"}
  /\ Goto(p, "partition")
  /\ UNCHANGED <<led, prior, target, inFlight, lastErr, nvs, flash, acked, suspect>>

-----------------------------------------------------------------------------
(* The cache write: write_staged_partition, then commit_active_metadata.    *)

\* read_partition_idx and partition_for_idx.
ChooseTarget(p) ==
  /\ pc[p] = "partition"
  /\ \/ target' = [target EXCEPT ![p] = TargetSlot(nvs.part)]
     \/ "read" \in Faults /\ target' = [target EXCEPT ![p] = TargetSlot(NoVal)]
  /\ Goto(p, "erase")
  /\ UNCHANGED <<led, prior, inFlight, phase, lifecycle, lastErr, ram, nvs,
                 flash, rd, acked, suspect, misread>>

\* A cache failure is recorded and never undoes what was already written.
CacheFails(p, err) ==
  /\ "write" \in Faults
  /\ lastErr' = err
  /\ Goto(p, "degraded")
  /\ UNCHANGED <<led, prior, target, inFlight, phase, lifecycle, ram, rd,
                 acked, suspect, misread>>

TargetMissing(p) ==
  /\ pc[p] = "erase"
  /\ CacheFails(p, "partition_lookup")
  /\ UNCHANGED <<nvs, flash>>

\* An erase in progress has already destroyed the old image.  Readers that
\* have fixed their partition see the damage: rd counts the cache writes.
Erase(p) ==
  /\ pc[p] = "erase"
  /\ flash' = [flash EXCEPT ![target[p]] = Blank]
  /\ rd' = [rd EXCEPT !.writes = IF rd.part # NoVal /\ @ < 2 THEN @ + 1 ELSE @]
  /\ Goto(p, "write")
  /\ UNCHANGED <<led, prior, target, inFlight, phase, lifecycle, lastErr, ram,
                 nvs, acked, suspect, misread>>

\* The erase or the write fails half way.
PartitionFails(p) ==
  /\ pc[p] = "write"
  /\ CacheFails(p, "partition_write")
  /\ UNCHANGED <<nvs, flash>>

Write(p) ==
  /\ pc[p] = "write"
  /\ flash' = [flash EXCEPT ![target[p]] = led[p]]
  /\ Goto(p, "set_part")
  /\ UNCHANGED <<led, prior, target, inFlight, phase, lifecycle, lastErr, ram,
                 nvs, rd, acked, suspect, misread>>

\* One nvs_set_*: each key reaches flash on its own (committed_at and
\* chunk_size, which no reader depends on, are not kept).
SetKey(p, at, next, record) ==
  /\ pc[p] = at
  /\ nvs' = record
  /\ Goto(p, next)
  /\ UNCHANGED <<led, prior, target, inFlight, phase, lifecycle, lastErr, ram,
                 flash, rd, acked, suspect, misread>>

SetPart(p) == SetKey(p, "set_part", "set_ver", [nvs EXCEPT !.part = target[p]])
SetVersion(p) == SetKey(p, "set_ver", "set_dig", [nvs EXCEPT !.ver = led[p].ver])
SetDigest(p) == SetKey(p, "set_dig", "set_size", [nvs EXCEPT !.dig = led[p].dig])
SetSize(p) ==
  SetKey(p, "set_size", "set_chunks", [nvs EXCEPT !.size = SizeOf[led[p].dig]])
SetChunks(p) ==
  SetKey(p, "set_chunks", "commit",
         [nvs EXCEPT !.chunks = Chunks(SizeOf[led[p].dig])])

\* Any nvs_set_* or the nvs_commit fails; keys already set stay set.
MetadataFails(p) ==
  /\ pc[p] \in {"set_part", "set_ver", "set_dig", "set_size", "set_chunks", "commit"}
  /\ CacheFails(p, "metadata_commit")
  /\ UNCHANGED <<nvs, flash>>

Commit(p) ==
  /\ pc[p] = "commit"
  /\ Goto(p, "drop_ram")
  /\ UNCHANGED <<led, prior, target, inFlight, phase, lifecycle, lastErr, ram,
                 nvs, flash, rd, acked, suspect, misread>>

\* 200 with persist "failed": the RAM copy keeps serving.
AnswerDegraded(p) ==
  /\ pc[p] = "degraded"
  /\ Release(p)
  /\ UNCHANGED <<lifecycle, lastErr, ram, nvs, flash, rd, acked, suspect, misread>>

\* ram_ledger_clear and 200 with persist "persisted".
DropRam(p) ==
  /\ pc[p] = "drop_ram"
  /\ ram' = NoLedger
  /\ acked' = led[p].ver
  /\ suspect' = FALSE
  /\ misread' = misread \ {"gate"}
  /\ Release(p)
  /\ UNCHANGED <<lifecycle, lastErr, nvs, flash, rd>>

-----------------------------------------------------------------------------
(* handle_chunk on the OpenThread task.  The first pass is                  *)
(* bos_ledger_ingress_get_active, the second ..._read_active; both look at  *)
(* RAM first and otherwise read the NVS keys one call at a time.  Version   *)
(* and digest only have to be there.  The first pass gives the size that    *)
(* the Block2 "more" flag is computed from, the second the partition and,   *)
(* in another call, the size that bounds the read.                          *)

ReaderIdle == [pc |-> "idle", block |-> 0, total |-> 0, part |-> NoVal, size |-> 0,
               writes |-> 0, bytes |-> NoVal, still |-> FALSE]

Step(next) == rd' = [rd EXCEPT !.pc = next]
NotFound == rd' = ReaderIdle
OnlyReader == UNCHANGED <<pushVars, lifecycle, lastErr, ram, nvs, flash, acked,
                          suspect, misread>>

Offset == rd.block * ChunkSize

\* rd.still is a history: no ledger was installed since the request, and what
\* served it then was not left half swapped by a power loss.
ChunkRequest(block) ==
  /\ rd.pc = "idle"
  /\ rd' = [ReaderIdle EXCEPT !.pc = "get_ram", !.block = block,
                              !.still = ram # NoLedger \/ ~suspect]
  /\ OnlyReader

GetRam ==
  /\ rd.pc = "get_ram"
  /\ IF ram = NoLedger THEN Step("get_part")
     ELSE IF Offset >= SizeOf[ram.dig] THEN NotFound
     ELSE rd' = [rd EXCEPT !.pc = "read_ram", !.total = SizeOf[ram.dig]]
  /\ OnlyReader

ReadRam ==
  /\ rd.pc = "read_ram"
  /\ IF ram = NoLedger THEN Step("read_part")
     ELSE IF Offset >= SizeOf[ram.dig] THEN NotFound
     ELSE rd' = [rd EXCEPT !.pc = "answer", !.size = SizeOf[ram.dig], !.bytes = ram]
  /\ OnlyReader

\* A key that is not there ends the request with 404.
Need(key, next) == IF nvs[key] = NoVal THEN NotFound ELSE Step(next)

GetKey ==
  /\ \/ rd.pc = "get_part" /\ Need("part", "get_ver")
     \/ rd.pc = "get_ver" /\ Need("ver", "get_dig")
     \/ rd.pc = "get_dig" /\ Need("dig", "get_size")
     \/ rd.pc = "read_ver" /\ Need("ver", "read_dig")
     \/ rd.pc = "read_dig" /\ Need("dig", "read_size")
  /\ OnlyReader

\* The second pass has fixed its partition and has not read it.
FlashReading == {"read_ver", "read_dig", "read_size", "read_flash"}
KeyReading == {"get_part", "get_ver", "get_dig", "get_size", "read_part"} \cup FlashReading

\* The second pass fixes the partition it will read; rd.writes counts, up to
\* two, the cache writes that overlap the request from here on.
Overwriting == \E p \in Pushers : pc[p] \in Persisting \ {"partition", "erase"}

ReadPart ==
  /\ rd.pc = "read_part"
  /\ IF nvs.part = NoVal THEN NotFound
     ELSE rd' = [rd EXCEPT !.pc = "read_ver", !.part = nvs.part,
                           !.writes = IF Overwriting THEN 1 ELSE 0]
  /\ OnlyReader

\* active_size may be missing and then counts as 0.
StoredSize == IF nvs.size = NoVal THEN 0 ELSE nvs.size

GetSize ==
  /\ rd.pc \in {"get_size", "read_size"}
  /\ IF Offset >= StoredSize THEN NotFound
     ELSE IF rd.pc = "get_size"
     THEN rd' = [rd EXCEPT !.pc = "read_ram", !.total = StoredSize]
     ELSE rd' = [rd EXCEPT !.pc = "read_flash", !.size = StoredSize]
  /\ OnlyReader

\* Length bytes from Offset of the partition fixed before, which may be longer or
\* shorter than the size read after it.
ReadFlash ==
  /\ rd.pc = "read_flash"
  /\ rd' = [rd EXCEPT !.pc = "answer", !.bytes = flash[rd.part]]
  /\ OnlyReader

\* A failed read of a key, or of the partition, ends the request with an error
\* (a size that cannot be read counts as 0).
ReadFails ==
  /\ "serve" \in Faults
  /\ rd.pc \in KeyReading
  /\ NotFound
  /\ OnlyReader

\* What a request at "answer" sends: so many bytes, and the "more" flag.
Length == IF rd.size - Offset < ChunkSize THEN rd.size - Offset ELSE ChunkSize
More == Offset + Length < rd.total

Answer ==
  /\ rd.pc = "answer"
  /\ NotFound
  /\ OnlyReader

-----------------------------------------------------------------------------
\* Power loss and bos_ledger_ingress_init: only NVS and the partitions
\* survive; s_state is ACTIVE exactly when the metadata can be read, and NONE
\* when a read fails.
Reboot ==
  /\ "crash" \in Faults
  /\ pc' = [p \in Pushers |-> "idle"]
  /\ led' = [p \in Pushers |-> NoLedger]
  /\ prior' = [p \in Pushers |-> "none"]
  /\ target' = [p \in Pushers |-> NoVal]
  /\ inFlight' = FALSE
  /\ phase' = ""
  /\ \/ /\ lifecycle' = IF NvsPresent THEN "active" ELSE "none"
        /\ misread' = misread \ {"boot"}
     \/ /\ "read" \in Faults /\ NvsPresent
        /\ lifecycle' = "none"
        /\ misread' = misread \cup {"boot"}
  /\ lastErr' = ""
  /\ ram' = NoLedger
  /\ rd' = ReaderIdle
  /\ suspect' = (suspect \/ ram # NoLedger)
  /\ UNCHANGED <<nvs, flash, acked>>

\* A border router that was never given a ledger.
Init ==
  /\ pc = [p \in Pushers |-> "idle"]
  /\ led = [p \in Pushers |-> NoLedger]
  /\ prior = [p \in Pushers |-> "none"]
  /\ target = [p \in Pushers |-> NoVal]
  /\ inFlight = FALSE
  /\ phase = ""
  /\ lifecycle = "none"
  /\ lastErr = ""
  /\ ram = NoLedger
  /\ nvs = [part |-> NoVal, ver |-> NoVal, dig |-> NoVal, size |-> NoVal,
            chunks |-> NoVal]
  /\ flash = [s \in Slots |-> Blank]
  /\ rd = ReaderIdle
  /\ acked = 0
  /\ suspect = FALSE
  /\ misread = {}

Push(p) ==
  \/ Unauthorized(p)
  \/ \E l \in Offered : Claim(p, l)
  \/ \E err \in {"body_size", "receive"} : ClaimRefused(p, err)
  \/ ReceiveFails(p) \/ Received(p)
  \/ EnvelopeInvalid(p) \/ EnvelopeValid(p)
  \/ LookupFails(p) \/ Gate(p) \/ Install(p)

Cache(p) ==
  \/ ChooseTarget(p) \/ TargetMissing(p)
  \/ Erase(p) \/ PartitionFails(p) \/ Write(p)
  \/ SetPart(p) \/ SetVersion(p) \/ SetDigest(p) \/ SetSize(p) \/ SetChunks(p)
  \/ MetadataFails(p) \/ Commit(p)
  \/ AnswerDegraded(p) \/ DropRam(p)

Serve ==
  \/ \E block \in Blocks : ChunkRequest(block)
  \/ GetRam \/ ReadRam \/ GetKey \/ ReadPart \/ GetSize \/ ReadFlash
  \/ ReadFails \/ Answer

Next ==
  \/ \E p \in Pushers : Push(p) \/ Cache(p)
  \/ Serve
  \/ Reboot

Spec == Init /\ [][Next]_vars

\* The httpd worker that runs a handler is never starved for ever, and
\* httpd_req_recv returns (data, close or its own timeout): a handler that has
\* claimed the slot keeps taking steps.  Nothing obliges a request to arrive.
Handler(p) == pc[p] # "idle" /\ (Push(p) \/ Cache(p))
FairSpec == Spec /\ \A p \in Pushers : WF_vars(Handler(p))

-----------------------------------------------------------------------------
(* Properties. *)

LastErrors == {"", "auth", "body_size", "receive", "validate", "active_lookup",
               "version_gate", "partition_lookup", "partition_write",
               "metadata_commit"}

PushTypeOK ==
  /\ pc \in [Pushers -> Busy \cup {"idle"}]
  /\ led \in [Pushers -> Ledgers \cup {NoLedger}]
  /\ prior \in [Pushers -> {"none", "active", "receiving", "validating"}]
  /\ target \in [Pushers -> Slots \cup {NoVal}]
  /\ inFlight \in BOOLEAN
  /\ phase \in {"", "receiving", "validating", "persisting"}
  /\ lifecycle \in {"none", "receiving", "validating", "active"}
  /\ lastErr \in LastErrors

CacheTypeOK ==
  /\ ram \in Ledgers \cup {NoLedger}
  /\ nvs \in [part : Slots \cup {NoVal}, ver : Versions \cup {NoVal},
              dig : Digests \cup {NoVal}, size : Nat \cup {NoVal},
              chunks : Nat \cup {NoVal}]
  /\ flash \in [Slots -> Ledgers \cup {Blank}]
  /\ acked \in Versions \cup {0}
  /\ suspect \in BOOLEAN
  /\ misread \in SUBSET {"boot", "gate"}

ReaderTypeOK ==
  /\ rd \in [pc : {"idle", "get_ram", "get_part", "get_ver", "get_dig", "get_size",
                   "read_ram", "read_part", "read_ver", "read_dig", "read_size",
                   "read_flash", "answer"},
             block : Blocks \cup {0}, total : Nat, part : Slots \cup {NoVal},
             size : Nat, writes : {0, 1, 2}, bytes : Ledgers \cup {Blank, NoVal},
             still : BOOLEAN]
  /\ rd.pc \in FlashReading => rd.part \in Slots

\* Every variable has the type its declaration in the code gives it.
TypeOK == PushTypeOK /\ CacheTypeOK /\ ReaderTypeOK

\* The metadata names a partition that holds exactly the ledger it describes.
Coherent ==
  /\ NvsPresent
  /\ flash[nvs.part] = NvsLedger
  /\ nvs.size = SizeOf[nvs.dig]
  /\ nvs.chunks = Chunks(SizeOf[nvs.dig])

\* Whenever flash is the serving source (no RAM copy), either no ledger was
\* ever stored or partition and metadata describe one whole ledger - in the
\* middle of a push and after failed cache writes too, because the RAM copy is
\* installed before the first erase and dropped after the last key.  The one
\* exception is a power loss that hit while RAM was serving (suspect).
FlashServesWhole ==
  ram = NoLedger /\ ~suspect /\ NvsPresent => Coherent

\* One push at a time, with any number of httpd workers: the slot is taken
\* exactly while one handler is between its claim and its release.
OnePushAtATime ==
  /\ inFlight <=> \E p \in Pushers : pc[p] # "idle"
  /\ \A p, q \in Pushers : pc[p] # "idle" /\ pc[q] # "idle" => p = q

\* The partition being erased or written is never the one active_part names,
\* so the ledger that survives a power loss is not the one being overwritten.
StagingIsolated ==
  \A p \in Pushers : pc[p] \in {"erase", "write"} => target[p] # nvs.part

\* What s_state should be: "none" without a ledger, and after a start that could
\* not read the stored one.
ServingState == IF Active = NoLedger \/ "boot" \in misread THEN "none" ELSE "active"

\* Between pushes s_state says exactly whether a ledger is served, as far as the
\* start could read: a refused push puts back the state it found, whatever
\* happened since.
LifecycleMatchesServing == ~inFlight => lifecycle = ServingState

\* Without a reboot the served ledger changes only to a strictly newer one, in
\* RAM and after the hand-over to flash alike, unless a failed read of
\* active_part hid the served ledger from the version gate.
ServedOnlyGrows ==
  [][\/ Reboot
     \/ "gate" \in misread
     \/ Active' = Active
     \/ Active' # NoLedger /\ (Active = NoLedger \/ Active'.ver > Active.ver)]_vars

\* A version the server was told is persisted is still the floor of what the
\* metadata says after any number of failed or interrupted later pushes - until
\* a push is let in past a gate that could not read active_part, and again from
\* the next completed cache write on.
AckedVersionSurvives ==
  acked # 0 /\ "gate" \notin misread => NvsPresent /\ nvs.ver >= acked

\* The double buffer covers one overlapping push, not two: with fewer than two
\* cache writes after the handler read active_part, what it sends is not out of
\* an erased partition.  That holds after a power loss in the middle of a push
\* too, because active_part never names a partition that is not whole.
ChunkNotErased ==
  rd.pc = "answer" /\ rd.writes < 2 => rd.bytes # Blank

\* With no ledger installed since the request, the chunk is a block of the served
\* ledger, whole or up to the ledger's end, and "more" says whether anything
\* follows - also when flash takes over from RAM between the two passes.
ChunkIsExact ==
  rd.pc = "answer" /\ rd.still =>
    LET size == SizeOf[rd.bytes.dig] IN
      /\ rd.bytes = Active /\ Active # NoLedger
      /\ Offset < size
      /\ Length = IF size - Offset < ChunkSize THEN size - Offset ELSE ChunkSize
      /\ More <=> Offset + Length < size

\* What the mesh is sent comes from one whole ledger.
ChunkFromWholeLedger == ChunkNotErased /\ ChunkIsExact

\* Every claimed push slot is given back, whatever fails on the way.
SlotIsReleased == inFlight ~> ~inFlight

Store == INSTANCE LedgerStore WITH served <- Active, floor <- acked

\* The ingress keeps the promise of LedgerStore across pushes, failed cache
\* writes and reboots: every step is one of the store, except from the moment a
\* failed read of active_part let an older push in to the next completed cache
\* write.
ImplementsStore ==
  Store!StoreInit /\ [][Store!StoreNext \/ "gate" \in misread]_<<Active, acked>>

-----------------------------------------------------------------------------
(* Why they hold: the invariant that each step preserves. *)

BeforeInstall == {"receive", "validate", "lookup", "install"}
ChunksSet == {"commit", "drop_ram"}
SizeSet == {"set_chunks"} \cup ChunksSet
DigestSet == {"set_size"} \cup SizeSet
VersionSet == {"set_dig"} \cup DigestSet
PartSet == {"set_ver"} \cup VersionSet
Written == {"set_part"} \cup PartSet

\* What a handler has established when it is at pc[p].
HandlerInv(p) ==
  /\ pc[p] # "idle" => led[p] # NoLedger
  /\ pc[p] \in BeforeInstall => prior[p] = ServingState
  /\ pc[p] = "install" /\ "gate" \notin misread =>
       Active = NoLedger \/ led[p].ver > Active.ver \/ led[p] = Active
  /\ pc[p] \in Persisting =>
       ram = led[p] /\ lifecycle = "active" /\ "boot" \notin misread
  /\ pc[p] \in Written \cup {"erase", "write"} => target[p] \in Slots
  /\ pc[p] \in Written => flash[target[p]] = led[p]
  /\ pc[p] \in PartSet => nvs.part = target[p]
  /\ pc[p] \in VersionSet => nvs.ver = led[p].ver
  /\ pc[p] \in DigestSet => nvs.dig = led[p].dig
  /\ pc[p] \in SizeSet => nvs.size = SizeOf[led[p].dig]
  /\ pc[p] \in ChunksSet => nvs.chunks = Chunks(SizeOf[led[p].dig])

\* The keys are first set in the order of commit_active_metadata.
KeysInOrder ==
  /\ nvs.ver # NoVal => nvs.part # NoVal
  /\ nvs.dig # NoVal => nvs.ver # NoVal

RamNotOlder ==
  ram # NoLedger /\ NvsPresent /\ "gate" \notin misread => ram.ver >= nvs.ver

IInv ==
  /\ TypeOK
  /\ OnePushAtATime
  /\ \A p \in Pushers : HandlerInv(p)
  /\ KeysInOrder
  /\ RamNotOlder
  /\ FlashServesWhole
  /\ LifecycleMatchesServing
  /\ AckedVersionSurvives

\* The partition that active_part names is whole, and not the staging one.
ActivePartWhole == nvs.part # NoVal => flash[nvs.part] # Blank

\* What the chunk handler has when it has fixed its partition: with no cache
\* write since, that is still the active partition and no handler is past its
\* erase; with one, that write goes, or went, to the other partition.
ChunkReaderInv ==
  /\ rd.pc \in FlashReading /\ rd.writes = 0 =>
       /\ rd.part = nvs.part
       /\ \A p \in Pushers : pc[p] \notin {"write"} \cup Written
  /\ rd.pc \in FlashReading /\ rd.writes < 2 => flash[rd.part] # Blank
  /\ ChunkNotErased

ServeInv == StagingIsolated /\ ActivePartWhole /\ ChunkReaderInv

\* What the chunk handler has at rd.pc while no ledger is installed: as long as it
\* reads keys, RAM holds nothing, so no cache write is under way; both sizes
\* and the bytes are those of the one served ledger.
StillInv ==
  rd.still =>
    /\ rd.pc # "idle" /\ ram = NoLedger => ~suspect
    /\ rd.pc \in KeyReading => ram = NoLedger
    /\ rd.pc = "get_size" => NvsPresent
    /\ rd.pc \in {"read_ram", "read_part", "answer"} \cup FlashReading =>
         Active # NoLedger /\ rd.total = SizeOf[Active.dig]
    /\ rd.pc \in FlashReading => rd.part = nvs.part
    /\ rd.pc \in {"read_flash", "answer"} =>
         rd.size = SizeOf[Active.dig] /\ Offset < rd.size
    /\ rd.pc = "answer" => rd.bytes = Active

-----------------------------------------------------------------------------
(* What comments in the code say, and the code does not do. *)

\* bos_ledger_ingress.h:12: "Atomic swap is a single NVS commit on key
\* active_partition": the metadata flash serves from is never half swapped.
SwapIsAtomic == ram = NoLedger /\ NvsPresent => Coherent

\* bos_ledger_ingress_push.c:371: a ledger whose cache write failed "is lost on
\* reboot (persist state then reads "none" until the server pushes again)".
DegradedRebootReadsNone ==
  [][Reboot /\ ram # NoLedger /\ ~inFlight => PersistState' = "none"]_vars

\* bos_ledger_ingress.h:58: PERSISTED means "serving copy is flash-backed
\* (partition + NVS metadata)"; the idempotent answer says "persisted" of the
\* ledger the server just sent.
PersistedAnswerIsFlashBacked ==
  [][\A p \in Pushers :
       pc[p] = "lookup" /\ AlreadyStored(p)
         => flash[nvs.part] = led[p] /\ nvs.size = SizeOf[led[p].dig]]_vars

\* bos_ledger_ingress_push.c:295: a "ledger version lower than active ledger" is
\* refused, also when active_part cannot be read at that moment.
LowerVersionRefused ==
  [][\A p \in Pushers :
       pc[p] = "install" /\ Install(p) /\ Active # NoLedger
         => led[p].ver >= Active.ver]_vars

\* A single push beside a chunk request leaves the chunk a block of one ledger.
\* The request may fix the old partition and then read the new size, or take
\* "more" from the old ledger and the bytes from the new one.
ChunkExactUnderOnePush ==
  rd.pc = "answer" /\ rd.writes < 2 /\ rd.bytes \in Ledgers =>
    /\ rd.size = SizeOf[rd.bytes.dig]
    /\ rd.total = SizeOf[rd.bytes.dig]
=============================================================================
