# Verification of the building-OS Thread border router

TLA+ models, TLC runs and TLAPS proofs for this repository: Espressif's OpenThread
border router SDK (`src/components`, `src/examples/common`) and the building-OS
border router built on it (`src/examples/building_os_border_router`, called BR
below).  The models follow the source; `PROJECT.json` maps every definition to the
lines it translates.

## 1. The system

The BR joins an Ethernet or Wi-Fi backbone to a Thread mesh.  A site server on the
backbone registers the BR, pushes *ledgers* (versioned configuration artifacts) and
phonebooks to it, asks it for status and updates its firmware; devices in the mesh
fetch the ledger from it over CoAP.  The code runs as FreeRTOS tasks that share
static variables: the httpd task (all HTTP handlers), the OpenThread task (all CoAP
handlers and OpenThread callbacks, under the OpenThread lock), the event loop
(IP and Ethernet events), the esp_timer task, and one task each for registration,
self-heal, aggregation, Thread bring-up and delayed restarts.  NVS keys and flash
partitions survive a power loss; nothing else does.

| component | state | operations | what makes it correct |
|---|---|---|---|
| ledger ingress | RAM copy, two flash partitions, NVS keys, push slot, `s_state` | push, active/persist getters, boot | one push at a time; what is served is whole and never older; persisted means persisted; the slot always comes free |
| ledger mesh serve | CoAP resources, SRP service, phonebook target | manifest, chunk, have, publish, announce | a chunk comes from one ledger; the advertised version becomes the served one |
| self-heal | IPv4 flag, last IP and action times, attempt counter, RTC restart counter | monitor task, IP/Ethernet events | never disturbs a healthy link; bounded restarts; eventually acts |
| BR OTA | operation slot, status, boot partition, image state | upload, fetch, confirm, roll back, delayed restart | one operation at a time; an unconfirmed image is rolled back; no state is final |
| host and RCP OTA (SDK) | two image directories, sequence and verified flag, host boot partition | download, submit, mark, flash the RCP | host and RCP images change together; a bad image is left behind |
| server registration | token, device id, gateway URL, heartbeat ring | registration task, heartbeat, flush, discovery | at-least-once, in order, bounded; identity not torn |
| convergence aggregator | peer table (64 rows), scan cursor | observe, merge, evict, snapshot | bounded table; a slot carries nothing of its former peer; what is offered was announced |
| floating book | 16 rows, dirty flag, NVS blob | touch, persist, load | what was touched is saved, or due to be |
| commissioning, joiner | identity strings, two pending joiners, the commissioner's callbacks | commission, accept, expire, flush | identity all or nothing; a joiner ends exactly once, with its last credential |
| network time | clock, source, NVS epoch | SNTP callback, Date header, restore, persist | a clock called synced was set since the start |
| dataset anchor, start-up | NVS dataset, OpenThread dataset, bring-up task | apply or form, start, the pages that change it, radio reset | the BR rejoins its own network |
| phonebook, trigger, proxy | rows, NVS blob, target for the mesh | store, load, publish, resolve, trigger, forward | store, RAM and target agree; a trigger reaches the row's device |
| web server | route table, stored routes, one request at a time | start, register, dispatch; join, scan, topology, ping pages | every route answers; a page answers for its own request |
| Wi-Fi set-up | access point, name server task, credentials in RAM and NVS | start, submit, scan, stop, connect, save | what it is up with is saved; the name server is gone |
| CLI extension, test node, examples, front end | | | not modelled, see section 6 |

How they interact: the push route calls the ingress and, when the served ledger
changed, the mesh serve (SRP refresh, then a multicast nudge); CoAP handlers read the
ingress through its getters; the aggregator learns peers from SRP scans and from the
have exchange and feeds the bootstrap list of the have response and the floating
book; registration supplies the token that push and OTA authenticate with, and its
HTTP answers feed the clock; OTA and self-heal restart everything.  The building's
routes are stored before the web server exists and registered when the first address
starts it; its pages start work on the OpenThread task and wait for a callback, and
they change the dataset that the anchor and the bring-up task keep.  The Wi-Fi set-up
runs on the start task, its page on the httpd task, its name server on a third.

The hard parts: handlers that publish in several non-atomic flash writes; readers on
another task; power loss anywhere; flags read under a lock and used after it; error
paths that must undo exactly what they did; counters compared across restarts;
callbacks that come after the request they were for has given up.

## 2. Plan

Order of work, most important first.  A component has its own module, a
`...Proofs` module and one passing run; the switches of the environment (`FaultSets`)
are chosen in the initial state, so that one run covers the settings a property
needs.  Runs with an expected violation are kept for statements of the sources that
the code does not keep.

Done:

1. `LedgerStore`, `LedgerIngress`: the promise, the ingress that implements it, and
   the chunk handler of the mesh serve.
2. `SelfHeal`, `SelfHealHistory`.
3. `RcpOta`.
4. `BrOta`.
5. `HeartbeatFeed`, `HeartbeatRing`, `Registration`: the promised queue, the array, the
   task that uses it.
6. `PeerTable`: the bounded table, the scan task, the page and the have handler.
7. `WallClock`, `FloatingBook`: the clock's three sources, the stamps and the saves.
8. `LedgerAdvert` on `LedgerStore`, and `Phonebook`; 6 to 8 are composed in `MeshData`.
9. `Joiner`, `Commissioning`, `ThreadBringUp`, composed in `Onboarding`.
10. `WebServer`, `WebJoin`, `WebDiagnostics`, `WebPing`, `WifiConfig` with `SetupDns`,
    composed in `WebServices`.
11. Proofs for 1 to 10.

Left: two downloads of the RCP update at once, which needs the bytes of the shared buffer;
the address pages of the web server.

## 3. Modules

### LedgerStore
The promise: one served ledger, replaced only by a strictly newer one, and a floor
below which a reboot cannot take it.  Actions `Replace`, `Acknowledge`, `Restart`.

### LedgerIngress
`bos_ledger_ingress*.c` and the chunk handler of `bos_ledger_mesh_serve.c`.

State: `ram` is `s_ram_body` with `s_ram_meta`; `nvs` is a record of the NVS keys,
each set by an action of its own (`committed_at` and `chunk_size` are left out: no
reader depends on them); `flash` maps the two partitions to a whole envelope or
`Blank`; `inFlight` and `phase` are the push guard; `lifecycle` is `s_state`;
`lastErr` is the phase of the error record.  `pc`, `led`, `prior` and `target` are
the locals of each running push handler, `rd` those of the chunk handler.  `acked`
and `suspect` are history: the newest version answered as persisted, and whether a
power loss hit while only RAM was serving.

`misread` is history too: a failed read hid the stored ledger from the start ("boot"),
or from the version gate of a push that would have been refused ("gate", until a cache
write completes).

A ledger is a version and a digest; the digest stands for the body, because
validation recomputes it.  The receive loop is one step that succeeds or fails; CBOR
parsing and hashing are one step that accepts or refuses.  Steps between two shared
accesses are merged with the access that follows.  The push handler holds the slot
while it reads `ram` and `nvs`, and is then their only writer, so its own reads are
one step, as far as they succeed.  `get_active_nvs` answers "no ledger" when
`active_part` cannot be read and an error when another key cannot: the first is
`AcceptBlind`, which lets any version in, the second `LookupFails`.  The chunk handler's
reads are one step per critical section, NVS call or partition read; it keeps the size of
its first look-up (`rd.total`, for "more") apart from partition and size of its second
(`rd.part`, `rd.size`), as the code does.

`Faults` says which environment failures are on: `"write"` (partition look-up,
erase, write, any `nvs_set` or commit), `"read"` (NVS reads of the push handler and of
the start), `"serve"` (those of the chunk handler), `"crash"` (power loss and boot, at any
step).

### SelfHeal, SelfHealHistory
`bos_self_heal.c`.  The monitor task is `pc`, `left` (what is left of its
`vTaskDelay`) and its locals `at` (the clock), `seen` (the attempt counter) and `seenIp`
(the time of the last address); one action per stretch between two waits or two shared
accesses: the clock read (`ReadClock`), the snapshot under `s_lock` with the
decision (`PollQuiet`, `PollReset`, `PollRestart`), the chip reset, the stamp, and the
two outcomes of `l2_restart`.  Events and ticks may come between the clock read and the
snapshot, where the monitor may wait for the lock.  The event task's `Connected`, `GotIp`, `Disconnected` and
`Stopped` may come between any two of them; the stop event that the driver posts while
the monitor resets the chip waits in `stopPosted`.  Time is in ticks; the 64-bit clock
is taken modulo `Word` where the code subtracts.  `rtcCount` and `rtcStart` survive
`Restart` and `OtherRestart` and not `PowerCycle`.  The event ring for `/bos/status` is
left out: no step reads it.

`SelfHealHistory` adds what an observer would write down (when the address was lost,
how long ago the last restarts were) for the two statements that need it.

### RcpOta
`esp_br_http_ota.c`, `esp_rcp_ota.c`, `esp_rcp_update.c`, `esp_ot_rcp_update.c` and the
command that starts a download.  `dl` is the download task, `ot` the task that flashes
the RCP; they share `s_handle` (`seq`, `verified`) without a lock, and so do the actions.
`slot` holds for each image file its version and how much of it is there, because a
file that was cut short is what the properties are about; `host`, `boot` and `running`
are the host partitions, `nvs` the stored sequence, `val` a value computed and not yet
stored, `rcp` what the RCP runs.  An update opens the current file (`OpenUpdate`, `uslot`),
flashes it (`FlashDone`, `UpdateAborted`) and marks whatever is current by then
(`MarkUpdated`) in separate steps, so a submission may come between any two of them.

### BrOta
`bos_br_ota.c` and `bos_br_ota_stream.c`, with the bootloader's choice as an external
definition.  `lock` is the operation lock, `st` and `pending` the global status that
handlers, delayed tasks and the main task write; `part`, `ota` and `pick` are flash.  The
answer is sent and the lock given back (`Answer`) before the delayed task exists
(`Schedule`) and long before it runs, so uploads, confirmations and roll-backs can try
to come in between.  The state "rebooting" is merged with the restart that follows it.

### HeartbeatFeed, HeartbeatRing, Registration
`HeartbeatFeed` is the promise: a bounded queue of heartbeats sent oldest first, whose
oldest gives way, counted, when it is full.  Actions `Take`, `Answered`, `Unanswered`,
`Keep`, `Restart`.
`HeartbeatRing` is the array with its head and count, modulo the capacity.
`Registration` is the registration task (`reg`), the two httpd routes that load or
erase the same identity (`web`), and the gateway, which may move.  A request carries the
id, the token and the host of the moment it is built (`Send`), and its answer is a step
of its own, so a reset or a move can come in between.  A device token is named by the
id it was issued for.  `beat`, `heard` and `mute` are history: the heartbeats taken,
those the gateway has seen, and the rounds since the discovered gateway last answered.

The response to a claim may name the id that was sent, none, or, with the fault
"rename", any other (`Named`); the token is stored first and that id after it, and the
write may fail or power be lost in between.  `torn` is history: the named id was another
than the one sent and was not stored whole.

Merged or abstracted: reading id and token of one request is one step; the choice of the
address in the claim body is left out.

### Groups of components
Three modules put together components that share no variable, or only the served
ledger: `Onboarding`, `MeshData`, `WebServices`.  A variable `part`, chosen in the
initial state, says which of them moves.  Since they share nothing, each step of one
leaves the others' invariants alone, and the joint state space would be a product that
tells nothing more; where components do share state they are in one part (the joiner
and the bring-up task; the clock and the floating book; the advertisement and the
pushes; the set-up task and its name server).

### ThreadBringUp, Joiner, Commissioning (Onboarding)
`ThreadBringUp` is `app_main` (`main`), `bos_thread_bringup_task` (`task`, `tries`,
`brInit`) and `bos_thread_dataset_anchor.c`, with the requests of the web server that
replace the dataset.  `settings` is the dataset in OpenThread's own settings, `anchor`
the one in NVS, `running` the network Thread is enabled on.  An attempt holds the
OpenThread lock, so a request comes between two attempts; the radio reset gives the lock
back for a second (`reset`).  `chosen` and `formed` are history.  A restart may come at
any step, an erased NVS at the start.  The one httpd task serves the radio reset and the
joiner routes; the model lets joiner requests fall into the reset's second, which only adds
behaviours.

`Joiner` is `bos_joiner.c` and the commission request of the web server.  `comm` is
OpenThread's commissioner, `owner` whose callbacks it holds, `pending` the two slots,
`joiners` OpenThread's table; `AfterSlots[n]` is that table after the first n slots of
`flush_pending_joiners`.  Two joiners that
the web server's petition left in the queue make every later accept answer 503 until one
meets an active commissioner.

`Commissioning` writes the eight identity keys one step each; a failure or a power loss
may fall between any two.

### LedgerAdvert, Phonebook, PeerTable, WallClock, FloatingBook (MeshData)
`LedgerAdvert` has the push route (`pusher`) and the main task's publish at the end of the
start (`boot`), each of which reads the ledger, counts its chunks and publishes in
separate steps.  The ledger moves by `LedgerStore`'s actions, which `LedgerIngress`
implements as long as no failing read lets an older push in; `PeerTable` samples that
ledger too.  A look-up that fails is left out of both.  `late` is history: a publish failed, or the main task's came after a push.

`Phonebook` has the phonebook route step by step (`web`), the have handler on the
OpenThread task (`have`), and the mutex that the first of them creates: `lock` is the handle,
`made` counts mutexes, `holder` says who has each, so that both tasks may hold one of
their own.  Targets of triggers and of the proxy are operators (`TriggerTargets`,
`SrpAnswers`); the proxied answer is counted in chunks.  A start may fail to load the
stored book (`PbLoadFails`): it is empty then, and the diagnostics server starts or, after
some of the failures, does not (`web = "closed"`).  The last step of a push may be answered
500 for want of memory although the book is in force (`fate`: answered, late or unloaded).

`PeerTable` has the SRP server's hosts, the table (`rows`), the scan task (`browse`,
`todo`, `merging`) and a reader that samples ledger and time before it locks the table.
The columns `state` and `role` are operators over a row, the sampled ledger and the sampled
time.  A record names any of version, digest and chunks or leaves them out, and the merge
takes over each that is named, so a row may hold keys of several records; a digest may be
a prefix of the served one (`Prefixes`).  `announced` is history: the keys of each record a
node has registered.  A node is taken to have an id of its own; the percentage is left out.

`WallClock` names a time by where it came from.  Each source sets the clock in one step and
raises `source` in another.  `FloatingBook` has the 16 rows with their stamps, the dirty
flag, and the save between two scans.  With more unpaired devices than rows the ring drops
and adds rows at every scan, and is saved each time.  A start that cannot read the saved
rows, or skips them as those of another format, leaves the book empty and clean (`unread`).

### WebServer, WebJoin, WebDiagnostics, WebPing, WifiConfig, SetupDns (WebServices)
`WebServer` holds the route tables of the sources as sequences of paths, the registration
in the order the two tasks reach it, and the look-up of httpd.  `WebJoin`,
`WebDiagnostics` and `WebPing` are the pages that wait: `page`, `collector` and the like are
where the request is, and each callback is a step that may come late.  Ticks are taken
modulo `TickSpan` where the code subtracts unsigned numbers.  `WifiConfig` is `ot_br_init` of the launch
file with `esp_br_wifi_config.c`: the start task, the submit and the scan handler, each
step between two accesses to the statics they share without a lock; `SetupDns` is the
name server's task and its stop, which looks at the task's handle and deletes the task in
two steps.

### The proof modules
`LedgerIngressProofs`, `SelfHealProofs`, `RcpOtaProofs`, `BrOtaProofs`,
`RegistrationProofs`, `OnboardingProofs`, `MeshDataProofs` and `WebServicesProofs`: theorems
for any values of the constants; see section 5.  `MCLedgerIngress`, `MCMeshData` and
`MCWebServices` define the constants that a .cfg cannot write.

## 4. Runs

| run | instance | shows |
|---|---|---|
| `ledger_core` | 2 workers, 2 versions x 2 digests, all faults of pushes and starts | what is served from flash is whole; `s_state` agrees with what is served; refinement of `LedgerStore` |
| `ledger_serve` | 1 worker, a ledger of each version, 3 chunk blocks, write and chunk-read faults and power loss, fair handler | a chunk is a block of the served ledger, and never of an erased partition; the slot is always released |
| `self_heal` | 2 resets, then a restart; window and clock of 10 and 12 ticks | order of the ladder, grace windows, minimum boot length, the monitor acts |
| `rcp_ota` | 2 versions, 4 sets of faults | current image whole, running host partition spared, RCP up to date when up, a submitted image runs |
| `br_ota` | 2 handlers, 3 versions, 2 sets of faults | what was announced is what the delayed task finds; a trial has a fallback; routes reopen |
| `registration` | ring of 2, threshold 2, 4 heartbeats, 1 move, 3 sets of faults | losses counted, capture order, silent gateway left, one identity, registered at last |
| `onboarding` | 2 attempts, 7 networks; 1 joiner, 3 credentials, 2 slots, 1 table entry; 2 identities | back on its network, own network anchored; last credential wins, a queued joiner is not forgotten; an answered identity is whole; the bring-up and the queue end |
| `mesh_data` | 2 versions; 2 documents, 2 prefixes, 2 mutexes; 2 peers and itself, 1 row; 1 unpaired device | the advertisement is current; the book is the answered one; offers hold, fresh rows are online; the book is saved, a synced clock was set |
| `web_services` | 28 routes and all pages; 3 join sessions; 2 routers, 10 ticks; 3 pings; 2 submissions | every route answers; a join is its own; no late write, a collection ends; what is up is saved, the name server is gone |
| `heal_boot_loop`, `device_id_reset`, `topology_quiet` | expected violations | three statements of the sources that the code does not keep |

### Bounds
*Ledger.*  Two versions and two digests give an older, an equal and a newer ledger, with
the same and with another body, which is all the version gate tells apart; in `ledger_core` the server
pushes any of them (`Offered`), in `ledger_serve` one of each version, of three and five
bytes: with chunks of two, both end in a short chunk, and three blocks read inside one
ledger, across the end of the shorter and beyond it.  Nothing else is bounded: pushes, failures and power losses repeat
without limit.

*SelfHeal.*  `MaxUptime` bounds one boot, not the number of boots.  With one tick per
poll, two for the grace window and five for the cooldown the earliest restart comes at
tick 8, so 12 ticks hold the whole ladder, a second round at the cap and an expired
window of 10.  `LockWait` lets one tick pass between the clock read and the snapshot.
`DownIsActedOn` leaves out sleeps that start too late for its deadline
within those ticks.  `heal_boot_loop` uses a smaller ladder, so that several
restarts fit.  `total`, `s_l1_total`, is only ever compared
with `L1Max`.

*RcpOta.*  Two versions make "the same version" and "another one"; the image on the server
has any of them with or without a host part.  The four fault sets are the ones the
properties distinguish: downloads only; with NVS writes; with flashing, RCP failures and
power loss; with the connection to the RCP.  `Bootable` smaller than `Versions` is an image
with which the RCP does not start; the run does not use it, since no update is finished then.

*BrOta.*  Versions 1 to 3 give an older, an equal and a newer image and an upgrade after
an upgrade; two handlers let one hold the lock while the other asks for it.  The second
fault set adds flash failures, under which `RoutesReopen` claims nothing.

*Registration.*  Two ids are the derived one and another that NVS held or a response names.
A ring of two with four heartbeats fills, drops, wraps and drains;
`MaxBeats` bounds the heartbeats of one start (the count starts again at each boot) and
`MaxMoves` the moves of the gateway.  `failures` stops at the threshold, beyond which the
code makes no difference, and `mute` one above it, where `SilentGatewayLeft` is
already false.

`ChunkFromWholeLedger` has two parts.  `ChunkNotErased` excludes a request that two cache
writes overlap: the second write erases the partition the handler chose before the
first, and TLC produces a blank chunk without the exclusion; a chunk request takes far
less time than two pushes, and the receiver checks the digest.  `ChunkIsExact` says that
the bytes, their length and "more" are those of the served ledger as long as none is
installed meanwhile.  One push that overlaps is enough to pair the old partition with
the new size, or the bytes of one ledger with the "more" of the other
(`ChunkExactUnderOnePush`, refuted).

`LifecycleMatchesServing` and `ImplementsStore` hold with failing NVS reads, but for what
such a read hides, which `misread` records: the start leaves `s_state` at "none", and the
version gate lets an older push in (`LowerVersionRefused`, refuted).  `LedgerStore` itself
stays strict.

`GraceAfterReset` leaves out a poll whose snapshot holds an address later than its clock,
`OneIdentity` a renamed claim that was not stored whole, `BookIsSaved` a book that the
start could not read, and `OfferedPeersHold` claims of a node that leaves keys out each
key only; the table of refuted definitions below has the statement without the exception.

`StagingIsolated` (proved, section 5) assumes that NVS reads do not fail: a failing read
of `active_part` counts as partition 1 and may direct the write at the active partition.
`CurrentImageWhole` assumes NVS writes and the connection to the RCP, `OneIdentity` and
`SilentGatewayLeft` exclude read faults and the reset route; the definitions say so.

*Onboarding.*  `NewNet` takes a network that no variable holds, so seven names stand for
networks without end.  One joiner with a table of one entry is enough for the order of
credentials, and the web server's entry for any joiner makes the table full.

*MeshData.*  The second document has a version past the 32-bit clamp, a device listed twice
and a row that is not mesh-local.  One table row for two nodes makes every merge of the
other an eviction; the router's own record checks that it is left out.  `TickMax` of two
ticks with limits of 0 and 1 give online, stale and offline.  The floating book has one row
and one device, so that its ring never drops; a second device multiplies the states of the
clock by those of the ring (2.7 million), and the dropping is covered by the proof.  `HandleMax`
of two is both tasks' mutex.

*WebServices.*  The routes are those of the sources, and `ExternalMax` the value of
`esp_br_web.c`, which the building's 28 routes fill to the last entry.  Three sessions let a callback of the first come in the second request and
in the third.  `TickSpan` is larger than any wait, as the 32-bit tick is, and the first
tick is anything, so that the count wraps in any phase.  The parts of a submission are an SSID with a
password and one of an open network.

### Fairness
Every fair specification asks only that tasks which can take a step are not starved;
nothing obliges a request, an event or a download to arrive.

* Ledger: a handler that has claimed the slot keeps running; `httpd_req_recv` returns
  with data, an error or its own timeout.
* SelfHeal: the monitor task is scheduled and time passes.
* RcpOta: both tasks run on.  A download that only ever erases the host partition is
  not a run of the task, whose loop moves forward.
* BrOta: a handler that runs goes on, the main task finishes its start, and a delayed
  task wakes up.
* Registration: the task runs on, since each of its waits has a timeout; and a browse,
  a claim and a write of the token that may succeed again and again succeed at last
  (strong fairness: each attempt may fail before).
* Onboarding: the bring-up task is scheduled, and OpenThread answers a petition one way or
  the other, after its own retries.
* WebServices: the topology request's own steps; it sleeps between two polls and waits for
  nothing else.

### Findings
With a run:

* `heal_boot_loop`: the window start is a clock value of an earlier boot; the unsigned
  difference wraps, the count is cleared and the cap of `bos_self_heal.c:56` is
  exceeded.
* `device_id_reset`: between the erase and the restart the registration task claims
  under the old id and stores it again, so the reset has no effect.
* `topology_quiet`: a response between the two tick reads of a poll makes the quiet time wrap,
  and the collection ends at once.

Stated as a definition that no run checks, because TLC refutes it; adding the name to the
.cfg of the component shows the trace (with `Bootable = {v1}` for `BackupIsFlashed`):

| definition | module | what the code does |
|---|---|---|
| `PersistedAnswerIsFlashBacked` | LedgerIngress | after a torn swap the re-push is answered "persisted" although partition and keys disagree |
| `LowerVersionRefused` | LedgerIngress | a failing read of `active_part` counts as "no ledger", and the push of a lower version is accepted |
| `ChunkExactUnderOnePush` | LedgerIngress | one push beside a chunk request mixes the old partition with the new size, or bytes and "more" of two ledgers |
| `GraceAfterDisconnect` | SelfHeal | the grace window counts from the last address, not from the disconnect (`bos_self_heal.c:40`) |
| `FreshGraceWindow` | SelfHeal | an address that comes and goes between the clock read and the snapshot makes the difference wrap, and the chip is reset inside the window |
| `RollbackRestoresHost`, `BackupIsFlashed` | RcpOta | the roll-back selects the partition just written; the backup image of `rcp_update.rst:41` is never flashed |
| `SntpOutranks` | WallClock | a Date header that was let through before the first SNTP answer overwrites the clock after it |
| `ClaimKeptWhole` | Registration | the token is stored before the id that the response names; a failure in between leaves them apart |
| `StampIsTrue` | FloatingBook | a stamp takes the time before, and "synced" after, the clock is set |
| `SavedIsKept` | FloatingBook | a start that cannot read the saved rows goes on with an empty book, and the next save replaces them |
| `OfferedIsOneRecord` | PeerTable | a record that leaves keys out keeps those of an earlier one, and the node is offered with the chunks of another ledger |
| `RefusedNotInForce` | Phonebook | a push answered 500 at its end has replaced the book and the target |
| `HaveNamesOneBook` | Phonebook | two tasks may each create the mutex, and a node reads the version of one book with the digest of another |
| `ProxiedWhole` | Phonebook | a proxied body that breaks off ends like a whole one |
| `FreshLedgerAdvertised` | LedgerAdvert | the start's publish may put the old advertisement back after a push |
| `ActiveMeansAdded` | Joiner | a joiner queued under the web server's petition is not added when it succeeds |
| `TakenIsSubmitted` | WifiConfig | the start task may read the SSID of one submission and the password of another |
| `RecordsHeldStill` | WifiConfig | a scan that outlives its request frees the records the next one renders |
| `PingAnswersItself` | WebPing | a late statistics callback ends the next ping at once |
| `DeletedOnce` | WifiConfig | the stop deletes a name server task that has deleted itself between the look at its handle and the delete |
| `NoNameServerWhenUp` | WifiConfig | an access point that fails leaves its name server running |

Seen while modelling, without a definition of their own:

* `bos_ledger_ingress.h:12` calls the swap "a single NVS commit"; it is seven keys,
  `active_part` first, each written through.  After a failed cache write and a reboot an
  older persisted ledger is served again.
* Self-heal: an address that arrives after the snapshot is reset away.
* RCP update: a failed commit leaves `s_handle` turned to the other file, and the next
  download empties the one NVS names; a refused update turns to the other file without
  a look at it; `esp_rcp_update` aborts without clearing the verified flag.
* BR OTA: a delayed roll-back that fails leaves `reboot_pending` set, and every
  operation is answered 409 until a restart.
* Registration: the reset erases the id before the token, so a power loss or a failed
  erase in between leaves a token for the old id with the new id; an NVS id that cannot
  be read is overwritten by the derived one; any HTTP answer from the old address
  counts as the gateway's; `README.md:125` of the BR says that mDNS discovery is not implemented,
  the code browses.
* Radio reset: when the second lock times out, Thread stays down
  (`bos_diag_routes_thread.c:411`), where the comment at line 384 has it up again.
* Dataset: a network formed on the web page leaves the anchor as it was until the next
  start; a join adds its on-mesh prefix and does not register it.
* The network scan page waits for its callback without a limit.

## 5. Proofs

`LedgerIngressProofs` proves, from `IngressAssumption` alone (versions and sizes are
positive, the markers are not ledgers), for any sets of workers, versions, digests,
blocks and faults:

* `Inductive`: `IInv` is an invariant.  It says what the slot holder has established
  at each program counter (`HandlerInv`): before the RAM copy is installed, the state
  to restore matches what is served and the pushed ledger passed the gate; during
  the cache write RAM holds the pushed ledger, and partition and keys agree with it
  up to the step reached.  The safety invariants are not inductive without it:
  nothing in `FlashServesWhole` alone says why the keys are right when RAM is
  dropped, or in `AckedVersionSurvives` why a new key is not older than the old one
  (`RamNotOlder`, `KeysInOrder`).
* `TypeCorrect`; `WholeLedger` and `LifecycleCorrect`, which `ledger_core` checks; and
  `MutualExclusion` (`OnePushAtATime`) and `Durable` (`AckedVersionSurvives`), proved for
  every instance and not among a run's properties.
  `Durable` leaves out a push let in by a failed read ("gate" in `misread`) until its
  cache write completes.
* `Isolation`: `StagingIsolated` if the NVS reads of pushes and starts do not fail.
* `NotErased`: `ChunkNotErased` on the same condition, from `ServeInv`: the active
  partition is never blank, and a chunk reader that no write has overlapped reads the
  active one while no handler is past its erase.  The first write that overlaps then goes
  to the other partition (`StagingIsolated`), so only a second one could reach the
  reader's.
* `ChunkExact`: `ChunkIsExact` with any faults, from `StillInv`: while no ledger is
  installed, a reader that goes from key to key found no RAM copy, so no cache write is
  under way and the keys it has read are still those of the served ledger; one that found
  the RAM copy and then does not has seen the hand-over to a flash copy of the same ledger.
* `ChunkWhole`: `ChunkFromWholeLedger`, both of them, on the condition of `NotErased`.
* `Monotone`: the action property `ServedOnlyGrows`; every step but a reboot, and but those
  after a failed read let an older push in.
* `Refinement`: `ImplementsStore`; initial states map to initial states of `LedgerStore` and
  each step to a step or a stutter (`ActiveStep`, `RefineStep`), with the same exception,
  for any faults.

One lemma per action or group of like actions preserves `IInv`; facts used by many
(`StoreQuiet`, `Advance`, `Freed`, `Cached`) are stated once.

`SelfHealProofs`, from `SelfHealAssumption` (in particular that the clock's modulus is
larger than any difference within a boot): `HealInv` ties the time of each stage to the
number of resets before it.  `NoHotLoop` and `RestartIsLastResort` are not inductive: they
hold because the k-th reset is stamped after k - 1 grace windows and because what the
monitor decided at a poll still stands when it acts, whatever the event task does in
between.  The stale clock of a poll does not shorten a boot, because an address in between
also clears the attempts; it does shorten a grace window, so `Grace` is about polls whose
snapshot is not later than their clock.  Theorems `Inductive`, `TypeCorrect`, `LastResort`,
`HotLoopFree`, `Grace`.

`RcpOtaProofs`: `TypeCorrect` and `RunningHost` with any faults; `HandedOver` and
`CurrentWhole` with reliable NVS writes.  `HandoverInv` says which of the two image files
each task may name at each point: outside of a submission `s_handle` and NVS agree, the
download writes the other file, and once it is submitted both are whole.
`RcpFollowsImage` (`UpMeansUpToDate`) rests on `UpToDate`: between a start of the RCP and
"up" no download runs, the version it was asked for is the one it runs, and a download
writes only the file it does not run, until it submits.

`BrOtaProofs`: `OtaInv` says that the lock is held exactly in the middle of an operation,
that whatever is announced keeps `reboot_pending` set, and with it every other
operation out, and that only a selection, or a start on trial, makes the other partition
the selected one.  Theorems `TypeCorrect`, `Inductive`, `ImageIntact`, `RollbackIntact`.

`RegistrationProofs`, for a ring of any capacity: lemmas about the ring (where `Push` and
`Pop` put each entry, with and without wrapping), then `RegInv`: the ring is increasing,
behind all that was heard and before the heartbeat being sent (`Ordered`), which makes
both the order and the account of losses inductive; an id in RAM is the stored one or
about to be, and a token is for the stored id unless the claim was torn (`Identity`); each silent round has counted a failure (`Discovery`).
Theorems `Inductive`, `TypeCorrect`, `NoSilentLoss`, `SilenceBounded`, `IdentityWhole`,
`CaptureOrder`, and `RingIsQueue`: `Registration` implements `HeartbeatFeed` with the queue
read off the array (`Kept`), as a push and a pop are an append and a tail of it
(`PushIsAppend`, `PopIsTail`).  TLC agrees on the instance of the `registration` run, which
spends no property on the refinement.

`OnboardingProofs`: `NetInv` says that what runs is in OpenThread's settings, that the
settings, or without them the anchor, name the chosen network, that the task starts what it found,
and that the network formed last is in the anchor before it is in the settings.  Theorems
`BackOnNetwork`, `OwnAnchored`, from `BringUpAssumption`, which says that there are more
networks than variables that hold one.  `IdentityInv` (the keys written so far are of the
request) gives `AnsweredWhole`.  `TypeCorrect` rests on both and on `CredentialInv`.

`LastCredentialWins` and `QueueNotForgotten` hold for a queue of any length, so they need
what the recursive function `AfterSlots` computes.  The library's induction theorems take
a predicate, which no prover here instantiates; `Induction` states it for a set instead,
from the well-foundedness of the naturals (`WFMin`), and `SlotsAre` uses it slot by slot.
`CredentialInv` says that the last slot of a joiner holds its latest credential, that
without a slot OpenThread's entry does, and that the table is empty unless the
commissioner is active.

`MeshDataProofs`, for tables, books and rings of any size:

* `AdvertFollows` from `AdvertInv`: what the push handler is about to publish is served;
  what the main task is about to publish has its chunk count if it still is, since a newer
  version never becomes that one again.  `ToldServed` from `ToldInv`: whatever the mesh was
  told, or is about to be told by the push handler or the main task, is served or older.
* `BookAnswered` from `AnsweredInv`, with starts that do not load the book and answers that
  come to nothing; that a listed device has a first row needs the
  well-foundedness of the naturals.
* `OfferedHold`, `FreshIsOnline` from `PeerInv`: each row's keys were announced by the row's
  node, each by some record and, for a node that leaves none out, by one, through update,
  append and eviction.  A host cannot change while the scan merges it.
* `FloatingSaved` from `SavedInv`: the book does not change while it is saved, and it is
  empty from a start that could not read it to the first row, which is due to be saved.
* `ClockIsSet` from `ClockInv`: whoever marks the source has set the clock before.
* `TypeCorrect`: that each peer has one row (`OneRow`) needs that a row is appended or given
  away only when no row has its id; that the floating book fits needs the saved one to fit
  (`FloatTyped`), since a restart loads it.

`WebServicesProofs`: `RoutesAnswer` (`EveryRouteAnswers`) for every `ExternalMax` of at least
the 28 routes of the building.  `RoutesInv` says that each group is stored as a whole or
not yet, and in the order of the two tasks; the rest is about the tables themselves: two
plain paths of one method differ, and no wildcard of one method stands before a path it
takes.  `JoinIsOwn` from `JoinInv` (while a request waits the running session is
its own), `LateAnswersAreDropped` from `DiagInv`, `CredentialsSaved` from `SavedInv` (what is
still to be written), `NameServerStopped` from `StopInv` (a task that has yet to give finds its
handle set, so the stop that finds none need not wait).  `TypeCorrect` for the same
`ExternalMax`; a server that starts without the building's routes is the case `RoutesInv`
leaves open (`TableFits`).

Each safety invariant and action property of a passing run is stated by a theorem.  The
type invariants of the group modules are proved and not among a run's properties; TLC agrees
with them on the runs' instances.  Only
model-checked is liveness (`SlotIsReleased`, `DownIsActedOn`, `NewImageRuns`,
`RoutesReopen`, `EventuallyRegistered`, `QueueIsSettled`, `BringUpEnds`, `CollectionEnds`),
which needs fairness and ENABLED.

## 6. Not modelled

Formatting of JSON and CoAP answers, CBOR and date parsing, hashing, the OpenThread
and ESP-IDF libraries (their calls succeed or fail), rendering in the web server and
the front end, display code.  Whole components:

* the CLI extension: `CONFIG_OPENTHREAD_CLI_ESP_EXTENSION` is off in the BR's
  configuration.  Its socket workers wait for one event bit at a time and compare with
  `==`; they are developer commands.
* the ThreadTorrent-lite test node, which answers from constants;
* the examples' start-up glue and display pages, and the browser code.

Within the modelled components: the event ring of self-heal; two downloads at a time;
requests that reach the web server before the main task has confirmed the running image
(the server starts with the first address, which the main task asks for afterwards); the
address pages of the web server; the write authorisation wrappers, which refuse a request before
any of the modelled steps; an NVS read error of the anchor, after which a new network would be
formed; the captive portal's redirections.  `WifiConfig` models the set-up for boards that
enable `CONFIG_OPENTHREAD_BR_SOFTAP_SETUP`; the BR's own configuration uses Ethernet.
`PROJECT.json` lists every component with its status, and the hazards with the properties
that cover them.
