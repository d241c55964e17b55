----------------------------- MODULE PeerTable -----------------------------
(***************************************************************************)
(* The convergence aggregator: a task scans the SRP server every 30 s, merges *)
(* each service into a small peer table, and the pages of the diagnostics     *)
(* server and the CoAP have handler read the table together with the ledger   *)
(* that is served.                                                           *)
(*                                                                          *)
(* The scan holds the OpenThread lock throughout but the peer lock only for   *)
(* each merge, so a page may read in the middle of a scan; the have handler   *)
(* runs on the OpenThread task and may not.  Every reader samples the ledger  *)
(* and the time before it takes the peer lock.                               *)
(***************************************************************************)
EXTENDS LedgerStore, Sequences, FiniteSets

CONSTANTS
  Peers,        \* node ids, as the records name them
  Hosts,        \* what each may register
  Self,         \* the border router's own instance
  Texts,        \* digests as nodes write them, in full or cut short
  Prefixes,     \* of each digest, the texts it begins with
  NoKey,        \* what a TXT record does not say
  NoHost,       \* not registered
  PeerMax,      \* BOS_AGG_PEER_TABLE_MAX
  StaleAfter,   \* BOS_AGG_STALE_TIMEOUT_MS, in ticks
  OfflineAfter, \* BOS_AGG_OFFLINE_TIMEOUT_MS
  TickMax       \* bound: ticks between two restarts

ASSUME PeerAssumption ==
  /\ Self \in Peers /\ PeerMax \in Nat \ {0} /\ TickMax \in Nat
  /\ \A p \in Peers : NoHost \notin Hosts[p]
  /\ \A p \in Peers : \A h \in Hosts[p] :
       /\ h.svc \in SUBSET {"tmfs", "mesh"} \ {{}} /\ h.addr \in BOOLEAN
       /\ \A svc \in h.svc : h.keys[svc] \in
            [ver : Versions \cup {NoKey}, dig : Texts \cup {NoKey},
             chunks : {"all", "some", "untold", NoKey}]
  /\ NoKey \notin Texts /\ NoKey \notin Versions /\ NoKey \notin {"all", "some", "untold"}
  /\ Prefixes \in [Digests -> SUBSET Texts]
  /\ StaleAfter \in Nat /\ OfflineAfter \in Nat /\ StaleAfter <= OfflineAfter

VARIABLES
  registered,  \* the SRP server's hosts
  rows,        \* bos_agg_peers
  browse,      \* the scan task
  todo,        \* services the scan has not reached
  merging,     \* the service it merges, and the time it read for it
  reader,      \* a page or the have handler, and what it sampled; they only read, so
               \* one at a time is enough
  answer,      \* what the last step answered
  announced,   \* history: the ledger keys of each record a peer ever registered
  tick         \* milliseconds since the start

tableVars == <<registered, rows, browse, todo, merging, reader, answer, announced, tick>>
peerVars == <<storeVars, tableVars>>
scanVars == <<rows, browse, todo, merging>>

Services == {"tmfs", "mesh"}

\* lv, a digest that is not empty, and have against chunks, of which a number that
\* is not named is 0: a record may name some and not others.  Without the total, how
\* much the node has is untold.
LedgerKeys ==
  [ver : Versions \cup {NoKey}, dig : Texts \cup {NoKey},
   chunks : {"all", "some", "untold", NoKey}]

NoNames == [ver |-> NoKey, dig |-> NoKey, chunks |-> NoKey]

Readers == {"page", "have"}

Idle == [who |-> "none", active |-> NoLedger, now |-> 0]
NoAnswer == [now |-> 0, active |-> NoLedger, shown |-> <<>>, offered |-> {}]

\* Every step but the one that answers.
Silent == answer' = NoAnswer

-----------------------------------------------------------------------------
(* The derived columns of a row; a node that names its own role or state is
   believed, and left out. *)

\* Mutant: the plain subtraction of unsigned numbers.
Age_Wraps(now, seen) == (now + TickMax + 1 - seen) % (TickMax + 1)

\* A row may have been merged after the reader read the time.
Age(now, seen) == IF now > seen THEN now - seen ELSE 0

\* The digest counts as the served one's when it is the beginning of it.
IsCurrent(r, active) ==
  active # NoLedger /\ r.keys.ver = active.ver /\ r.keys.dig \in Prefixes[active.dig]

TransferState(r, active, now) ==
  CASE Age(now, r.seen) > OfflineAfter            -> "offline"
    [] Age(now, r.seen) > StaleAfter
         /\ Age(now, r.seen) <= OfflineAfter      -> "stale"
    [] Age(now, r.seen) <= StaleAfter ->
         CASE IsCurrent(r, active)                -> "seeding"
           [] ~IsCurrent(r, active) /\ r.keys.chunks = "some" -> "leeching"
           [] OTHER -> IF r.tmfs THEN "torrent-capable" ELSE "discovered"

PeerRole(r, active) ==
  IF IsCurrent(r, active) THEN "seed" ELSE IF r.tmfs THEN "peer" ELSE "leaf"

Shown(r, active, now) ==
  [id |-> r.id, seen |-> r.seen, state |-> TransferState(r, active, now),
   role |-> PeerRole(r, active)]

\* The bootstrap list: peers a node can fetch the served ledger from.
Offered(active, now) ==
  {rows[i] : i \in {j \in DOMAIN rows :
     /\ Age(now, rows[j].seen) <= StaleAfter
     /\ rows[j].tmfs /\ rows[j].addr
     /\ IsCurrent(rows[j], active) /\ rows[j].keys.chunks = "all"}}

-----------------------------------------------------------------------------
(* The table. *)

Find(id) == {i \in DOMAIN rows : rows[i].id = id}

NewRow(id) ==
  [id |-> id, tmfs |-> FALSE, mesh |-> FALSE, addr |-> FALSE, keys |-> NoNames, seen |-> 0]

\* allocate_peer_slot when the table is full: the first of the rows seen longest ago.
Oldest ==
  CHOOSE i \in DOMAIN rows : \A j \in DOMAIN rows :
    rows[i].seen < rows[j].seen \/ (rows[i].seen = rows[j].seen /\ i <= j)

\* Mutant: only the id is new.
Cleared_IdOnly(i, id) == [rows[i] EXCEPT !.id = id]

\* The slot is cleared before it is used again.
Cleared(i, id) == NewRow(id)

\* merge_peer: each of version, digest and chunks that the update does not name
\* stays as it was; have and chunks go together.
Over(new, old) == IF new = NoKey THEN old ELSE new

MergedKeys(old, new) ==
  [ver |-> Over(new.ver, old.ver), dig |-> Over(new.dig, old.dig),
   chunks |-> Over(new.chunks, old.chunks)]

Merged(r, svc, host, seen) ==
  [r EXCEPT !.tmfs = @ \/ svc = "tmfs", !.mesh = @ \/ svc = "mesh",
            !.addr = @ \/ host.addr,
            !.keys = MergedKeys(@, host.keys[svc]),
            !.seen = seen]

MergeInto(id, svc, host, seen) ==
  \/ \E slot \in Find(id) :
       rows' = [rows EXCEPT ![slot] = Merged(@, svc, host, seen)]
  \/ /\ Find(id) = {} /\ Len(rows) < PeerMax
     /\ rows' = Append(rows, Merged(NewRow(id), svc, host, seen))
  \/ /\ Find(id) = {} /\ Len(rows) = PeerMax
     /\ rows' = [rows EXCEPT ![Oldest] = Merged(Cleared(Oldest, id), svc, host, seen)]

-----------------------------------------------------------------------------
(* browse_task. *)

OtLockFree == browse # "scan" /\ reader.who # "have"

\* First seen attached: ten seconds for the nodes to register.  Detached: again.
BrowseAttach ==
  /\ browse \in {"detached", "sleep"} /\ OtLockFree
  /\ browse' \in {"detached", "wait"}
  /\ Silent /\ UNCHANGED <<storeVars, registered, rows, todo, merging, reader, announced, tick>>

\* scan_srp_server_services: hosts and services that are not deleted.
ScanBegins ==
  /\ browse \in {"wait", "sleep"} /\ OtLockFree
  /\ browse' = "scan"
  /\ todo' = {t \in Peers \X Services :
                registered[t[1]] # NoHost /\ t[2] \in registered[t[1]].svc}
  /\ Silent /\ UNCHANGED <<storeVars, registered, rows, merging, reader, announced, tick>>

\* merge_srp_server_service up to the time merge_peer reads before its lock;
\* the router's own record is left out.
ScanTakes ==
  /\ browse = "scan" /\ merging = <<>>
  /\ \E t \in todo :
       /\ todo' = todo \ {t}
       /\ merging' = IF t[1] = Self THEN <<>> ELSE <<t[1], t[2], tick>>
  /\ Silent /\ UNCHANGED <<storeVars, registered, rows, browse, reader, announced, tick>>

ScanMerges ==
  /\ browse = "scan" /\ merging # <<>>
  /\ MergeInto(merging[1], merging[2], registered[merging[1]], merging[3])
  /\ merging' = <<>>
  /\ Silent /\ UNCHANGED <<storeVars, registered, browse, todo, reader, announced, tick>>

ScanEnds ==
  /\ browse = "scan" /\ todo = {} /\ merging = <<>>
  /\ browse' = "sleep"
  /\ Silent /\ UNCHANGED <<storeVars, registered, rows, todo, merging, reader, announced, tick>>

-----------------------------------------------------------------------------
(* The readers. *)

ReaderSamples(r) ==
  /\ reader = Idle /\ (r = "have" => OtLockFree)
  /\ reader' = [who |-> r, active |-> served, now |-> tick]
  /\ Silent /\ UNCHANGED <<storeVars, registered, scanVars, announced, tick>>

ReaderRenders ==
  /\ reader # Idle
  /\ LET a == reader.active
         n == reader.now IN
     answer' = [now |-> n, active |-> a,
                shown |-> [i \in DOMAIN rows |-> Shown(rows[i], a, n)],
                offered |-> Offered(a, n)]
  /\ reader' = Idle
  /\ UNCHANGED <<storeVars, registered, scanVars, announced, tick>>

\* The peer lock was not free within 50 ms, or the text did not fit.
ReaderFails ==
  /\ reader # Idle
  /\ reader' = Idle
  /\ Silent /\ UNCHANGED <<storeVars, registered, scanVars, announced, tick>>

-----------------------------------------------------------------------------
(* The nodes, the pushes, the clock and restarts. *)

\* The SRP server runs under the OpenThread lock.
PeerRegisters(p) ==
  /\ browse # "scan" /\ reader.who # "have"
  /\ \E h \in Hosts[p] \cup {NoHost} :
       /\ registered' = [registered EXCEPT ![p] = h]
       /\ announced' = [announced EXCEPT ![p] =
            IF h = NoHost THEN @ ELSE @ \cup {h.keys[svc] : svc \in h.svc}]
  /\ Silent /\ UNCHANGED <<storeVars, scanVars, reader, tick>>

\* A push is a request of the httpd task, as the pages are.
PeersLedgerPushed ==
  /\ reader.who # "page" /\ (\E l \in Ledgers : Replace(l))
  /\ Silent /\ UNCHANGED <<registered, scanVars, reader, announced, tick>>

TimePasses ==
  /\ tick < TickMax /\ tick' = tick + 1
  /\ Silent /\ UNCHANGED <<storeVars, registered, scanVars, reader, announced>>

\* The table is RAM, and so is the SRP server's list of hosts.
PeersRestart ==
  /\ rows' = <<>> /\ browse' = "detached" /\ todo' = {} /\ merging' = <<>>
  /\ registered' = [p \in Peers |-> NoHost]
  /\ reader' = Idle /\ answer' = NoAnswer
  /\ announced' = [p \in Peers |-> {}] /\ tick' = 0
  /\ UNCHANGED storeVars

PeerInit ==
  /\ StoreInit
  /\ registered = [p \in Peers |-> NoHost] /\ announced = [p \in Peers |-> {}]
  /\ rows = <<>> /\ browse = "detached" /\ todo = {} /\ merging = <<>>
  /\ reader = Idle /\ answer = NoAnswer /\ tick = 0

PeerNext ==
  \/ BrowseAttach \/ ScanBegins \/ ScanTakes \/ ScanMerges \/ ScanEnds
  \/ \E r \in Readers : ReaderSamples(r)
  \/ ReaderRenders \/ ReaderFails
  \/ \E p \in Peers : PeerRegisters(p)
  \/ PeersLedgerPushed \/ TimePasses \/ PeersRestart

-----------------------------------------------------------------------------
Row == [id : Peers, tmfs : BOOLEAN, mesh : BOOLEAN, addr : BOOLEAN,
        keys : LedgerKeys, seen : 0..TickMax]

PeerTypeOK ==
  /\ StoreTypeOK
  /\ \A p \in Peers : registered[p] \in Hosts[p] \cup {NoHost}
  /\ Len(rows) <= PeerMax /\ \A i \in DOMAIN rows : rows[i] \in Row
  /\ \A i, j \in DOMAIN rows : rows[i].id = rows[j].id => i = j
  /\ browse \in {"detached", "wait", "scan", "sleep"}

\* A node that registered while a page was on its way is never shown as stale
\* or offline by it: the page read the time before it waited for the lock, and
\* the row it then finds is younger than that.
\* (peer_transfer_state, bos_convergence_aggregator.c.)
FreshPeerIsOnline ==
  \A i \in DOMAIN answer.shown :
    answer.shown[i].seen >= answer.now => answer.shown[i].state \notin {"stale", "offline"}

\* A node whose records name all of version, digest and chunks, or none of them.
NamesAllOrNone(p) == \A k \in announced[p] : k = NoNames \/ \A f \in DOMAIN k : k[f] # NoKey

\* A node is offered as a source of the served ledger only if it said itself that
\* it has that version, that digest and all chunks, and, unless it is one that
\* leaves keys out, said so in one record: not what another node said whose slot it
\* got, not another ledger than the one sampled, and never the router itself.
\* (bos_convergence_aggregator_bootstrap_peers_json, allocate_peer_slot, merge_peer.)
OfferedPeersHold ==
  \A r \in answer.offered :
    /\ r.id # Self
    /\ \E k \in announced[r.id] : k.ver = answer.active.ver
    /\ \E k \in announced[r.id] : k.dig \in Prefixes[answer.active.dig]
    /\ \E k \in announced[r.id] : k.chunks = "all"
    /\ NamesAllOrNone(r.id) =>
         \E k \in announced[r.id] : /\ k.ver = answer.active.ver
                                   /\ k.dig \in Prefixes[answer.active.dig]
                                   /\ k.chunks = "all"

\* What makes a node a source comes from one record of it.  A node that leaves keys
\* out is offered with the chunks of one record and the ledger of another.
OfferedIsOneRecord ==
  \A r \in answer.offered : r.keys \in announced[r.id]
=============================================================================
