------------------------------ MODULE Phonebook ------------------------------
(***************************************************************************)
(* The operational phonebook of the border router: the site server pushes a  *)
(* document, the router keeps it in NVS and in RAM, sends it to every device  *)
(* in it, tells the mesh of its version in /mesh/have, and resolves the        *)
(* targets of triggers and of the device proxy with it.                       *)
(*                                                                          *)
(* All routes run on the httpd task; /mesh/have runs on the OpenThread task.  *)
(* The two share the target behind a mutex that whoever comes first creates.  *)
(***************************************************************************)
EXTENDS Naturals, Sequences, FiniteSets

CONSTANTS
  Devices,     \* EUI-64s, canonical form
  Spatials,    \* spatial ids
  NoSpatial,   \* a row that is not paired
  Books,       \* documents: ver, dig, and a sequence of rows
  NoBook,      \* nothing stored, or nothing loaded
  MeshNets,    \* mesh-local prefixes the network may have
  MaxVersion,  \* 2^32 - 1, what strtoul answers for anything larger
  ChunksMax,   \* bound: chunks of a device's answer
  HandleMax    \* bound: mutexes ever created between two restarts

ASSUME PhonebookAssumption ==
  /\ NoBook \notin Books /\ NoSpatial \notin Spatials
  /\ MaxVersion \in Nat /\ HandleMax \in Nat \ {0} /\ ChunksMax \in Nat
  /\ \A b \in Books : b.ver \in Nat /\ b.rows # <<>> /\ DOMAIN b.rows \subseteq Nat
  /\ \A b \in Books : \A i \in DOMAIN b.rows :
       b.rows[i].dev \in Devices /\ b.rows[i].spatial \in Spatials \cup {NoSpatial}

VARIABLES
  nvs,      \* the stored document
  book,     \* s_phonebook
  target,   \* s_pb_version, s_pb_digest and s_pb_present
  web,      \* the phonebook route
  doc,      \* the document it works on
  net,      \* the mesh-local prefix
  srp,      \* addresses each device registered with the SRP server
  lock,     \* s_pb_lock: 0, or the mutex it names
  made,     \* mutexes created
  holder,   \* the task that holds each mutex, or "none"
  have,     \* the have handler on the OpenThread task
  reported, \* history: what its last answer said of the phonebook
  acked,    \* history: the document last stored and taken over, or in NVS at the start
  refused,  \* history: those that could not be stored since
  fate,     \* history: whether that document was answered 200 ("answered"), or 500 for
            \* want of memory for the answer ("late"), or could not be loaded ("unloaded")
  proxy     \* the last proxied request: what the device has to say and what the
            \* client got of it

phonebookVars ==
  <<nvs, book, target, web, doc, net, srp, lock, made, holder, have, reported, acked, refused, fate,
    proxy>>
answerVars == <<acked, refused, fate>>
targetVars == <<target, lock, made, holder>>
haveVars == <<have, reported>>
meshVars == <<net, srp>>

NoTarget == [ver |-> 0, dig |-> NoBook]
NoProxy == [of |-> 0, got |-> 0, ended |-> FALSE]

-----------------------------------------------------------------------------
(* Addresses. *)

\* proxy_classify_address: only the prefix and the form of the interface id count.
Scope(addr) ==
  CASE addr.net \in {"unspecified", "multicast"}      -> "unusable"
    [] addr.net = "link"                              -> "link_local"
    [] addr.net = net /\ addr.iid = "rloc"            -> "rloc"
    [] addr.net = net /\ addr.iid # "rloc"            -> "mesh_local"
    [] OTHER                                          -> "routable"

\* proxy_http_scope_rank: the forward wants a routable address, the trigger one
\* that is mesh-local and nothing else.
HttpRank ==
  [unusable |-> 0, link_local |-> 1, rloc |-> 2, mesh_local |-> 3, routable |-> 4]
TriggerRank == [s \in DOMAIN HttpRank |-> IF s = "mesh_local" THEN 4 ELSE 0]

\* resolve_eui64_srp: the best-ranked addresses a device registered.
SrpAnswers(dev, Rank) ==
  {a \in srp[dev] : /\ Rank[Scope(a)] > 0
                    /\ \A b \in srp[dev] : Rank[Scope(b)] <= Rank[Scope(a)]}

\* phonebook_resolve_eui64 and phonebook_resolve_spatial_to_eui64: the first row
\* that matches.
RowsFor(column, v) ==
  IF book = NoBook THEN {} ELSE {i \in DOMAIN book.rows : book.rows[i][column] = v}
FirstRow(S) == CHOOSE i \in S : \A j \in S : i <= j

\* bos_ledger_mesh_serve_publish_phonebook: the version is clamped to 32 bits.
TargetOf(b) ==
  IF b = NoBook THEN NoTarget
  ELSE [ver |-> IF b.ver > MaxVersion THEN MaxVersion ELSE b.ver, dig |-> b.dig]

-----------------------------------------------------------------------------
(* POST /bos/phonebook. *)

PbIdle == web = "idle"

\* phonebook_parse_csv and phonebook_validate_push_headers: a document that does
\* not parse, or whose headers are not those of its comment line, changes
\* nothing; that the body has the digest it states is part of parsing.
PbAccepts(b) ==
  /\ PbIdle /\ web' = "store" /\ doc' = b
  /\ UNCHANGED <<nvs, book, targetVars, meshVars, haveVars, answerVars, proxy>>

\* Mutant: RAM first, so that a document that cannot be stored is in force.
PbStores_Late ==
  /\ web = "store" /\ book' = doc
  /\ \/ nvs' = doc /\ web' = "push" /\ acked' = doc /\ refused' = {} /\ fate' = "answered"
     \/ web' = "idle" /\ refused' = refused \cup {doc} /\ UNCHANGED <<nvs, acked, fate>>
  /\ UNCHANGED <<doc, targetVars, meshVars, haveVars, proxy>>

\* phonebook_store_raw, then phonebook_apply, whose mutex only this task takes.
\* A failed commit answers 500, and the blob may be the new one all the same.
PbStores ==
  /\ web = "store"
  /\ \/ /\ nvs' = doc /\ book' = doc /\ web' = "push"
        /\ acked' = doc /\ refused' = {} /\ fate' = "answered"
     \/ /\ nvs' \in {nvs, doc} /\ web' = "idle" /\ refused' = refused \cup {doc}
        /\ UNCHANGED <<book, acked, fate>>
  /\ UNCHANGED <<doc, targetVars, meshVars, haveVars, proxy>>

\* phonebook_push_to_mesh: the document goes to every row that is mesh-local now,
\* if it can be sent; the answer only counts the rows.
PbPushes ==
  /\ web = "push" /\ web' = "see"
  /\ UNCHANGED <<nvs, book, doc, targetVars, meshVars, haveVars, answerVars, proxy>>

-----------------------------------------------------------------------------
(* The mutex of the target: ensure_pb_lock, take, give. *)

\* The task saw no mutex and makes one, or finds one.
SeesLock(task, seen, found) == IF lock = 0 THEN task' = seen ELSE task' = found
MakesLock ==
  /\ made < HandleMax
  /\ made' = made + 1 /\ lock' = made' /\ holder' = [holder EXCEPT ![made'] = "none"]
Takes(who) == holder[lock] = "none" /\ holder' = [holder EXCEPT ![lock] = who]

\* A mutex that nobody holds stays as it is.  One that the other task holds trips
\* FreeRTOS's assertion, and the router restarts: PbAborts.
Gives(who) ==
  /\ holder[lock] \in {who, "none"}
  /\ holder' = [holder EXCEPT ![lock] = "none"]

PbSees ==
  /\ web = "see" /\ SeesLock(web, "make", "take")
  /\ UNCHANGED <<nvs, book, doc, targetVars, meshVars, haveVars, answerVars, proxy>>

PbMakes ==
  /\ web = "make" /\ web' = "take" /\ MakesLock
  /\ UNCHANGED <<nvs, book, doc, target, meshVars, haveVars, answerVars, proxy>>

PbTakes ==
  /\ web = "take" /\ web' = "version" /\ Takes("web")
  /\ UNCHANGED <<nvs, book, doc, target, lock, made, meshVars, haveVars, answerVars, proxy>>

PbVersion ==
  /\ web = "version" /\ web' = "digest"
  /\ target' = [target EXCEPT !.ver = TargetOf(doc).ver]
  /\ UNCHANGED <<nvs, book, doc, lock, made, holder, meshVars, haveVars, answerVars, proxy>>

PbDigest ==
  /\ web = "digest" /\ web' = "give" /\ target' = [target EXCEPT !.dig = doc.dig]
  /\ UNCHANGED <<nvs, book, doc, lock, made, holder, meshVars, haveVars, answerVars, proxy>>

\* The nudge goes out, or not.  The answer is 200, or 500 if there is no memory to
\* write it in: the document is stored, in force and announced all the same.
PbGives ==
  /\ web = "give" /\ web' = "idle" /\ Gives("web")
  /\ fate' \in {"answered", "late"}
  /\ UNCHANGED <<nvs, book, doc, target, lock, made, meshVars, haveVars, acked, refused, proxy>>

-----------------------------------------------------------------------------
(* GET /mesh/have: handle_have, on the OpenThread task. *)

HaveBegins ==
  /\ have = "idle" /\ SeesLock(have, "make", "take")
  /\ UNCHANGED <<nvs, book, web, doc, targetVars, meshVars, reported, answerVars, proxy>>

HaveMakes ==
  /\ have = "make" /\ have' = "take" /\ MakesLock
  /\ UNCHANGED <<nvs, book, web, doc, target, meshVars, reported, answerVars, proxy>>

HaveTakes ==
  /\ have = "take"
  /\ \/ have' = "read" /\ Takes("have") /\ UNCHANGED reported
     \/ have' = "idle" /\ holder[lock] # "none" /\ reported' = NoTarget /\ UNCHANGED holder
  /\ UNCHANGED <<nvs, book, web, doc, target, lock, made, meshVars, answerVars, proxy>>

HaveReads ==
  /\ have = "read" /\ have' = "give" /\ reported' = target
  /\ UNCHANGED <<nvs, book, web, doc, targetVars, meshVars, answerVars, proxy>>

HaveGives ==
  /\ have = "give" /\ have' = "idle" /\ Gives("have")
  /\ UNCHANGED <<nvs, book, web, doc, target, lock, made, meshVars, reported, answerVars, proxy>>

-----------------------------------------------------------------------------
(* The routes that resolve.  Each holds the OpenThread lock while it does. *)

\* POST /bos/trigger: the book first; a listed device is never looked up
\* elsewhere (409), one that is not may be known to SRP by a mesh-local address
\* (else 404).  A trigger changes nothing here: this is where it is sent to.
TriggerTargets(dev) ==
  LET listed == RowsFor("dev", dev)
      eid    == book.rows[FirstRow(listed)].eid
  IN  IF listed = {} THEN SrpAnswers(dev, TriggerRank)
      ELSE IF Scope(eid) = "mesh_local" THEN {eid} ELSE {}

\* GET /bos/<spatial_id>/...: the device of the first row with that spatial id.
SpatialDevices(s) ==
  LET at == RowsFor("spatial", s) IN
    IF at = {} THEN {} ELSE {book.rows[FirstRow(at)].dev}

\* /bos/device/<eui64>/... and its sibling: the address comes from SRP alone, and
\* the lock is given back before the device is asked.
ProxyBegins(dev) ==
  /\ PbIdle /\ web' = "proxy"
  /\ SrpAnswers(dev, HttpRank) # {}
  /\ \E n \in 0 .. ChunksMax : proxy' = [of |-> n, got |-> 0, ended |-> FALSE]
  /\ UNCHANGED <<nvs, book, doc, targetVars, meshVars, haveVars, answerVars>>

\* The device does not answer (502): nothing of it reaches the client.
ProxyFails ==
  /\ web = "proxy" /\ proxy.got = 0 /\ web' = "idle" /\ proxy' = NoProxy
  /\ UNCHANGED <<nvs, book, doc, targetVars, meshVars, haveVars, answerVars>>

ProxyForwards ==
  /\ web = "proxy" /\ proxy.got < proxy.of /\ proxy' = [proxy EXCEPT !.got = @ + 1]
  /\ UNCHANGED <<nvs, book, web, doc, targetVars, meshVars, haveVars, answerVars>>

\* All is read, or the read fails midway: the last chunk is sent either way.
ProxyEnds ==
  /\ web = "proxy" /\ web' = "idle" /\ proxy' = [proxy EXCEPT !.ended = TRUE]
  /\ UNCHANGED <<nvs, book, doc, targetVars, meshVars, haveVars, answerVars>>

-----------------------------------------------------------------------------
(* The rest of the world. *)

\* The network is formed anew under another prefix, or a device registers.
NetworkChanges ==
  /\ \/ \E n \in MeshNets : net' = n /\ UNCHANGED srp
     \/ \E dev \in Devices, a \in [net : MeshNets \cup {"omr"}, iid : {"eid"}] :
          srp' = [srp EXCEPT ![dev] = {a}] /\ UNCHANGED net
  /\ UNCHANGED <<nvs, book, web, doc, targetVars, haveVars, answerVars, proxy>>

\* phonebook_load_from_nvs, which names the target without a nudge ...
PbLoads ==
  /\ web' = "idle" /\ fate' = "answered" /\ book' = nvs
  /\ IF nvs = NoBook
       THEN target' = NoTarget /\ lock' = 0 /\ made' = 0
       ELSE target' = TargetOf(nvs) /\ lock' = 1 /\ made' = 1

\* ... or leaves the book empty.  What is stored but has a wrong size or does not
\* parse is ignored; if NVS cannot be read or memory is short, the start of the
\* diagnostics server fails with it, and no route is open until the next start.
PbLoadFails ==
  /\ web' \in {"idle", "closed"} /\ fate' = "unloaded" /\ book' = NoBook
  /\ target' = NoTarget /\ lock' = 0 /\ made' = 0

\* A restart; bos_diag_phonebook_init.
PbReboots ==
  /\ PbLoads \/ PbLoadFails
  /\ have' = "idle" /\ doc' = NoBook
  /\ acked' = nvs /\ refused' = {}
  /\ holder' = [h \in 1 .. HandleMax |-> "none"]
  /\ reported' = NoTarget /\ proxy' = NoProxy
  /\ UNCHANGED <<nvs, meshVars>>

PbAborts ==
  /\ \/ web = "give" /\ holder[lock] = "have"
     \/ have = "give" /\ holder[lock] = "web"
  /\ PbReboots

PhonebookInit ==
  /\ nvs = NoBook /\ book = NoBook /\ target = NoTarget /\ web = "idle" /\ doc = NoBook
  /\ net \in MeshNets /\ srp = [d \in Devices |-> {}]
  /\ lock = 0 /\ made = 0 /\ holder = [h \in 1 .. HandleMax |-> "none"]
  /\ have = "idle" /\ reported = NoTarget
  /\ acked = NoBook /\ refused = {} /\ fate = "answered" /\ proxy = NoProxy

PbStep == PbStores \/ PbPushes \/ PbSees \/ PbMakes \/ PbTakes \/ PbVersion \/ PbDigest \/ PbGives
HaveStep == HaveBegins \/ HaveMakes \/ HaveTakes \/ HaveReads \/ HaveGives

ProxyStep == ProxyFails \/ ProxyForwards \/ ProxyEnds

PhonebookNext ==
  \/ \E b \in Books : PbAccepts(b)
  \/ \E dev \in Devices : ProxyBegins(dev)
  \/ \E s \in Spatials : \E dev \in SpatialDevices(s) : ProxyBegins(dev)
  \/ PbStep \/ HaveStep \/ ProxyStep \/ NetworkChanges \/ PbReboots \/ PbAborts

PhonebookSpec == PhonebookInit /\ [][PhonebookNext]_phonebookVars

-----------------------------------------------------------------------------
PhonebookTypeOK ==
  /\ {nvs, book, doc} \subseteq Books \cup {NoBook}
  /\ web \in {"idle", "store", "push", "see", "make", "take", "version", "digest", "give", "proxy",
             "closed"}
  /\ have \in {"idle", "make", "take", "read", "give"}
  /\ net \in MeshNets /\ lock <= made /\ made <= HandleMax
  /\ acked \in Books \cup {NoBook} /\ refused \subseteq Books
  /\ fate \in {"answered", "late", "unloaded"}
  /\ proxy.got <= proxy.of

\* Between two documents the book in RAM is the one last taken over or loaded, or,
\* after a start that could not load it, empty; the target the mesh is told of is
\* that book's, a trigger for a listed device goes to the book's address or
\* nowhere, and a restart finds the document last taken over in NVS, or one that
\* could not be stored since.
BookIsTheAnswered ==
  web \in {"idle", "proxy", "closed"} =>
    /\ book = (IF fate = "unloaded" THEN NoBook ELSE acked)
    /\ target = TargetOf(book)
    /\ nvs \in {acked} \cup refused
    /\ \A i \in DOMAIN (IF book = NoBook THEN <<>> ELSE book.rows) :
         TriggerTargets(book.rows[i].dev) \subseteq {r.eid : r \in {book.rows[j] : j \in DOMAIN book.rows}}

\* A document that was not answered 200 is not in force.  An answer that finds no
\* memory comes after the book and the target were replaced.
RefusedNotInForce == web \in {"idle", "proxy"} => fate # "late"

\* "Guarded because the CoAP have handler runs on the OT task while publish runs
\* on the httpd task": the version and the digest a node reads are those of one
\* document.  Two tasks may each create the mutex.
HaveNamesOneBook == reported \in {NoTarget} \cup {TargetOf(b) : b \in Books}

\* "abort the chunked transfer honestly rather than presenting a truncated body
\* as complete": an answer that ends is the device's whole answer.
ProxiedWhole == proxy.ended => proxy.got = proxy.of
=============================================================================
