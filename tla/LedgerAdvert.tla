---------------------------- MODULE LedgerAdvert ----------------------------
(***************************************************************************)
(* How the mesh learns of a ledger: the push route of the diagnostics server, *)
(* the SRP service with its version and chunk count, and the multicast nudge  *)
(* that wakes the nodes.                                                      *)
(*                                                                          *)
(* The ledger itself is LedgerStore's: LedgerIngress, which implements it as  *)
(* long as the look-up of the stored ledger does not fail, replaces the       *)
(* served ledger by a newer one or not at all.  Two tasks                     *)
(* publish: the httpd task after a push that changed what is served, and the  *)
(* main task once, at the end of the start, for the ledger that came back     *)
(* from flash.  Each reads the ledger before it takes the OpenThread lock.    *)
(***************************************************************************)
EXTENDS LedgerStore

CONSTANTS
  NoAdvert     \* no service is registered

ASSUME AdvertAssumption ==
  /\ NoAdvert \notin [led : Ledgers, counted : BOOLEAN]
  /\ Versions \subseteq Nat /\ NoLedger \notin Ledgers

VARIABLES
  pusher,      \* the push handler
  boot,        \* the main task
  before,      \* the handler's snapshot before the push
  led,         \* what each task is publishing
  counted,     \* whether each found the chunk count of that ledger
  advert,      \* the registered SRP service
  nudge,       \* history: the ledger the last nudge named
  late,        \* history: a publish failed, or the main task's came late
  started      \* s_started: the CoAP resources are registered

publishVars == <<pusher, boot, before, led, counted, advert, nudge, late, started>>
advertVars == <<served, floor, publishVars>>

Tasks == {"web", "boot"}

Published == [led : Ledgers, counted : BOOLEAN]

-----------------------------------------------------------------------------
(* bos_ledger_mesh_serve_publish_active, in two steps. *)

\* The chunk count is that of the served ledger, if it still is this version.
CountChunks(task) ==
  counted' = [counted EXCEPT ![task] = served # NoLedger /\ served.ver = led[task].ver]

\* publish_mesh_srp_locked: the old service goes first, then its buffers are
\* reused and the new one is added.  The client may not be ready, or the old
\* service may refuse to go (the old advertisement stays), or the new one may
\* be refused (none is left).
PublishLocked(task) ==
  \/ advert' = [led |-> led[task], counted |-> counted[task]] /\ UNCHANGED late
  \/ advert' \in {advert, NoAdvert} /\ late' = TRUE

-----------------------------------------------------------------------------
(* ledger_push_handler. *)

PushBegins ==
  /\ pusher = "idle" /\ pusher' = "push" /\ before' = served
  /\ UNCHANGED <<served, floor, boot, led, counted, advert, nudge, late, started>>

\* bos_ledger_ingress_http_push: accepted, or refused.
PushIngress ==
  /\ pusher = "push" /\ pusher' = "compare"
  /\ (\E l \in Ledgers : Replace(l)) \/ UNCHANGED <<served, floor>>
  /\ UNCHANGED <<boot, before, led, counted, advert, nudge, late, started>>

PushUnchanged ==
  /\ pusher = "compare" /\ served = before /\ pusher' = "idle"
  /\ UNCHANGED <<served, floor, boot, before, led, counted, advert, nudge, late, started>>

\* bos_ledger_mesh_serve_announce_ledger: only for a ledger that is served and
\* is not the one before.
PushChanged ==
  /\ pusher = "compare" /\ served \notin {before, NoLedger} /\ pusher' = "count"
  /\ led' = [led EXCEPT !["web"] = served]
  /\ UNCHANGED <<served, floor, boot, before, counted, advert, nudge, late, started>>

PushCounts ==
  /\ pusher = "count" /\ pusher' = "publish" /\ CountChunks("web")
  /\ UNCHANGED <<served, floor, boot, before, led, advert, nudge, late, started>>

\* Mutant: a service that is registered is not published again.
PushPublishes_Once ==
  /\ pusher = "publish" /\ pusher' = "nudge"
  /\ IF advert = NoAdvert THEN PublishLocked("web") ELSE UNCHANGED <<advert, late>>
  /\ UNCHANGED <<served, floor, boot, before, led, counted, nudge, started>>

\* A failure is only logged: the nudge goes out all the same.
PushPublishes ==
  /\ pusher = "publish" /\ pusher' = "nudge" /\ PublishLocked("web")
  /\ UNCHANGED <<served, floor, boot, before, led, counted, nudge, started>>

\* bos_mesh_announce_fire: it may not be sent (the lock, OpenThread, buffers).
PushNudges ==
  /\ pusher = "nudge" /\ pusher' = "idle" /\ nudge' \in {led["web"], nudge}
  /\ UNCHANGED <<served, floor, boot, before, led, counted, advert, late, started>>

-----------------------------------------------------------------------------
(* bos_ledger_mesh_serve_init, at the end of app_main, when the httpd task has
   long been serving. *)

BootInit ==
  /\ boot = "init"
  /\ \/ started' = TRUE /\ boot' = "read"
     \/ boot' = "done" /\ UNCHANGED started
  /\ UNCHANGED <<served, floor, pusher, before, led, counted, advert, nudge, late>>

BootReads ==
  /\ boot = "read"
  /\ IF served = NoLedger
       THEN boot' = "done" /\ UNCHANGED led
       ELSE boot' = "count" /\ led' = [led EXCEPT !["boot"] = served]
  /\ UNCHANGED <<served, floor, pusher, before, counted, advert, nudge, late, started>>

BootCounts ==
  /\ boot = "count" /\ boot' = "publish" /\ CountChunks("boot")
  /\ UNCHANGED <<served, floor, pusher, before, led, advert, nudge, late, started>>

BootPublishes ==
  /\ boot = "publish" /\ boot' = "done"
  /\ \/ /\ advert' = [led |-> led["boot"], counted |-> counted["boot"]]
        /\ late' = (late \/ led["boot"] # served)
     \/ advert' \in {advert, NoAdvert} /\ late' = TRUE
  /\ UNCHANGED <<served, floor, pusher, before, led, counted, nudge, started>>

-----------------------------------------------------------------------------
\* Acknowledgements of the store, and a restart: RAM and the service are gone.
AdvertAcknowledge ==
  /\ Acknowledge
  /\ UNCHANGED <<pusher, boot, before, led, counted, advert, nudge, late, started>>

AdvertStart ==
  /\ pusher' = "idle" /\ boot' = "init" /\ before' = NoLedger
  /\ led' = [t \in Tasks |-> NoLedger] /\ counted' = [t \in Tasks |-> FALSE]
  /\ advert' = NoAdvert /\ nudge' = NoLedger /\ late' = FALSE /\ started' = FALSE

AdvertRestart == Restart /\ AdvertStart

AdvertInit ==
  /\ StoreInit
  /\ pusher = "idle" /\ boot = "init" /\ before = NoLedger
  /\ led = [t \in Tasks |-> NoLedger] /\ counted = [t \in Tasks |-> FALSE]
  /\ advert = NoAdvert /\ nudge = NoLedger /\ late = FALSE /\ started = FALSE

PushStep == PushIngress \/ PushUnchanged \/ PushChanged \/ PushCounts \/ PushPublishes \/ PushNudges
BootStep == BootInit \/ BootReads \/ BootCounts \/ BootPublishes

AdvertNext == PushBegins \/ PushStep \/ BootStep \/ AdvertAcknowledge \/ AdvertRestart

\* handle_manifest, and the target of handle_have and of the torrent page.
Manifest == served

-----------------------------------------------------------------------------
AdvertTypeOK ==
  /\ pusher \in {"idle", "push", "compare", "count", "publish", "nudge"}
  /\ boot \in {"init", "read", "count", "publish", "done"}
  /\ before \in Ledgers \cup {NoLedger}
  /\ led \in [Tasks -> Ledgers \cup {NoLedger}]
  /\ counted \in [Tasks -> BOOLEAN]
  /\ advert \in Published \cup {NoAdvert}
  /\ nudge \in Ledgers \cup {NoLedger}
  /\ late \in BOOLEAN /\ started \in BOOLEAN

\* What the mesh is told of is there: neither the advertisement nor a nudge
\* names a ledger newer than the manifest, and one of the same version is the
\* same ledger; a push that was refused is never advertised.
ToldIsServed ==
  \A l \in {nudge} \cup (IF advert = NoAdvert THEN {} ELSE {advert.led}) :
    l # NoLedger => l = Manifest \/ l.ver < VersionOf(Manifest)

\* Between pushes the advertisement is the manifest's ledger with its chunk
\* count, unless a publish failed or the main task's came after a push.
AdvertIsCurrent ==
  pusher = "idle" /\ boot = "done" /\ started /\ ~late /\ served # NoLedger =>
    advert = [led |-> Manifest, counted |-> TRUE]

\* The route's comment: after a push that changed the ledger, the SRP
\* advertisement is that of the fresh ledger, if nothing fails.  The main
\* task's publish at the end of the start can put the old one back.
FreshLedgerAdvertised ==
  pusher = "nudge" => advert \in {NoAdvert, [led |-> Manifest, counted |-> TRUE]} \/ late
=============================================================================
