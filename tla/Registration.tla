---------------------------- MODULE Registration ----------------------------
(***************************************************************************)
(* bos_server_registration and the two httpd routes that touch its           *)
(* identity.  The registration task finds the gateway (mDNS, or the          *)
(* configured URL), claims the border router once, keeps the device token,   *)
(* and then sends one heartbeat per round; heartbeats that fail wait in a    *)
(* RAM ring and are replayed oldest first.  On the httpd task /bos/status    *)
(* loads the device id and /bos/device-id/reset erases id and token before   *)
(* it restarts the host.                                                     *)
(*                                                                          *)
(* The id is shared without a lock: both tasks read NVS into the same        *)
(* buffer, derive it when it is missing, and write it back.                  *)
(***************************************************************************)
EXTENDS HeartbeatRing, FiniteSets

CONSTANTS
  Ids,         \* device ids
  Derived,     \* the one derived from the MAC address
  NoId,        \* nothing stored
  Hosts,       \* addresses a gateway may have
  NoHost,      \* no URL
  Threshold,   \* BOS_REG_REBROWSE_FAILURE_THRESHOLD
  MaxBeats,    \* heartbeats taken in one start (bound of the runs)
  MaxMoves,    \* address changes of the gateway (bound of the runs)
  FaultSets    \* what may fail in a run: subsets of "net" (requests, answers,
               \* browses), "reject" (HTTP errors), "write" and "read" (NVS),
               \* "crash" (power loss and restarts), "reset" (the route is used);
               \* "rename": the gateway may name another id than it was sent

ASSUME RegistrationAssumption ==
  /\ Derived \in Ids /\ NoId \notin Ids
  /\ NoHost \notin Hosts /\ Hosts # {}
  /\ Threshold \in Nat \ {0}
  /\ MaxBeats \in Nat /\ MaxMoves \in Nat

VARIABLES
  faults,    \* what may fail in this run
  fallback,  \* s_server_url: from NVS or Kconfig
  home,      \* where the gateway is
  moves,     \* how often it has moved
  nvs,       \* the keys device_id and device_token; a token is named by the
             \* id it was issued for
  id,        \* bos_reg_device_id
  torn,      \* history: a token for another id than the one that was sent is
             \* stored, and that id may not be, or may be overwritten
  reg,       \* where the registration task is
  req,       \* its request: the id and token it carries, the host, and the id
             \* that the response to a claim names
  web,       \* where the httpd task is, and for which route
  url,       \* s_mdns_url
  failures,  \* s_consecutive_send_failures
  ring,      \* s_hb_buffer, s_hb_head and s_hb_count
  dropped,   \* s_hb_dropped
  beat,      \* history: heartbeats taken since the start
  heard,     \* history: those the gateway received
  mute       \* history: rounds since the discovered gateway last answered

envVars == <<faults, fallback, home, moves>>
idVars == <<nvs, id, torn>>
findVars == <<url, failures, mute>>
beatVars == <<ring, dropped, beat, heard>>
vars == <<envVars, idVars, reg, req, web, findVars, beatVars>>

ActiveUrl == IF url # NoHost THEN url ELSE fallback

NoRequest == [id |-> NoId, token |-> NoId, host |-> NoHost, named |-> NoId]

-----------------------------------------------------------------------------
(* load_device_id, on either task: the stored id, else the derived one, which
   goes into the shared buffer and from there into NVS.  Found missing, derived
   ("derive") and stored ("keep") are three steps. *)

CannotRead == "read" \in faults
CannotWrite == "write" \in faults

LoadStored == nvs.id # NoId /\ id' = nvs.id /\ UNCHANGED <<nvs, torn>>
FindNone == (nvs.id = NoId \/ CannotRead) /\ UNCHANGED idVars
Derive == id' = Derived /\ UNCHANGED <<nvs, torn>>
StoreDerived == nvs' = [nvs EXCEPT !.id = id] /\ UNCHANGED <<id, torn>>
StoreFails == CannotWrite /\ UNCHANGED idVars

\* Mutant: the task goes on with an id it could not store.
RegLoad_GoesOn ==
  /\ \/ reg = "load" /\ LoadStored /\ reg' = "discover"
     \/ reg = "load" /\ FindNone /\ reg' = "derive"
     \/ reg = "derive" /\ Derive /\ reg' = "keep"
     \/ reg = "keep" /\ (StoreDerived \/ StoreFails) /\ reg' = "discover"
  /\ UNCHANGED <<envVars, req, web, findVars, beatVars>>

\* Without an id the registration task ends for good.
RegLoad ==
  /\ \/ reg = "load" /\ LoadStored /\ reg' = "discover"
     \/ reg = "load" /\ FindNone /\ reg' = "derive"
     \/ reg = "derive" /\ Derive /\ reg' = "keep"
     \/ reg = "keep" /\ StoreDerived /\ reg' = "discover"
     \/ reg = "keep" /\ StoreFails /\ reg' = "gone"
  /\ UNCHANGED <<envVars, req, web, findVars, beatVars>>

-----------------------------------------------------------------------------
(* The registration task. *)

\* note_send_result; failures beyond the threshold make no difference.
NoteAnswer == failures' = 0 /\ mute' = 0 /\ UNCHANGED url

\* Mutant: the failures are not counted.
NoteSilence_Uncounted == UNCHANGED findVars

NoteSilence ==
  /\ failures' = IF failures < Threshold THEN failures + 1 ELSE failures
  /\ UNCHANGED <<url, mute>>

\* refresh_gateway_discovery: browse when there is no discovered gateway or it
\* has been silent; drop a silent one that the browse does not find again.
Browse == url = NoHost \/ failures >= Threshold

\* The count stops where SilentGatewayLeft fails.
OneMoreRound == mute' = IF mute <= Threshold THEN mute + 1 ELSE mute

KeepGateway == ~Browse /\ OneMoreRound /\ UNCHANGED <<url, failures>>

Found == Browse /\ url' = home /\ failures' = 0 /\ mute' = 0

\* Mutant: the silent gateway is kept.
NotFound_Kept ==
  /\ Browse /\ "net" \in faults
  /\ IF url = NoHost THEN mute' = 0 ELSE OneMoreRound
  /\ UNCHANGED <<url, failures>>

NotFound ==
  /\ Browse /\ "net" \in faults
  /\ url' = NoHost /\ mute' = 0
  /\ UNCHANGED failures

Discover ==
  /\ reg = "discover"
  /\ reg' = "check"
  /\ KeepGateway \/ Found \/ NotFound
  /\ UNCHANGED <<envVars, idVars, req, web, beatVars>>

TakeBeat == beat < MaxBeats /\ beat' = beat + 1

\* is_registered reads the token; a failing read counts as none.
Check ==
  /\ reg = "check"
  /\ \/ ActiveUrl = NoHost /\ reg' = "discover" /\ UNCHANGED beat
     \/ /\ ActiveUrl # NoHost /\ (nvs.token = NoId \/ CannotRead)
        /\ reg' = "claim" /\ UNCHANGED beat
     \/ /\ ActiveUrl # NoHost /\ nvs.token # NoId
        /\ reg' = "flush" /\ TakeBeat
  /\ UNCHANGED <<envVars, idVars, req, web, findVars, ring, dropped, heard>>

\* perform_json_request up to the send: the path holds the id of now, the
\* header the token of now.
Send(from, to) ==
  /\ reg = from /\ reg' = to
  /\ req' = [id |-> id, token |-> nvs.token, host |-> ActiveUrl, named |-> NoId]
  /\ UNCHANGED <<envVars, idVars, web, findVars, beatVars>>

\* The rest of it.  A request without a token never leaves; silence is a send
\* failure, any HTTP status is an answer.
Arrives == req.host = home
Silence == (~Arrives \/ "net" \in faults) /\ NoteSilence
Status(fits) == (~fits \/ "reject" \in faults) /\ Arrives /\ NoteAnswer
Success(fits) == fits /\ Arrives /\ NoteAnswer

Unsent == (req.token = NoId \/ CannotRead) /\ UNCHANGED findVars
TokenFits == req.token # NoId /\ req.token = req.id
Fails == Unsent \/ (req.token # NoId /\ (Silence \/ Status(TokenFits)))

\* A confirmed claim names the device, or leaves it at the token: the id it was
\* sent, or any other.  Without a token the response is as good as an error.
Named == {NoId} \cup (IF "rename" \in faults THEN Ids ELSE {req.id})

ClaimAnswered ==
  /\ reg = "claiming"
  /\ \/ (Silence \/ Status(TRUE)) /\ reg' = "discover" /\ req' = NoRequest
     \/ /\ Success(TRUE) /\ reg' = "store_token"
        /\ \E n \in Named : req' = [req EXCEPT !.named = n]
  /\ UNCHANGED <<envVars, idVars, web, beatVars>>

IssuedFor == IF req.named = NoId THEN req.id ELSE req.named

Deriving == web.pc \in {"derive", "keep"}

\* persist_registration_response: the token first ...
StoreToken ==
  /\ reg = "store_token"
  /\ \/ /\ nvs' = [nvs EXCEPT !.token = IssuedFor] /\ reg' = "store_id" /\ UNCHANGED req
        /\ torn' = (IssuedFor # req.id)
     \/ CannotWrite /\ reg' = "discover" /\ req' = NoRequest /\ UNCHANGED <<nvs, torn>>
  /\ UNCHANGED <<envVars, id, web, findVars, beatVars>>

\* ... then the id, if the response names one; the token stays when that fails.
StoreId ==
  /\ reg = "store_id"
  /\ \/ /\ IF req.named = NoId THEN UNCHANGED <<nvs, id>>
           ELSE nvs' = [nvs EXCEPT !.id = req.named] /\ id' = req.named
        /\ torn' = (torn /\ Deriving)
        /\ reg' = "flush" /\ TakeBeat
     \/ CannotWrite /\ req.named # NoId /\ reg' = "discover" /\ UNCHANGED <<idVars, beat>>
  /\ req' = NoRequest
  /\ UNCHANGED <<envVars, web, findVars, ring, dropped, heard>>

\* flush_heartbeat_buffer, then send_heartbeat: the oldest entry goes first and
\* leaves the ring when it was answered; the live one follows an empty ring.
Flush == ring.count > 0 /\ Send("flush", "flushing")
\* Mutant: the live heartbeat does not wait for the buffered ones.
Live_First == Send("flush", "sending")

Live == ring.count = 0 /\ Send("flush", "sending")

Delivered(b) == Success(TokenFits) /\ ~CannotRead /\ heard' = heard \cup {b}

\* A lost answer: the gateway has the heartbeat, the border router buffers it.
Lost(b) ==
  /\ "net" \in faults /\ Arrives /\ TokenFits
  /\ NoteSilence
  /\ heard' = heard \cup {b}

Failed(b) == (Fails /\ UNCHANGED heard) \/ Lost(b)

\* Mutant: the entry leaves the ring whether it was answered or not.
FlushAnswered_PopsAnyway ==
  /\ reg = "flushing"
  /\ ring' = Pop(ring)
  /\ \/ Delivered(Oldest(ring)) /\ reg' = "flush"
     \/ Failed(Oldest(ring)) /\ reg' = "buffer"
  /\ req' = NoRequest
  /\ UNCHANGED <<envVars, idVars, web, dropped, beat>>

FlushAnswered ==
  /\ reg = "flushing"
  /\ \/ Delivered(Oldest(ring)) /\ ring' = Pop(ring) /\ reg' = "flush"
     \/ Failed(Oldest(ring)) /\ reg' = "buffer" /\ UNCHANGED ring
  /\ req' = NoRequest
  /\ UNCHANGED <<envVars, idVars, web, dropped, beat>>

LiveAnswered ==
  /\ reg = "sending"
  /\ \/ Delivered(beat) /\ reg' = "post"
     \/ Failed(beat) /\ reg' = "buffer"
  /\ req' = NoRequest
  /\ UNCHANGED <<envVars, idVars, web, ring, dropped, beat>>

\* buffer_heartbeat.
BufferBeat ==
  /\ reg = "buffer" /\ reg' = "post"
  /\ ring' = Push(ring, beat)
  /\ dropped' = IF Full(ring) THEN dropped + 1 ELSE dropped
  /\ UNCHANGED <<envVars, idVars, req, web, findVars, beat, heard>>

\* send_convergence.
Post == Send("post", "posting")

PostAnswered ==
  /\ reg = "posting" /\ reg' = "discover"
  /\ Fails \/ Success(TokenFits)
  /\ req' = NoRequest
  /\ UNCHANGED <<envVars, idVars, web, beatVars>>

RegTask ==
  \/ RegLoad \/ Discover \/ Check
  \/ Send("claim", "claiming") \/ ClaimAnswered \/ StoreToken \/ StoreId
  \/ Flush \/ FlushAnswered \/ Live \/ LiveAnswered
  \/ BufferBeat \/ Post \/ PostAnswered

-----------------------------------------------------------------------------
(* Restarts lose everything but NVS. *)

Boot ==
  /\ id' = NoId
  /\ reg' = "load" /\ req' = NoRequest
  /\ web' = [pc |-> "idle", route |-> "status"]
  /\ url' = NoHost /\ failures' = 0 /\ mute' = 0
  /\ ring' = EmptyRing /\ dropped' = 0 /\ beat' = 0 /\ heard' = {}
  /\ UNCHANGED <<envVars, nvs, torn>>

PowerLoss == "crash" \in faults /\ Boot

-----------------------------------------------------------------------------
(* The httpd task. *)

WebStep(from, to) ==
  /\ web.pc = from /\ web' = [web EXCEPT !.pc = to]
  /\ UNCHANGED <<envVars, reg, req, findVars, beatVars>>

\* The reset route asks for the device token.
WebRequest ==
  /\ web.pc = "idle"
  /\ \E route \in {"status", "reset"} :
       /\ route = "reset" => "reset" \in faults /\ nvs.token # NoId
       /\ web' = [pc |-> "load", route |-> route]
  /\ UNCHANGED <<envVars, idVars, reg, req, findVars, beatVars>>

\* get_device_id; the reset route goes on whether it fails or not.
Loaded == IF web.route = "reset" THEN "erase_id" ELSE "idle"

WebLoad ==
  \/ WebStep("load", Loaded) /\ LoadStored
  \/ WebStep("load", "derive") /\ FindNone
  \/ WebStep("derive", "keep") /\ Derive
  \/ WebStep("keep", Loaded) /\ (StoreDerived \/ StoreFails)

\* device_id_reset_post_handler after the answer: two erases, each written
\* through, a commit, and the restart.
EraseId ==
  /\ UNCHANGED <<id, torn>>
  /\ \/ WebStep("erase_id", "erase_token") /\ nvs' = [nvs EXCEPT !.id = NoId]
     \/ WebStep("erase_id", "idle") /\ CannotWrite /\ UNCHANGED nvs

EraseToken ==
  /\ UNCHANGED <<id, torn>>
  /\ \/ WebStep("erase_token", "restart") /\ nvs' = [nvs EXCEPT !.token = NoId]
     \/ /\ WebStep("erase_token", "idle") /\ CannotWrite
        /\ nvs' \in {nvs, [nvs EXCEPT !.token = NoId]}

ResetRestart == web.pc = "restart" /\ Boot

-----------------------------------------------------------------------------
GatewayMoves ==
  /\ moves < MaxMoves /\ moves' = moves + 1
  /\ home' \in Hosts \ {home}
  /\ UNCHANGED <<faults, fallback, idVars, reg, req, web, findVars, beatVars>>

Init ==
  /\ faults \in FaultSets
  /\ fallback \in Hosts \cup {NoHost}
  /\ home \in Hosts /\ moves = 0
  /\ \E i \in Ids : nvs \in {[id |-> NoId, token |-> NoId], [id |-> i, token |-> NoId],
                            [id |-> i, token |-> i]}
  /\ id = NoId /\ torn = FALSE
  /\ reg = "load" /\ req = NoRequest
  /\ web = [pc |-> "idle", route |-> "status"]
  /\ url = NoHost /\ failures = 0 /\ mute = 0
  /\ ring = EmptyRing /\ dropped = 0 /\ beat = 0 /\ heard = {}

Next ==
  \/ RegTask
  \/ WebRequest \/ WebLoad \/ EraseId \/ EraseToken \/ ResetRestart
  \/ GatewayMoves \/ PowerLoss

Spec == Init /\ [][Next]_vars

\* The task runs on (every wait has a timeout); a browse and a claim that may
\* succeed again and again succeed at last, and so does a write of the token.
FairSpec ==
  /\ Spec
  /\ WF_vars(RegTask)
  /\ SF_vars(Discover /\ Found)
  /\ SF_vars(ClaimAnswered /\ reg' = "store_token")
  /\ SF_vars(StoreToken /\ nvs' # nvs)

-----------------------------------------------------------------------------
(* Properties. *)

RegStates ==
  {"load", "derive", "keep", "gone", "discover", "check", "claim", "claiming", "store_token",
   "store_id", "flush", "flushing", "sending", "buffer", "post", "posting"}
WebStates == {"idle", "load", "derive", "keep", "erase_id", "erase_token", "restart"}
StoredIds == Ids \cup {NoId}
Urls == Hosts \cup {NoHost}

TypeOK ==
  /\ faults \in FaultSets
  /\ fallback \in Urls /\ home \in Hosts /\ moves \in Nat
  /\ nvs \in [id : StoredIds, token : StoredIds]
  /\ id \in StoredIds /\ torn \in BOOLEAN
  /\ reg \in RegStates
  /\ req \in [id : StoredIds, token : StoredIds, host : Urls, named : StoredIds]
  /\ web \in [pc : WebStates, route : {"status", "reset"}]
  /\ url \in Urls /\ failures \in 0 .. Threshold /\ mute \in 0 .. Threshold + 1
  /\ ring \in Rings /\ dropped \in Nat
  /\ beat \in Nat /\ heard \subseteq 1 .. beat

\* Heartbeats that are neither with the gateway nor on their way.
InRing == {Entry(ring, i) : i \in 1 .. ring.count}
Sending == IF reg \in {"flush", "flushing", "sending", "buffer"} THEN {beat} ELSE {}
Missing == (1 .. beat) \ (heard \cup InRing \cup Sending)

\* No heartbeat is lost in silence: whatever fails, the ones the gateway will
\* never see are at most the ones the drop counter of /bos/status admits.
NothingSilentlyLost == Cardinality(Missing) <= dropped

\* "The server receives them in capture order": a heartbeat the gateway has not
\* seen is newer than all it has seen, through buffering, lost answers, drops
\* and partial flushes.
InOrder ==
  [][\A b \in heard' \ heard : \A c \in heard : (c \in heard' => c < b)]_vars

\* The heartbeats as HeartbeatFeed has them: what the array holds, oldest first,
\* and the one of this round until it is answered or buffered.
Kept == [i \in 1 .. ring.count |-> Entry(ring, i)]
InHand == IF Sending = {} THEN 0 ELSE beat

Feed == INSTANCE HeartbeatFeed WITH
  taken <- beat, live <- InHand, queue <- Kept, lost <- dropped, received <- heard

\* However requests fail and restarts come in between, the array with its head,
\* its count and its wrapping is a queue, and each heartbeat is sent, kept or
\* dropped as the queue says.
ImplementsFeed == Feed!FeedSpec

\* No reset and no failing NVS read in this run.
Undisturbed == "read" \notin faults /\ "reset" \notin faults

\* A discovered gateway that stops answering is given up after a bounded number
\* of rounds, however the requests of those rounds fail.
SilentGatewayLeft ==
  Undisturbed => mute <= Threshold

\* One identity: a kept token is for the kept id, and the id in use is that one,
\* although two tasks derive, store and load it without a lock, the response to
\* a claim may name any id, and token and id are stored one after the other.
\* The ways out are a reset, a read failure, and a named id other than the one
\* that was sent ("torn"): the write of the id fails or power is lost between
\* the two writes, or /bos/status is deriving the id meanwhile.
OneIdentity ==
  (Undisturbed /\ nvs.token # NoId /\ ~torn) =>
    /\ nvs.id = nvs.token
    /\ id \in {nvs.id, NoId}

\* What makes these inductive.  The ring is in capture order, behind all that
\* was heard and before the heartbeat being sent.
Ordered ==
  /\ \A i, j \in 1 .. ring.count : i < j => Entry(ring, i) < Entry(ring, j)
  /\ \A i \in 1 .. ring.count :
       /\ Entry(ring, i) \in 1 .. beat
       /\ Sending # {} => Entry(ring, i) < beat
  /\ ring.count > 0 => \A c \in heard : c <= Oldest(ring)
  /\ Sending # {} => beat > 0
  /\ reg = "sending" => ring.count = 0
  /\ reg = "flushing" => ring.count > 0

\* An id in RAM is the stored one or about to be; who finds none derives the one
\* that is stored meanwhile; past its start the task has stored it.
Agree ==
  /\ id \in {NoId, IF nvs.id = NoId THEN Derived ELSE nvs.id}
  /\ nvs.token \in {NoId, nvs.id}
  /\ Deriving \/ reg \in {"derive", "keep"} => nvs.id \in {NoId, Derived}
  /\ reg = "keep" \/ web.pc = "keep" => id # NoId
  /\ reg \notin {"load", "derive", "keep", "gone"} => id # NoId /\ nvs.id = id
  /\ reg \in {"claiming", "store_token", "store_id"} => req.id = id

\* Past the claim the task has a token, and what it is for is what the response
\* named; a torn claim is not made again.
Identity ==
  /\ web.route = "status" /\ web.pc \in {"idle", "load", "derive", "keep"}
  /\ ~torn => Agree
  /\ torn => nvs.token # NoId /\ reg \notin {"claim", "claiming", "store_token"}
  /\ reg = "store_id" => nvs.token = IssuedFor
  /\ reg = "store_id" /\ torn => req.named # NoId
  /\ reg = "store_id" /\ ~torn => IssuedFor = req.id
  /\ reg \in {"store_id", "flush", "flushing", "sending", "buffer", "post", "posting"} =>
       nvs.token # NoId
  /\ reg \in {"flushing", "sending", "posting"} => req.token # NoId

\* Every round without an answer counts at least one failure.
Discovery ==
  /\ mute <= failures + 1 /\ mute <= Threshold
  /\ reg = "discover" => mute <= failures
  /\ url = NoHost \/ reg \in {"load", "derive", "keep", "gone", "store_token", "store_id"} =>
       mute = 0

RegInv ==
  /\ TypeOK /\ Ordered /\ NothingSilentlyLost
  /\ Undisturbed => Identity /\ Discovery

\* A border router that can reach its gateway now and then gets its token,
\* unless it could not keep an id: a stale address does not hold it for ever.
EventuallyRegistered ==
  faults \cap {"crash", "reset", "read"} = {} => <>(nvs.token # NoId \/ reg = "gone")

\* A claim is kept whole: the id that the response names and the token for it.
ClaimKeptWhole ==
  Undisturbed /\ nvs.token # NoId /\ reg # "store_id" => nvs.id = nvs.token

\* bos_diag_routes_thread.c on the reset: on boot the id is derived anew and the
\* claim is made under the new id.
ResetTakesEffect ==
  [][ResetRestart => nvs.id \in {NoId, Derived} /\ nvs.token \in {NoId, Derived}]_vars
=============================================================================
