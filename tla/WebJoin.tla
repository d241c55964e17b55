------------------------------ MODULE WebJoin ------------------------------
(***************************************************************************)
(* The web pages that look for Thread networks and join one, and the on-mesh  *)
(* prefixes they set.                                                        *)
(*                                                                          *)
(* Every request runs on httpd's one task and starts work that OpenThread     *)
(* finishes on its own task with a callback: the callback leaves a result in  *)
(* a static variable and gives a binary semaphore.  A join waits 10 s for it  *)
(* and then answers; the joiner goes on, and its callback is still to come.   *)
(* Each request holds the OpenThread lock but not while it waits.            *)
(***************************************************************************)
EXTENDS Naturals, FiniteSets

CONSTANTS
  Networks,    \* what a scan may find
  Prefixes,    \* on-mesh prefixes
  SessionMax   \* bound: joiner sessions

ASSUME JoinAssumption == SessionMax \in Nat

VARIABLES
  page,      \* the request httpd's task is in
  mine,      \* the joiner session it started; 0: none
  list,      \* s_networkList
  scanning,  \* OpenThread discovers networks
  scanTok,   \* s_discover_done_semaphore
  ip6,       \* otIp6IsEnabled
  thread,    \* Thread is enabled
  joiner,    \* the joiner session that runs; 0: none
  sessions,  \* sessions started
  joinTok,   \* s_join_done_semaphore
  joinState, \* s_join_state
  joined,    \* sessions that joined (history)
  onMesh,    \* prefixes in the local network data
  netData,   \* prefixes registered with the leader
  told       \* the last answer

joinVars == <<page, mine, list, scanning, scanTok, ip6, thread, joiner, sessions,
              joinTok, joinState, joined, onMesh, netData, told>>

discoverVars == <<list, scanning, scanTok>>
sessionVars == <<joiner, sessions, joinTok, joinState, joined>>
prefixVars == <<onMesh, netData>>

Answers(op, ok, of) == page' = "idle" /\ told' = [op |-> op, ok |-> ok, of |-> of]

-----------------------------------------------------------------------------
(* handle_openthread_available_network_request. *)

\* The old list goes, the interface comes up, and the discovery starts or not.
ScanStarts ==
  /\ page = "idle" /\ list' = {}
  /\ \/ ip6' = TRUE /\ scanning' = TRUE /\ page' = "scan" /\ UNCHANGED told
     \/ ip6' \in {ip6, TRUE} /\ Answers("scan", FALSE, 0) /\ UNCHANGED scanning
  /\ UNCHANGED <<mine, scanTok, thread, sessionVars, prefixVars>>

\* handle_active_scan_event: a network, or the end.
ScanFinds(n) ==
  /\ scanning /\ list' = list \cup {n}
  /\ UNCHANGED <<page, mine, scanning, scanTok, ip6, thread, sessionVars, prefixVars, told>>

ScanDone ==
  /\ scanning /\ scanning' = FALSE /\ scanTok' = TRUE
  /\ UNCHANGED <<page, mine, list, ip6, thread, sessionVars, prefixVars, told>>

\* The request waits without a limit.
ScanAnswers ==
  /\ page = "scan" /\ scanTok /\ scanTok' = FALSE /\ Answers("scan", TRUE, 0)
  /\ UNCHANGED <<mine, list, scanning, ip6, thread, sessionVars, prefixVars>>

-----------------------------------------------------------------------------
(* handle_openthread_join_network_request. *)

\* By the key of a network the last scan found: Thread stops, the interface
\* goes down and up again around the new dataset, and Thread starts; the first
\* call that fails leaves what was done before it.
JoinByKey ==
  /\ page = "idle"
  /\ \/ list = {} /\ UNCHANGED <<ip6, thread, prefixVars>> /\ Answers("key", FALSE, 0)
     \/ /\ list # {} /\ UNCHANGED prefixVars
        /\ \E s \in {<<thread, ip6>>, <<FALSE, ip6>>, <<FALSE, FALSE>>, <<FALSE, TRUE>>} :
             thread' = s[1] /\ ip6' = s[2]
        /\ Answers("key", FALSE, 0)
     \/ /\ list # {} /\ ip6' = TRUE /\ thread' = TRUE /\ UNCHANGED netData
        /\ \/ \E x \in Prefixes : onMesh' = onMesh \cup {x}
           \/ UNCHANGED onMesh
        /\ Answers("key", TRUE, 0)
  /\ UNCHANGED <<mine, discoverVars, sessionVars>>

\* Mutant: the result of the session before is kept.
JoinByPskd_Keeps ==
  /\ page = "idle" /\ UNCHANGED joinState
  /\ thread' = FALSE /\ ip6' = TRUE
  /\ \/ /\ joiner = 0 /\ sessions < SessionMax
        /\ sessions' = sessions + 1 /\ joiner' = sessions + 1 /\ mine' = sessions + 1
        /\ page' = "wait" /\ UNCHANGED told
     \/ Answers("pskd", FALSE, 0) /\ UNCHANGED <<sessions, joiner, mine>>
  /\ UNCHANGED <<discoverVars, joinTok, joined, prefixVars>>

\* By PSKd: the interface goes down, and Thread with it, and up again; the
\* result is reset before the joiner starts, which a session that still runs,
\* or a bad PSKd, prevents.
JoinByPskd ==
  /\ page = "idle" /\ joinState' = "generic"
  /\ thread' = FALSE /\ ip6' = TRUE
  /\ \/ /\ joiner = 0 /\ sessions < SessionMax
        /\ sessions' = sessions + 1 /\ joiner' = sessions + 1 /\ mine' = sessions + 1
        /\ page' = "wait" /\ UNCHANGED told
     \/ Answers("pskd", FALSE, 0) /\ UNCHANGED <<sessions, joiner, mine>>
  /\ UNCHANGED <<discoverVars, joinTok, joined, prefixVars>>

\* join_network_handler, on the OpenThread task.
JoinerEnds(result) ==
  /\ joiner # 0 /\ joiner' = 0
  /\ joinState' = result /\ joinTok' = TRUE
  /\ joined' = IF result = "none" THEN joined \cup {joiner} ELSE joined
  /\ UNCHANGED <<page, mine, discoverVars, ip6, thread, sessions, prefixVars, told>>

\* The semaphore, whoever gave it, or 10 s.
JoinTakes ==
  /\ page = "wait" /\ joinTok /\ joinTok' = FALSE /\ page' = "decide"
  /\ UNCHANGED <<mine, discoverVars, ip6, thread, joiner, sessions, joinState, joined, prefixVars, told>>

JoinTimesOut ==
  /\ page = "wait" /\ ~joinTok /\ Answers("pskd", FALSE, mine)
  /\ UNCHANGED <<mine, discoverVars, ip6, thread, sessionVars, prefixVars>>

\* With the lock again: the result, then Thread starts, then the prefix, which
\* is added and not registered.
JoinDecides ==
  /\ page = "decide"
  /\ \/ /\ joinState = "none" /\ thread' = TRUE
        /\ \/ \E x \in Prefixes : onMesh' = onMesh \cup {x}
           \/ UNCHANGED onMesh
        /\ Answers("pskd", TRUE, mine)
     \/ /\ Answers("pskd", FALSE, mine)
        /\ thread' \in (IF joinState = "none" THEN {thread, TRUE} ELSE {thread}) /\ UNCHANGED onMesh
  /\ UNCHANGED <<mine, discoverVars, ip6, sessionVars, netData>>

-----------------------------------------------------------------------------
(* The prefixes: the local network data, then a registration of all of it. *)

Publishes(op) ==
  \/ netData' = onMesh' /\ Answers(op, TRUE, 0)
  \/ UNCHANGED netData /\ Answers(op, FALSE, 0)

AddPrefix(x) ==
  /\ page = "idle" /\ onMesh' = onMesh \cup {x} /\ Publishes("add")
  /\ UNCHANGED <<mine, discoverVars, ip6, thread, sessionVars>>

DeletePrefix(x) ==
  /\ page = "idle"
  /\ \/ x \in onMesh /\ onMesh' = onMesh \ {x} /\ Publishes("delete")
     \/ x \notin onMesh /\ UNCHANGED prefixVars /\ Answers("delete", FALSE, 0)
  /\ UNCHANGED <<mine, discoverVars, ip6, thread, sessionVars>>

-----------------------------------------------------------------------------
JoinInit ==
  /\ page = "idle" /\ mine = 0 /\ list = {} /\ scanning = FALSE /\ scanTok = FALSE
  /\ ip6 = FALSE /\ thread = FALSE
  /\ joiner = 0 /\ sessions = 0 /\ joinTok = FALSE /\ joinState = "none" /\ joined = {}
  /\ onMesh = {} /\ netData = {} /\ told = [op |-> "none", ok |-> FALSE, of |-> 0]

JoinStep == ScanAnswers \/ JoinTakes \/ JoinTimesOut \/ JoinDecides

JoinNext ==
  \/ ScanStarts \/ ScanDone \/ \E n \in Networks : ScanFinds(n)
  \/ JoinByKey \/ JoinByPskd \/ JoinStep
  \/ \E result \in {"none", "failed"} : JoinerEnds(result)
  \/ \E x \in Prefixes : AddPrefix(x) \/ DeletePrefix(x)

JoinTypeOK ==
  /\ page \in {"idle", "scan", "wait", "decide"}
  /\ {mine, joiner, sessions} \subseteq 0 .. SessionMax /\ joined \subseteq 1 .. SessionMax
  /\ list \subseteq Networks /\ {scanning, scanTok, ip6, thread, joinTok} \subseteq BOOLEAN
  /\ joinState \in {"none", "generic", "failed"}
  /\ onMesh \subseteq Prefixes /\ netData \subseteq Prefixes

\* A join that is answered as done was: the joiner that this request started
\* got onto the network, whatever a callback of an earlier request, come after
\* its 10 s, left in the result and the semaphore.
JoinedMeansThisJoin == told.op = "pskd" /\ told.ok => told.of \in joined
=============================================================================
