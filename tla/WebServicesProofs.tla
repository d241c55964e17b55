-------------------------- MODULE WebServicesProofs --------------------------
(***************************************************************************)
(* What holds of the pages that wait on another task for any routers,         *)
(* networks, bounds and submissions: a join is answered for its own session,  *)
(* a late answer writes nothing, and the Wi-Fi set-up leaves what it used      *)
(* saved and its name server gone; and that every route of the web server is   *)
(* answered by its own handler.                                              *)
(***************************************************************************)
EXTENDS WebServices, FiniteSetTheorems, TLAPS

-----------------------------------------------------------------------------
(* The join page. *)

\* While a request waits, the session that runs is its own, and a result of
\* "none" is that session's.
JoinInv ==
  /\ page \in {"wait", "decide"} => joiner \in {0, mine}
  /\ page \in {"wait", "decide"} /\ joinState = "none" => mine \in joined
  /\ JoinedMeansThisJoin

\* The pages for scans and prefixes answer other operations.
LEMMA JoinOthers ==
  ASSUME JoinInv,
         \/ ScanStarts \/ ScanDone \/ ScanAnswers \/ JoinByKey
         \/ \E n \in Networks : ScanFinds(n)
         \/ \E x \in Prefixes : AddPrefix(x) \/ DeletePrefix(x)
  PROVE  JoinInv'
<1>1. CASE ScanStarts
  <2>1. page' \in {"idle", "scan"} /\ UNCHANGED <<mine, sessionVars>>
    BY <1>1 DEF ScanStarts, Answers
  <2>2. told' \in {told, [op |-> "scan", ok |-> FALSE, of |-> 0]}
    BY <1>1 DEF ScanStarts, Answers
  <2>3. QED
    BY <2>1, <2>2 DEF JoinInv, JoinedMeansThisJoin, sessionVars
<1>2. CASE ScanDone \/ \E n \in Networks : ScanFinds(n)
  BY <1>2 DEF JoinInv, JoinedMeansThisJoin, ScanDone, ScanFinds, sessionVars, prefixVars
<1>3. CASE ScanAnswers
  BY <1>3 DEF JoinInv, JoinedMeansThisJoin, ScanAnswers, Answers, sessionVars, prefixVars
<1>4. CASE JoinByKey
  <2>1. page' = "idle" /\ UNCHANGED <<mine, sessionVars>>
    BY <1>4, Zenon DEF JoinByKey, Answers
  <2>2. \E ok \in BOOLEAN : told' = [op |-> "key", ok |-> ok, of |-> 0]
    BY <1>4, Zenon DEF JoinByKey, Answers
  <2>3. QED
    BY <2>1, <2>2 DEF JoinInv, JoinedMeansThisJoin, sessionVars
<1>5. ASSUME NEW x \in Prefixes, AddPrefix(x) \/ DeletePrefix(x) PROVE JoinInv'
  BY <1>5 DEF JoinInv, JoinedMeansThisJoin, AddPrefix, DeletePrefix, Publishes, Answers,
              discoverVars, sessionVars, prefixVars
<1>6. QED
  BY <1>1, <1>2, <1>3, <1>4, <1>5

\* A join by PSKd and the callback of its session.
LEMMA JoinSessions ==
  ASSUME JoinInv,
         \/ JoinByPskd \/ JoinTakes \/ JoinTimesOut \/ JoinDecides
         \/ \E result \in {"none", "failed"} : JoinerEnds(result)
  PROVE  JoinInv'
<1>1. CASE JoinByPskd
  BY <1>1 DEF JoinInv, JoinedMeansThisJoin, JoinByPskd, Answers, discoverVars, prefixVars
<1>2. CASE JoinTakes \/ JoinTimesOut
  BY <1>2 DEF JoinInv, JoinedMeansThisJoin, JoinTakes, JoinTimesOut, Answers, discoverVars,
              sessionVars, prefixVars
<1>3. CASE JoinDecides
  <2>1. page' = "idle" /\ UNCHANGED <<mine, joined>>
    BY <1>3 DEF JoinDecides, Answers, sessionVars
  <2>2. \/ joinState = "none" /\ told' = [op |-> "pskd", ok |-> TRUE, of |-> mine]
        \/ told' = [op |-> "pskd", ok |-> FALSE, of |-> mine]
    BY <1>3 DEF JoinDecides, Answers
  <2>3. page = "decide"
    BY <1>3 DEF JoinDecides
  <2>4. QED
    BY <2>1, <2>2, <2>3 DEF JoinInv, JoinedMeansThisJoin
<1>4. ASSUME NEW result \in {"none", "failed"}, JoinerEnds(result) PROVE JoinInv'
  BY <1>4 DEF JoinInv, JoinedMeansThisJoin, JoinerEnds, discoverVars, prefixVars
<1>5. QED
  BY <1>1, <1>2, <1>3, <1>4

\* A join that is answered as done was done by the session of that request,
\* whatever session of an earlier request ends meanwhile (JoinedMeansThisJoin;
\* handle_openthread_join_network_request, join_network_handler).
THEOREM JoinIsOwn == Spec => []JoinedMeansThisJoin
<1>1. Init => JoinInv
  BY DEF Init, JoinInit, JoinInv, JoinedMeansThisJoin
<1>2. JoinInv /\ [Next]_vars => JoinInv'
  <2>1. ASSUME JoinInv, JoinPart PROVE JoinInv'
    BY <2>1, JoinOthers, JoinSessions DEF JoinPart, JoinNext, JoinStep
  <2>2. ASSUME JoinInv, UNCHANGED joinVars PROVE JoinInv'
    BY <2>2 DEF JoinInv, JoinedMeansThisJoin, joinVars
  <2>3. QED
    BY <2>1, <2>2 DEF Next, vars, ServerPart, TopologyPart, PingPart, WifiPart
<1>3. JoinInv => JoinedMeansThisJoin
  BY DEF JoinInv
<1>4. QED
  BY <1>1, <1>2, <1>3, PTL DEF Spec

-----------------------------------------------------------------------------
(* The topology page. *)

DiagInv ==
  /\ NoLateWrite /\ collecting \in BOOLEAN
  /\ underWay \subseteq Routers \X {"own", "all"}

LEMMA DiagKeeps ==
  ASSUME DiagInv, DiagNext
  PROVE  DiagInv'
<1>1. CASE DiagBegins
  BY <1>1, DiagAssumption DEF DiagInv, NoLateWrite, DiagBegins, requestVars
<1>2. CASE DiagSends
  BY <1>2, DiagAssumption DEF DiagInv, NoLateWrite, DiagSends
<1>3. CASE DiagSamples \/ DiagDecides
  BY <1>3 DEF DiagInv, NoLateWrite, DiagSamples, DiagDecides, requestVars
<1>4. CASE DiagEnds
  BY <1>4 DEF DiagInv, NoLateWrite, DiagEnds
<1>5. ASSUME NEW a \in underWay, DiagAnswer(a) PROVE DiagInv'
  <2>1. a[1] \in Routers
    BY DEF DiagInv
  <2>2. CASE UNCHANGED tlvs
    BY <1>5, <2>2 DEF DiagInv, NoLateWrite, DiagAnswer
  <2>3. CASE collecting /\ tlvs' = tlvs \cup {a[1]}
    BY <1>5, <2>1, <2>3, DiagAssumption DEF DiagInv, NoLateWrite, DiagAnswer
  <2>4. QED
    BY <1>5, <2>2, <2>3 DEF DiagAnswer
<1>6. QED
  BY <1>1, <1>2, <1>3, <1>4, <1>5 DEF DiagNext, DiagStep

\* No diagnostics answer, of whichever request and however late, is applied to a
\* set that was freed (NoLateWrite; diagnosticTlv_result_handler).
THEOREM LateAnswersAreDropped == Spec => []NoLateWrite
<1>1. Init => DiagInv
  BY DEF Init, DiagInit, DiagInv, NoLateWrite
<1>2. DiagInv /\ [Next]_vars => DiagInv'
  <2>1. ASSUME DiagInv, TopologyPart(DiagNext) PROVE DiagInv'
    BY <2>1, DiagKeeps DEF TopologyPart
  <2>2. ASSUME DiagInv, UNCHANGED diagVars PROVE DiagInv'
    BY <2>2 DEF DiagInv, NoLateWrite, diagVars
  <2>3. QED
    BY <2>1, <2>2 DEF Next, vars, ServerPart, JoinPart, PingPart, WifiPart
<1>3. DiagInv => NoLateWrite
  BY DEF DiagInv
<1>4. QED
  BY <1>1, <1>2, <1>3, PTL DEF Spec

-----------------------------------------------------------------------------
(* The Wi-Fi set-up: the credentials. *)

IsPair(p) == p = <<p[1], p[2]>>

\* What is being saved is what the router connected with.
SavedInv ==
  /\ IsPair(nvs) /\ IsPair(got)
  /\ wifi = "savePassword" => nvs[1] = got[1]
  /\ UpIsSaved

LEMMA SavedByStart ==
  ASSUME SavedInv, StartStep
  PROVE  SavedInv'
<1>1. CASE ConnectStored
  BY <1>1 DEF SavedInv, UpIsSaved, IsPair, ConnectStored
<1>2. CASE ConfigStart \/ GetChecks \/ GetClears \/ GetWakes
  BY <1>2 DEF SavedInv, UpIsSaved, IsPair, ConfigStart, GetChecks, GetClears, GetWakes
<1>3. CASE GetCopiesSsid \/ GetCopiesPassword
  BY <1>3 DEF SavedInv, UpIsSaved, IsPair, GetCopiesSsid, GetCopiesPassword
<1>4. CASE ConfigStop \/ StopCloses \/ StopAwaits \/ StopLooks \/ StopKills \/ StopCleans \/ Connect
  BY <1>4 DEF SavedInv, UpIsSaved, IsPair, ConfigStop, StopCloses, StopAwaits, StopLooks, StopKills,
              StopCleans, Connect
<1>5. CASE SaveSsid \/ SavePassword
  BY <1>5 DEF SavedInv, UpIsSaved, IsPair, SaveSsid, SavePassword
<1>6. QED
  BY <1>1, <1>2, <1>3, <1>4, <1>5 DEF StartStep

\* The page and the name server write neither NVS nor the start task's copy.
LEMMA PageFrame ==
  ASSUME \/ PageStep \/ ScanClears \/ ScanIsDone
         \/ \E p \in Submissions : SubmitStoresSsid(p)
         \/ DnsTask /\ UNCHANGED <<wifi, nvs, mode, opened, got, credVars, scanVars>>
  PROVE  UNCHANGED <<wifi, nvs, got, mode, opened>>
  BY DEF PageStep, SubmitStoresPassword, SubmitSignals, ScanStart, ScanWaits, ScanRenders,
         ScanClears, ScanIsDone, SubmitStoresSsid, scanFrame

\* A router that is up has saved what it connected with (UpIsSaved;
\* wifi_config_save_and_connect, ot_br_init).
THEOREM CredentialsSaved == Spec => []UpIsSaved
<1>1. ASSUME Init PROVE SavedInv
  <2>1. IsPair(Empty)
    BY DEF IsPair, Empty
  <2>2. IsPair(nvs)
    BY <1>1, <2>1, WifiAssumption DEF Init, WifiInit, IsPair
  <2>3. QED
    BY <1>1, <2>1, <2>2 DEF Init, WifiInit, SavedInv, UpIsSaved
<1>2. SavedInv /\ [Next]_vars => SavedInv'
  <2>1. ASSUME SavedInv, WifiPart PROVE SavedInv'
    <3>1. CASE WifiRestarts
      BY <2>1, <3>1 DEF SavedInv, UpIsSaved, IsPair, WifiRestarts, Empty
    <3>2. CASE StartStep
      BY <2>1, <3>2, SavedByStart
    <3>3. CASE UNCHANGED <<wifi, nvs, got, mode, opened>>
      BY <2>1, <3>3 DEF SavedInv, UpIsSaved, IsPair
    <3>4. QED
      BY <2>1, <3>1, <3>2, <3>3, PageFrame DEF WifiPart, WifiNext
  <2>2. ASSUME SavedInv, UNCHANGED wifiVars PROVE SavedInv'
    BY <2>2 DEF SavedInv, UpIsSaved, IsPair, wifiVars
  <2>3. QED
    BY <2>1, <2>2 DEF Next, vars, ServerPart, JoinPart, TopologyPart, PingPart
<1>3. SavedInv => UpIsSaved
  BY DEF SavedInv
<1>4. QED
  BY <1>1, <1>2, <1>3, PTL DEF Spec
-----------------------------------------------------------------------------
(* The Wi-Fi set-up: its name server. *)

Connecting == {"connect", "saveSsid", "savePassword", "up"}

\* The task is past the semaphore, or there is none.
Past == dns.task \notin {"loop", "give"}

Gone == ~dns.open /\ dns.sem = "none" /\ Past

\* A task that has yet to give finds its handle and its semaphore set; a stop
\* that has waited long enough finds it past that.
StopInv ==
  /\ DnsTypeOK /\ mode \in BOOLEAN
  /\ ~Past => dns.handle /\ dns.sem = "empty"
  /\ wifi \in {"dnsAwait", "dnsKill", "dnsDelete", "dnsClean"} => ~dns.open
  /\ wifi = "dnsClean" => Past
  /\ wifi \in {"nvs", "start"} => dns = DnsOff /\ ~mode /\ ~opened
  /\ wifi \in {"clear", "wait", "ssid", "password"} => mode
  /\ wifi \in Connecting => ~mode
  /\ opened /\ ~mode /\ wifi \in {"check", "stop"} \cup Connecting => Gone

\* The task's own steps never lead back before the semaphore.
LEMMA TaskKeeps ==
  ASSUME StopInv, DnsTask, UNCHANGED <<wifi, mode, opened>>
  PROVE  StopInv'
<1>1. CASE DnsLeaves
  BY <1>1 DEF StopInv, DnsLeaves, DnsTypeOK, Past, Gone, Connecting, DnsOff
<1>2. CASE DnsGives
  <2>1. DnsTypeOK'
    BY <1>2 DEF StopInv, DnsGives, DnsTypeOK
  <2>2. ~Past /\ dns # DnsOff
    BY <1>2 DEF DnsGives, Past, DnsOff
  <2>3. Past' /\ dns'.open = dns.open
    BY <1>2 DEF StopInv, DnsGives, DnsTypeOK, Past
  <2>4. QED
    BY <2>1, <2>2, <2>3 DEF StopInv, Gone
<1>3. CASE DnsClears
  <2>1. DnsTypeOK'
    BY <1>3 DEF StopInv, DnsClears, DnsTypeOK
  <2>2. dns # DnsOff
    BY <1>3 DEF DnsClears, DnsOff
  <2>3. Past' /\ dns'.open = dns.open /\ dns'.sem = dns.sem
    BY <1>3 DEF StopInv, DnsClears, DnsTypeOK, Past
  <2>4. QED
    BY <2>1, <2>2, <2>3 DEF StopInv, Gone
<1>4. CASE DnsExits
  BY <1>4 DEF StopInv, DnsExits, DnsTypeOK, Past, Gone, DnsOff
<1>5. QED
  BY <1>1, <1>2, <1>3, <1>4 DEF DnsTask

\* Starting: the access point and its name server, or what is left of them.
LEMMA StartKeeps ==
  ASSUME StopInv, ConnectStored \/ ConfigStart
  PROVE  StopInv'
<1>1. CASE ConnectStored
  BY <1>1 DEF StopInv, ConnectStored, DnsTypeOK, Past, Gone, Connecting, DnsOff
<1>2. CASE ConfigStart
  <2>1. DnsTypeOK' /\ (~Past => dns.handle /\ dns.sem = "empty")'
    <3>1. dns' \in DnsStarted
      BY <1>2, Zenon DEF ConfigStart, SoftApStarts
    <3>2. CASE dns' = DnsOff
      BY <3>2 DEF DnsTypeOK, Past, DnsOff
    <3>3. CASE dns' = [task |-> "loop", handle |-> TRUE, open |-> TRUE, sem |-> "empty"]
      BY <3>3 DEF DnsTypeOK, Past
    <3>4. QED
      BY <3>1, <3>2, <3>3, Zenon DEF DnsStarted
  <2>2. mode' \in BOOLEAN /\ opened' \in BOOLEAN
    BY <1>2 DEF ConfigStart, SoftApStarts
  <2>3. \/ wifi' = "dnsClose"
        \/ wifi' = "check" /\ (mode' \/ ~opened')
    BY <1>2, <2>2, Zenon DEF ConfigStart
  <2>4. QED
    BY <2>1, <2>2, <2>3 DEF StopInv, Connecting
<1>3. QED
  BY <1>1, <1>2

\* Waiting for the credentials, and connecting with them.
LEMMA WaitKeeps ==
  ASSUME StopInv,
         \/ GetChecks \/ GetClears \/ GetWakes \/ GetCopiesSsid \/ GetCopiesPassword
         \/ ConfigStop \/ Connect \/ SaveSsid \/ SavePassword
  PROVE  StopInv'
<1>1. UNCHANGED <<dns, mode, opened>>
  BY DEF GetChecks, GetClears, GetWakes, GetCopiesSsid, GetCopiesPassword, ConfigStop, Connect,
         SaveSsid, SavePassword
<1>2. CASE GetChecks
  <2>1. wifi = "check"
    BY <1>2 DEF GetChecks
  <2>2. \/ ~mode /\ wifi' = "stop"
        \/ mode /\ wifi' \in {"clear", "ssid"}
    BY <1>2 DEF GetChecks
  <2>3. QED
    BY <1>1, <2>1, <2>2 DEF StopInv, Past, Gone, Connecting, DnsTypeOK
<1>3. CASE GetClears \/ GetWakes \/ GetCopiesSsid \/ GetCopiesPassword
  BY <1>1, <1>3 DEF GetClears, GetWakes, GetCopiesSsid, GetCopiesPassword, StopInv, Past, Gone,
                    Connecting, DnsTypeOK
<1>4. CASE ConfigStop
  BY <1>1, <1>4 DEF ConfigStop, StopInv, Past, Gone, Connecting, DnsTypeOK
<1>5. CASE Connect \/ SaveSsid \/ SavePassword
  BY <1>1, <1>5 DEF Connect, SaveSsid, SavePassword, StopInv, Past, Gone, Connecting, DnsTypeOK
<1>6. QED
  BY <1>2, <1>3, <1>4, <1>5

\* Stopping, step by step against the task.
LEMMA StopKeeps ==
  ASSUME StopInv, StopCloses \/ StopAwaits \/ StopLooks \/ StopKills \/ StopCleans
  PROVE  StopInv'
<1>1. CASE StopCloses
  BY <1>1 DEF StopCloses, DnsCloses, StopInv, Past, Gone, Connecting, DnsTypeOK
<1>2. CASE StopAwaits
  BY <1>2 DEF StopAwaits, DnsAwaited, DnsTaken, StopInv, Past, Gone, Connecting, DnsTypeOK
<1>3. CASE StopKills
  BY <1>3 DEF StopKills, DnsKilled, StopInv, Past, Gone, Connecting, DnsTypeOK
<1>4. CASE StopCleans
  BY <1>4 DEF StopCleans, DnsCleaned, StopInv, Past, Gone, Connecting, DnsTypeOK
<1>5. CASE StopLooks
  BY <1>5 DEF StopLooks, StopInv, Past, Gone, Connecting, DnsTypeOK
<1>6. QED
  BY <1>1, <1>2, <1>3, <1>4, <1>5

\* The page leaves the name server alone.
LEMMA PageSparesDns ==
  ASSUME \/ PageStep \/ ScanClears \/ ScanIsDone
         \/ \E p \in Submissions : SubmitStoresSsid(p)
  PROVE  UNCHANGED <<wifi, mode, opened, dns>>
  BY DEF PageStep, SubmitStoresPassword, SubmitSignals, ScanStart, ScanWaits, ScanRenders,
         ScanClears, ScanIsDone, SubmitStoresSsid, scanFrame

LEMMA StopAlways == Spec => []StopInv
<1>1. ASSUME Init PROVE StopInv
  <2>1. wifi = "nvs" /\ mode = FALSE /\ opened = FALSE /\ dns = DnsOff
    BY <1>1 DEF Init, WifiInit
  <2>2. QED
    BY <2>1 DEF StopInv, DnsTypeOK, DnsOff, Past, Gone, Connecting
<1>2. StopInv /\ [Next]_vars => StopInv'
  <2>1. ASSUME StopInv, WifiPart PROVE StopInv'
    <3>1. CASE WifiRestarts
      BY <2>1, <3>1 DEF WifiRestarts, StopInv, DnsTypeOK, DnsOff, Past, Gone, Connecting
    <3>2. CASE StartStep
      BY <2>1, <3>2, StartKeeps, WaitKeeps, StopKeeps DEF StartStep
    <3>3. CASE DnsTask /\ UNCHANGED <<wifi, nvs, mode, opened, got, credVars, scanVars>>
      BY <2>1, <3>3, TaskKeeps
    <3>4. CASE UNCHANGED <<wifi, mode, opened, dns>>
      BY <2>1, <3>4 DEF StopInv, DnsTypeOK, Past, Gone
    <3>5. QED
      BY <2>1, <3>1, <3>2, <3>3, <3>4, PageSparesDns DEF WifiPart, WifiNext
  <2>2. ASSUME StopInv, UNCHANGED wifiVars PROVE StopInv'
    BY <2>2 DEF StopInv, DnsTypeOK, Past, Gone, wifiVars
  <2>3. QED
    BY <2>1, <2>2 DEF Next, vars, ServerPart, JoinPart, TopologyPart, PingPart
<1>3. QED
  BY <1>1, <1>2, PTL DEF Spec

\* A set-up access point that came up is gone with its name server, by consent or
\* by force, before the router joins a network, and the task never gives a
\* semaphore that was deleted (NameServerIsGone; wifi_config_dns_server_stop,
\* wifi_config_dns_server_task).
THEOREM NameServerStopped == Spec => []NameServerIsGone
<1>1. StopInv => NameServerIsGone
  BY DEF StopInv, NameServerIsGone, Past, Gone, Connecting
<1>2. QED
  BY <1>1, StopAlways, PTL

-----------------------------------------------------------------------------
(* The routes.  Their paths are different from each other, so the order of the  *)
(* table matters only to the five that end in a wildcard.                      *)

\* A route that httpd would take for another one, when it is registered or when
\* it is asked for.
Takes(r, s) == \E p \in {s.at, Sample(s)} : Matches(r, s.m, p)

\* No route of a table takes a later one; no route of one table takes one of another.
Ordered(q) == \A i, j \in DOMAIN q : i < j => ~Takes(q[i], q[j])
Apart(q, t) == \A i \in DOMAIN q, j \in DOMAIN t : ~Takes(q[i], t[j])

LEMMA Joined ==
  ASSUME NEW S, NEW q \in Seq(S), NEW t \in Seq(S)
  PROVE  /\ q \o t \in Seq(S) /\ Len(q \o t) = Len(q) + Len(t)
         /\ Len(q) \in Nat /\ Len(t) \in Nat
         /\ DOMAIN q = 1 .. Len(q) /\ DOMAIN t = 1 .. Len(t)
         /\ DOMAIN (q \o t) = 1 .. Len(q) + Len(t)
         /\ \A i \in 1 .. Len(q) : (q \o t)[i] = q[i]
         /\ \A i \in Len(q) + 1 .. Len(q) + Len(t) : (q \o t)[i] = t[i - Len(q)]
  OBVIOUS

LEMMA OrderedJoin ==
  ASSUME NEW S, NEW q \in Seq(S), NEW t \in Seq(S), Ordered(q), Ordered(t), Apart(q, t)
  PROVE  Ordered(q \o t)
<1> DEFINE u == q \o t
           n == Len(q)
<1>1. /\ n \in Nat /\ Len(t) \in Nat
      /\ DOMAIN q = 1 .. n /\ DOMAIN t = 1 .. Len(t) /\ DOMAIN u = 1 .. n + Len(t)
      /\ \A i \in 1 .. n : u[i] = q[i]
      /\ \A i \in n + 1 .. n + Len(t) : u[i] = t[i - n]
  BY Joined
<1> HIDE DEF u, n
<1>2. ASSUME NEW i \in DOMAIN u, NEW j \in DOMAIN u, i < j PROVE ~Takes(u[i], u[j])
  <2>1. CASE j <= n
    <3>1. i \in DOMAIN q /\ j \in DOMAIN q /\ u[i] = q[i] /\ u[j] = q[j]
      BY <1>1, <1>2, <2>1
    <3>2. QED
      BY <1>2, <3>1 DEF Ordered
  <2>2. CASE i <= n /\ j > n
    <3>1. i \in DOMAIN q /\ j - n \in DOMAIN t /\ u[i] = q[i] /\ u[j] = t[j - n]
      BY <1>1, <1>2, <2>2
    <3>2. QED
      BY <3>1 DEF Apart
  <2>3. CASE i > n
    <3>1. /\ i - n \in DOMAIN t /\ j - n \in DOMAIN t /\ i - n < j - n
          /\ u[i] = t[i - n] /\ u[j] = t[j - n]
      BY <1>1, <1>2, <2>3
    <3>2. QED
      BY <3>1 DEF Ordered
  <2>4. QED
    BY <1>1, <2>1, <2>2, <2>3
<1>3. QED
  BY <1>2 DEF Ordered, u

LEMMA ApartJoin ==
  ASSUME NEW S, NEW q \in Seq(S), NEW t \in Seq(S), NEW u, Apart(q, u), Apart(t, u)
  PROVE  Apart(q \o t, u)
<1> DEFINE v == q \o t
           n == Len(q)
<1>1. /\ n \in Nat /\ Len(t) \in Nat
      /\ DOMAIN q = 1 .. n /\ DOMAIN t = 1 .. Len(t) /\ DOMAIN v = 1 .. n + Len(t)
      /\ \A i \in 1 .. n : v[i] = q[i]
      /\ \A i \in n + 1 .. n + Len(t) : v[i] = t[i - n]
  BY Joined
<1> HIDE DEF v, n
<1>2. ASSUME NEW i \in DOMAIN v PROVE (\E k \in DOMAIN q : v[i] = q[k]) \/ \E k \in DOMAIN t : v[i] = t[k]
  <2>1. CASE i <= n
    BY <1>1, <1>2, <2>1
  <2>2. CASE i > n
    <3>1. i - n \in DOMAIN t /\ v[i] = t[i - n]
      BY <1>1, <1>2, <2>2
    <3>2. QED
      BY <3>1
  <2>3. QED
    BY <1>1, <2>1, <2>2
<1>3. QED
  BY <1>2 DEF Apart, v

\* httpd takes every route of a table that is ordered and fits.
LEMMA Registered ==
  ASSUME NEW S, NEW q \in Seq(S), NEW t \in Seq(S), Ordered(q \o t), ExternalMax \in Nat,
         RouteMax \in Nat, Len(q \o t) <= RouteMax
  PROVE  RegisterAll(q, t) = q \o t
<1> DEFINE after(n) == q \o SubSeq(t, 1, n)
           taken == {n \in 0 .. Len(t) : \A i \in 1 .. n : Registrable(after(i - 1), t[i])}
           u == q \o t
<1>1. /\ Len(q) \in Nat /\ Len(t) \in Nat /\ Len(u) = Len(q) + Len(t)
      /\ DOMAIN u = 1 .. Len(q) + Len(t)
      /\ \A i \in 1 .. Len(q) : u[i] = q[i]
      /\ \A i \in Len(q) + 1 .. Len(q) + Len(t) : u[i] = t[i - Len(q)]
  BY Joined
<1>2. ASSUME NEW n \in 1 .. Len(t) PROVE Registrable(after(n - 1), t[n])
  <2> DEFINE s == SubSeq(t, 1, n - 1)
             v == q \o s
             k == Len(q) + n
  <2>1. s \in Seq(S) /\ Len(s) = n - 1 /\ \A i \in 1 .. n - 1 : s[i] = t[i]
    BY <1>1
  <2> HIDE DEF s
  <2>2. /\ Len(v) = Len(q) + (n - 1) /\ DOMAIN v = 1 .. Len(q) + (n - 1)
        /\ \A i \in 1 .. Len(q) : v[i] = q[i]
        /\ \A i \in Len(q) + 1 .. Len(q) + (n - 1) : v[i] = s[i - Len(q)]
    <3>1. ASSUME NEW x \in Seq(S), Len(x) = n - 1
          PROVE  /\ Len(q \o x) = Len(q) + (n - 1) /\ DOMAIN (q \o x) = 1 .. Len(q) + (n - 1)
                 /\ \A i \in 1 .. Len(q) : (q \o x)[i] = q[i]
                 /\ \A i \in Len(q) + 1 .. Len(q) + (n - 1) : (q \o x)[i] = x[i - Len(q)]
      <4>1. /\ Len(q \o x) = Len(q) + Len(x) /\ DOMAIN (q \o x) = 1 .. Len(q) + Len(x)
            /\ \A i \in 1 .. Len(q) : (q \o x)[i] = q[i]
            /\ \A i \in Len(q) + 1 .. Len(q) + Len(x) : (q \o x)[i] = x[i - Len(q)]
        BY Joined
      <4>2. QED
        BY <3>1, <4>1
    <3>2. QED
      BY <2>1, <3>1
  <2>3. k \in DOMAIN u /\ u[k] = t[n] /\ Len(v) = k - 1 /\ k <= Len(u)
    BY <1>1, <2>2
  <2> HIDE DEF v, u
  <2>4. ASSUME NEW i \in DOMAIN v PROVE i \in DOMAIN u /\ i < k /\ v[i] = u[i]
    <3>1. CASE i <= Len(q)
      BY <1>1, <2>2, <3>1
    <3>2. CASE i > Len(q)
      <4>1. i - Len(q) \in 1 .. n - 1 /\ i \in Len(q) + 1 .. Len(q) + Len(t)
            /\ i \in Len(q) + 1 .. Len(q) + (n - 1)
        BY <1>1, <2>2, <3>2
      <4>2. v[i] = s[i - Len(q)] /\ s[i - Len(q)] = t[i - Len(q)] /\ u[i] = t[i - Len(q)]
        BY <1>1, <2>1, <2>2, <4>1
      <4>3. QED
        BY <1>1, <4>1, <4>2
    <3>3. QED
      BY <1>1, <2>2, <3>1, <3>2
  <2>5. \A i \in DOMAIN v : ~Matches(v[i], t[n].m, t[n].at)
    BY <2>3, <2>4 DEF Ordered, Takes, u
  <2>6. Dispatch(v, t[n].m, t[n].at) = NoRoute
    <3>1. {i \in DOMAIN v : Matches(v[i], t[n].m, t[n].at)} = {}
      BY <2>5
    <3>2. QED
      BY <3>1, Zenon DEF Dispatch
  <2>7. Len(v) < RouteMax
    BY <1>1, <2>3 DEF u
  <2>8. QED
    BY <2>6, <2>7 DEF Registrable, v, s
<1> HIDE DEF after
<1>3. Len(t) \in taken /\ \A n \in taken : n <= Len(t)
  BY <1>1, <1>2
<1> HIDE DEF taken
<1>4. (CHOOSE n \in taken : \A k \in taken : k <= n) = Len(t)
  <2> DEFINE c == CHOOSE n \in taken : \A k \in taken : k <= n
  <2>1. \E n \in taken : \A k \in taken : k <= n
    BY <1>3
  <2>2. c \in taken /\ \A k \in taken : k <= c
    BY <2>1, Zenon
  <2> HIDE DEF c
  <2>3. c \in Nat /\ Len(t) \in Nat /\ c <= Len(t) /\ Len(t) <= c
    BY <1>1, <1>3, <2>2 DEF taken
  <2>4. QED
    BY <2>3 DEF c
<1>5. RegisterAll(q, t) = after(Len(t))
  BY <1>4, Zenon DEF RegisterAll, after, taken
<1>6. SubSeq(t, 1, Len(t)) = t
  BY <1>1
<1>7. QED
  BY <1>5, <1>6 DEF after

\* In an ordered table, what is asked for is what answers.
LEMMA AskedIsAnswered ==
  ASSUME NEW S, NEW q \in Seq(S), Ordered(q), NEW j \in DOMAIN q,
         Matches(q[j], q[j].m, Sample(q[j]))
  PROVE  Dispatch(q, q[j].m, Sample(q[j])) = q[j]
<1> DEFINE hits == {i \in DOMAIN q : Matches(q[i], q[j].m, Sample(q[j]))}
<1>1. j \in hits /\ hits \subseteq Nat
  OBVIOUS
<1>2. \A i \in hits : j <= i
  <2>1. ASSUME NEW i \in DOMAIN q, i < j PROVE i \notin hits
    BY <2>1 DEF Ordered, Takes
  <2>2. QED
    BY <1>1, <2>1
<1> HIDE DEF hits
<1>3. (CHOOSE i \in hits : \A k \in hits : i <= k) = j
  <2>1. \E i \in hits : \A k \in hits : i <= k
    BY <1>1, <1>2
  <2>2. (CHOOSE i \in hits : \A k \in hits : i <= k) \in hits
        /\ \A k \in hits : (CHOOSE i \in hits : \A m \in hits : i <= m) <= k
    BY <2>1, Zenon
  <2>3. QED
    BY <1>1, <1>2, <2>2
<1>4. hits # {}
  BY <1>1
<1> DEFINE c == CHOOSE i \in hits : \A k \in hits : i <= k
<1>5. Dispatch(q, q[j].m, Sample(q[j])) = IF hits = {} THEN NoRoute ELSE q[c]
  BY Zenon DEF Dispatch, hits
<1>6. c = j
  BY <1>3
<1> HIDE DEF c
<1>7. QED
  BY <1>4, <1>5, <1>6

\* What the routes with a wildcard are asked for.
Sampled == {<<"bos", "device", "x">>, <<"bos", "x">>, <<"x">>}

\* A route with a path of its own.
Plain(r) == r.at[Len(r.at)] # "*" /\ r.at \notin Sampled

Differ(r, s) == r.m # s.m \/ r.at # s.at

LEMMA ResourcesPlain == \A k \in 1 .. 17 : Plain(ResourceRoutes[k])
<1>1. \A k \in 1 .. 17 : Len(ResourceRoutes[k].at) \in {1, 2, 3}
  BY DEF ResourceRoutes, Get, Put, Post, Delete
<1>2. \A k \in 1 .. 17 : Len(ResourceRoutes[k].at) = 1 => ResourceRoutes[k].at[1] # "*"
  BY DEF ResourceRoutes, Get, Put, Post, Delete
<1>3. \A k \in 1 .. 17 : Len(ResourceRoutes[k].at) = 2 => ResourceRoutes[k].at[2] # "*"
  BY DEF ResourceRoutes, Get, Put, Post, Delete
<1>4. \A k \in 1 .. 17 : Len(ResourceRoutes[k].at) = 3 => ResourceRoutes[k].at[3] # "*"
  BY DEF ResourceRoutes, Get, Put, Post, Delete
<1>5. \A k \in 1 .. 17 : ResourceRoutes[k].at # <<"bos", "device", "x">>
  BY DEF ResourceRoutes, Get, Put, Post, Delete
<1>6. \A k \in 1 .. 17 : ResourceRoutes[k].at # <<"bos", "x">>
  BY DEF ResourceRoutes, Get, Put, Post, Delete
<1>7. \A k \in 1 .. 17 : ResourceRoutes[k].at # <<"x">>
  BY DEF ResourceRoutes, Get, Put, Post, Delete
<1>8. QED
  BY <1>1, <1>2, <1>3, <1>4, <1>5, <1>6, <1>7 DEF Plain, Sampled

LEMMA PagesPlain == \A k \in 1 .. 13 : Plain(PageRoutes[k])
<1>1. \A k \in 1 .. 13 : Len(PageRoutes[k].at) \in {1}
  BY DEF PageRoutes, Get, Put, Post, Delete
<1>2. \A k \in 1 .. 13 : Len(PageRoutes[k].at) = 1 => PageRoutes[k].at[1] # "*"
  BY DEF PageRoutes, Get, Put, Post, Delete
<1>3. \A k \in 1 .. 13 : PageRoutes[k].at # <<"bos", "device", "x">>
  BY DEF PageRoutes, Get, Put, Post, Delete
<1>4. \A k \in 1 .. 13 : PageRoutes[k].at # <<"bos", "x">>
  BY DEF PageRoutes, Get, Put, Post, Delete
<1>5. \A k \in 1 .. 13 : PageRoutes[k].at # <<"x">>
  BY DEF PageRoutes, Get, Put, Post, Delete
<1>6. QED
  BY <1>1, <1>2, <1>3, <1>4, <1>5 DEF Plain, Sampled

LEMMA SpecificPlain == \A k \in 1 .. 27 : k \notin 22 .. 24 => Plain(SpecificRoutes[k])
<1>1. \A k \in 1 .. 27 : Len(SpecificRoutes[k].at) \in {2, 3, 4}
  BY DEF SpecificRoutes, Get, Put, Post, Delete
<1>2. \A k \in 1 .. 27 : k \notin 22 .. 24 /\ Len(SpecificRoutes[k].at) = 2 => SpecificRoutes[k].at[2] # "*"
  <2>1. \A k \in 1 .. 21 : Len(SpecificRoutes[k].at) = 2 => SpecificRoutes[k].at[2] # "*"
    BY DEF SpecificRoutes, Get, Put, Post, Delete
  <2>2. \A k \in 25 .. 27 : Len(SpecificRoutes[k].at) = 2 => SpecificRoutes[k].at[2] # "*"
    BY DEF SpecificRoutes, Get, Put, Post, Delete
  <2>3. QED
    BY <2>1, <2>2
<1>3. \A k \in 1 .. 27 : k \notin 22 .. 24 /\ Len(SpecificRoutes[k].at) = 3 => SpecificRoutes[k].at[3] # "*"
  <2>1. \A k \in 1 .. 21 : Len(SpecificRoutes[k].at) = 3 => SpecificRoutes[k].at[3] # "*"
    BY DEF SpecificRoutes, Get, Put, Post, Delete
  <2>2. /\ Len(SpecificRoutes[25].at) = 2 /\ Len(SpecificRoutes[27].at) = 2
        /\ SpecificRoutes[26].at[3] = "floating"
    BY DEF SpecificRoutes, Get, Put, Post, Delete
  <2>3. QED
    BY <2>1, <2>2
<1>4. \A k \in 1 .. 27 : k \notin 22 .. 24 /\ Len(SpecificRoutes[k].at) = 4 => SpecificRoutes[k].at[4] # "*"
  <2>1. \A k \in 1 .. 13 : Len(SpecificRoutes[k].at) \in {2, 3}
    BY DEF SpecificRoutes, Get, Put, Post, Delete
  <2>2. \A k \in 15 .. 27 : Len(SpecificRoutes[k].at) \in {2, 3}
    BY DEF SpecificRoutes, Get, Put, Post, Delete
  <2>3. SpecificRoutes[14].at[4] = "fetch"
    BY DEF SpecificRoutes, Get, Put, Post, Delete
  <2>4. QED
    BY <2>1, <2>2, <2>3
<1>5. \A k \in 1 .. 27 : SpecificRoutes[k].at # <<"bos", "device", "x">>
  BY DEF SpecificRoutes, Get, Put, Post, Delete
<1>6. \A k \in 1 .. 27 : SpecificRoutes[k].at # <<"bos", "x">>
  BY DEF SpecificRoutes, Get, Put, Post, Delete
<1>7. \A k \in 1 .. 27 : SpecificRoutes[k].at # <<"x">>
  BY DEF SpecificRoutes, Get, Put, Post, Delete
<1>8. QED
  BY <1>1, <1>2, <1>3, <1>4, <1>5, <1>6, <1>7 DEF Plain, Sampled

LEMMA ResourcesDiffer ==
  /\ \A i, j \in 1 .. 17 : i # j => Differ(ResourceRoutes[i], ResourceRoutes[j])
  /\ \A i \in 1 .. 17, j \in 1 .. 13 : Differ(ResourceRoutes[i], PageRoutes[j])
  /\ \A i \in 1 .. 17, j \in 1 .. 27 : Differ(ResourceRoutes[i], SpecificRoutes[j])
<1>1. \A i, j \in 1 .. 17 : i # j => Differ(ResourceRoutes[i], ResourceRoutes[j])
  BY DEF Differ, ResourceRoutes, Get, Put, Post, Delete
<1>2. \A i \in 1 .. 17, j \in 1 .. 13 : Differ(ResourceRoutes[i], PageRoutes[j])
  BY DEF Differ, ResourceRoutes, PageRoutes, Get, Put, Post, Delete
<1>3. \A i \in 1 .. 17, j \in 1 .. 27 : Differ(ResourceRoutes[i], SpecificRoutes[j])
  BY DEF Differ, ResourceRoutes, SpecificRoutes, Get, Put, Post, Delete
<1>4. QED
  BY <1>1, <1>2, <1>3

LEMMA PagesDiffer ==
  /\ \A i, j \in 1 .. 13 : i # j => Differ(PageRoutes[i], PageRoutes[j])
  /\ \A i \in 1 .. 13, j \in 1 .. 27 : Differ(PageRoutes[i], SpecificRoutes[j])
<1>1. \A i, j \in 1 .. 13 : i # j => Differ(PageRoutes[i], PageRoutes[j])
  BY DEF Differ, PageRoutes, Get, Put, Post, Delete
<1>2. \A i \in 1 .. 13, j \in 1 .. 27 : Differ(PageRoutes[i], SpecificRoutes[j])
  BY DEF Differ, PageRoutes, SpecificRoutes, Get, Put, Post, Delete
<1>3. QED
  BY <1>1, <1>2

LEMMA SpecificDiffer ==
  ASSUME NEW i \in 1 .. 27, NEW j \in 1 .. 27, i < j
  PROVE  Differ(SpecificRoutes[i], SpecificRoutes[j])
<1>1. CASE i \in 1 .. 5
  BY <1>1 DEF Differ, SpecificRoutes, Get, Put, Post, Delete
<1>2. CASE i \in 6 .. 10
  BY <1>2 DEF Differ, SpecificRoutes, Get, Put, Post, Delete
<1>3. CASE i \in 11 .. 12
  BY <1>3 DEF Differ, SpecificRoutes, Get, Put, Post, Delete
<1>4. CASE i \in 14 .. 16
  BY <1>4 DEF Differ, SpecificRoutes, Get, Put, Post, Delete
<1>5. CASE i \in 17 .. 20
  BY <1>5 DEF Differ, SpecificRoutes, Get, Put, Post, Delete
<1>6. CASE i \in 21 .. 27
  BY <1>6 DEF Differ, SpecificRoutes, Get, Put, Post, Delete
<1>7. CASE i = 13
  <2>1. Differ(SpecificRoutes[13], SpecificRoutes[14])
    BY DEF Differ, SpecificRoutes, Get, Put, Post, Delete
  <2>2. \A k \in 15 .. 27 : Differ(SpecificRoutes[13], SpecificRoutes[k])
    BY DEF Differ, SpecificRoutes, Get, Put, Post, Delete
  <2>3. QED
    BY <1>7, <2>1, <2>2
<1>8. QED
  BY <1>1, <1>2, <1>3, <1>4, <1>5, <1>6, <1>7

\* A plain route takes no other one.
LEMMA PlainTakesNone ==
  ASSUME NEW r, NEW s, Plain(r), Differ(r, s), Sample(s) = s.at \/ Sample(s) \in Sampled
  PROVE  ~Takes(r, s)
<1>1. \A p : Matches(r, s.m, p) => r.m = s.m /\ p = r.at
  BY DEF Matches, Plain
<1>2. QED
  BY <1>1 DEF Takes, Plain, Differ

LEMMA PlainSample == ASSUME NEW r, Plain(r) PROVE Sample(r) = r.at
  BY DEF Plain, Sample

\* The routes with a wildcard, and what they are asked for.
LEMMA DeviceRoutes ==
  ASSUME NEW k \in 22 .. 24
  PROVE  /\ SpecificRoutes[k].at = <<"bos", "device", "*">>
         /\ Sample(SpecificRoutes[k]) = <<"bos", "device", "x">>
<1>1. SpecificRoutes[k].at = <<"bos", "device", "*">>
  BY DEF SpecificRoutes, Get, Put, Post, Delete
<1>2. Len(<<"bos", "device", "*">>) = 3 /\ <<"bos", "device", "*">>[3] = "*"
      /\ [<<"bos", "device", "*">> EXCEPT ![3] = "x"] = <<"bos", "device", "x">>
  OBVIOUS
<1>3. QED
  BY <1>1, <1>2 DEF Sample

LEMMA WideRoutes ==
  /\ SpatialRoute.at = <<"bos", "*">> /\ Sample(SpatialRoute) = <<"bos", "x">>
  /\ FilesRoute.at = <<"*">> /\ Sample(FilesRoute) = <<"x">>
<1>1. SpatialRoute.at = <<"bos", "*">> /\ FilesRoute.at = <<"*">>
  BY DEF SpatialRoute, FilesRoute, Get
<1>2. /\ Len(<<"bos", "*">>) = 2 /\ <<"bos", "*">>[2] = "*"
      /\ [<<"bos", "*">> EXCEPT ![2] = "x"] = <<"bos", "x">>
      /\ Len(<<"*">>) = 1 /\ <<"*">>[1] = "*"
      /\ [<<"*">> EXCEPT ![1] = "x"] = <<"x">>
  OBVIOUS
<1>3. QED
  BY <1>1, <1>2 DEF Sample

LEMMA DeviceTakesNone ==
  ASSUME NEW k \in 22 .. 24
  PROVE  /\ \A j \in 23 .. 27 : k < j => ~Takes(SpecificRoutes[k], SpecificRoutes[j])
         /\ ~Takes(SpecificRoutes[k], SpatialRoute) /\ ~Takes(SpecificRoutes[k], FilesRoute)
<1> DEFINE r == SpecificRoutes[k]
           at == <<"bos", "device", "*">>
           floating == <<"bos", "phonebook", "floating">>
<1>1. \A m, p : Matches(r, m, p) => r.m = m /\ Len(p) >= 3 /\ SubSeq(p, 1, 2) = SubSeq(at, 1, 2)
  <2>1. Len(at) = 3 /\ at[3] = "*" /\ 3 - 1 = 2
    OBVIOUS
  <2>2. r.at = at
    BY DeviceRoutes
  <2> HIDE DEF at, r
  <2>3. QED
    BY <2>1, <2>2 DEF Matches
<1>2. ASSUME NEW j \in 23 .. 24, k < j PROVE r.m # SpecificRoutes[j].m
  BY <1>2 DEF SpecificRoutes, Get, Put, Post, Delete
<1>3. /\ SpecificRoutes[25].at = <<"bos", "phonebook">> /\ SpecificRoutes[27].at = <<"bos", "trigger">>
      /\ SpecificRoutes[26].at = <<"bos", "phonebook", "floating">>
      /\ \A j \in 25 .. 27 : Sample(SpecificRoutes[j]) = SpecificRoutes[j].at
  <2>1. \A j \in 25 .. 27 : Plain(SpecificRoutes[j])
    BY SpecificPlain
  <2>2. QED
    BY <2>1, PlainSample DEF SpecificRoutes, Get, Put, Post, Delete
<1>4. /\ Len(<<"bos", "phonebook">>) = 2 /\ Len(<<"bos", "trigger">>) = 2
      /\ Len(<<"bos", "*">>) = 2 /\ Len(<<"bos", "x">>) = 2
      /\ Len(<<"*">>) = 1 /\ Len(<<"x">>) = 1
  OBVIOUS
<1>5. SubSeq(floating, 1, 2) # SubSeq(at, 1, 2)
  <2>1. ASSUME NEW S, NEW p \in Seq(S), Len(p) = 3 PROVE SubSeq(p, 1, 2)[2] = p[2]
    BY <2>1
  <2>2. /\ at \in Seq({"bos", "device", "*"}) /\ Len(at) = 3 /\ at[2] = "device"
        /\ floating \in Seq({"bos", "phonebook", "floating"}) /\ Len(floating) = 3
        /\ floating[2] = "phonebook"
    OBVIOUS
  <2> HIDE DEF at, floating
  <2>3. SubSeq(at, 1, 2)[2] = "device" /\ SubSeq(floating, 1, 2)[2] = "phonebook"
    BY <2>1, <2>2
  <2>4. QED
    BY <2>3
<1> HIDE DEF r, at, floating
<1>6. ASSUME NEW m, NEW p, Len(p) \in {1, 2} PROVE ~Matches(r, m, p)
  <2> SUFFICES ASSUME Matches(r, m, p) PROVE FALSE
    OBVIOUS
  <2> DEFINE n == Len(p)
  <2>1. n >= 3 /\ n \in {1, 2}
    BY <1>1, <1>6
  <2> HIDE DEF n
  <2>2. QED
    BY <2>1
<1>7. ASSUME NEW j \in 23 .. 27, k < j PROVE ~Takes(r, SpecificRoutes[j])
  <2>1. CASE j \in 23 .. 24
    BY <1>1, <1>2, <1>7, <2>1 DEF Takes
  <2>2. CASE j \in 25 .. 27
    <3>1. ~Matches(r, SpecificRoutes[j].m, SpecificRoutes[j].at)
      <4>1. \A m : ~Matches(r, m, SpecificRoutes[25].at) /\ ~Matches(r, m, SpecificRoutes[27].at)
        BY <1>3, <1>4, <1>6
      <4>2. \A m : ~Matches(r, m, SpecificRoutes[26].at)
        BY <1>5, <1>1, <1>3 DEF floating
      <4>3. QED
        BY <2>2, <4>1, <4>2
    <3>2. QED
      BY <1>3, <2>2, <3>1 DEF Takes
  <2>3. QED
    BY <2>1, <2>2
<1>8. ~Takes(r, SpatialRoute) /\ ~Takes(r, FilesRoute)
  <2>1. \A m : \A p \in {<<"bos", "*">>, <<"bos", "x">>, <<"*">>, <<"x">>} : ~Matches(r, m, p)
    BY <1>4, <1>6
  <2>2. QED
    BY <2>1, WideRoutes DEF Takes
<1>9. QED
  BY <1>7, <1>8 DEF r

LEMMA SpatialTakesNone == ~Takes(SpatialRoute, FilesRoute)
<1>1. \A m, p : Matches(SpatialRoute, m, p) => Len(p) >= 2
  <2>1. Len(<<"bos", "*">>) = 2 /\ <<"bos", "*">>[2] = "*"
    OBVIOUS
  <2>2. QED
    BY <2>1, WideRoutes DEF Matches
<1>2. Len(<<"*">>) = 1 /\ Len(<<"x">>) = 1
  OBVIOUS
<1>3. QED
  BY <1>1, <1>2, WideRoutes DEF Takes

\* The paths of the other routes are not the wildcards' either.
LEMMA PlainVersusWide ==
  ASSUME NEW r, Plain(r)
  PROVE  /\ Sample(r) = r.at
         /\ ~Takes(r, SpatialRoute) /\ ~Takes(r, FilesRoute)
         /\ \A k \in 22 .. 24 : ~Takes(r, SpecificRoutes[k])
<1>1. r.at[Len(r.at)] # "*"
  BY DEF Plain
<1>2. /\ Len(<<"bos", "*">>) = 2 /\ <<"bos", "*">>[2] = "*"
      /\ Len(<<"*">>) = 1 /\ <<"*">>[1] = "*"
      /\ Len(<<"bos", "device", "*">>) = 3 /\ <<"bos", "device", "*">>[3] = "*"
  OBVIOUS
<1>3. r.at \notin {<<"bos", "*">>, <<"*">>, <<"bos", "device", "*">>}
  BY <1>1, <1>2
<1>4. Differ(r, SpatialRoute) /\ Differ(r, FilesRoute)
  BY <1>3, WideRoutes DEF Differ
<1>5. \A k \in 22 .. 24 : Differ(r, SpecificRoutes[k])
  BY <1>3, DeviceRoutes DEF Differ
<1>6. /\ Sample(SpatialRoute) \in Sampled /\ Sample(FilesRoute) \in Sampled
      /\ \A k \in 22 .. 24 : Sample(SpecificRoutes[k]) \in Sampled
  BY WideRoutes, DeviceRoutes DEF Sampled
<1>7. QED
  BY <1>4, <1>5, <1>6, PlainTakesNone, PlainSample

\* Each table is ordered, and takes nothing of the tables that follow.
LEMMA SpecificOrdered == Ordered(SpecificRoutes) /\ DOMAIN SpecificRoutes = 1 .. 27
<1>1. DOMAIN SpecificRoutes = 1 .. 27
  BY DEF SpecificRoutes
<1>2. ASSUME NEW i \in 1 .. 27, NEW j \in 1 .. 27, i < j
      PROVE  ~Takes(SpecificRoutes[i], SpecificRoutes[j])
  <2>1. CASE i \in 22 .. 24
    <3>1. j \in 23 .. 27
      BY <1>2, <2>1
    <3>2. QED
      BY <1>2, <2>1, <3>1, DeviceTakesNone
  <2>2. CASE i \notin 22 .. 24 /\ j \in 22 .. 24
    BY <2>2, SpecificPlain, PlainVersusWide
  <2>3. CASE i \notin 22 .. 24 /\ j \notin 22 .. 24
    <3>1. Plain(SpecificRoutes[i]) /\ Plain(SpecificRoutes[j])
      BY <2>3, SpecificPlain
    <3>2. Differ(SpecificRoutes[i], SpecificRoutes[j])
      BY <1>2, SpecificDiffer
    <3>3. QED
      BY <3>1, <3>2, PlainSample, PlainTakesNone
  <2>4. QED
    BY <2>1, <2>2, <2>3
<1>3. QED
  BY <1>1, <1>2 DEF Ordered

LEMMA TablesApart ==
  /\ DOMAIN ResourceRoutes = 1 .. 17 /\ DOMAIN PageRoutes = 1 .. 13
  /\ Ordered(ResourceRoutes) /\ Ordered(PageRoutes)
  /\ Apart(ResourceRoutes, PageRoutes)
  /\ Apart(ResourceRoutes, SpecificRoutes) /\ Apart(PageRoutes, SpecificRoutes)
<1>1. DOMAIN ResourceRoutes = 1 .. 17 /\ DOMAIN PageRoutes = 1 .. 13
  BY DEF ResourceRoutes, PageRoutes
<1>2. ASSUME NEW r, NEW s, Plain(r), Plain(s), Differ(r, s) PROVE ~Takes(r, s)
  BY <1>2, PlainSample, PlainTakesNone
<1>3. Ordered(ResourceRoutes)
  <2>1. \A i, j \in 1 .. 17 : i < j => i # j
    OBVIOUS
  <2>2. QED
    BY <1>1, <1>2, <2>1, ResourcesPlain, ResourcesDiffer DEF Ordered
<1>4. Ordered(PageRoutes)
  <2>1. \A i, j \in 1 .. 13 : i < j => i # j
    OBVIOUS
  <2>2. QED
    BY <1>1, <1>2, <2>1, PagesPlain, PagesDiffer DEF Ordered
<1>5. Apart(ResourceRoutes, PageRoutes)
  BY <1>1, <1>2, ResourcesPlain, PagesPlain, ResourcesDiffer DEF Apart
<1>6. ASSUME NEW r, Plain(r), \A j \in 1 .. 27 : Differ(r, SpecificRoutes[j]), NEW j \in 1 .. 27
      PROVE  ~Takes(r, SpecificRoutes[j])
  <2>1. CASE j \in 22 .. 24
    BY <1>6, <2>1, PlainVersusWide
  <2>2. CASE j \notin 22 .. 24
    BY <1>2, <1>6, <2>2, SpecificPlain
  <2>3. QED
    BY <2>1, <2>2
<1>7. Apart(ResourceRoutes, SpecificRoutes)
  BY <1>1, <1>6, SpecificOrdered, ResourcesPlain, ResourcesDiffer DEF Apart
<1>8. Apart(PageRoutes, SpecificRoutes)
  BY <1>1, <1>6, SpecificOrdered, PagesPlain, PagesDiffer DEF Apart
<1>9. QED
  BY <1>1, <1>3, <1>4, <1>5, <1>7, <1>8

LEMMA BosElements ==
  \A k \in DOMAIN BosRoutes :
    BosRoutes[k] = SpatialRoute \/ \E n \in 1 .. 27 : BosRoutes[k] = SpecificRoutes[n]
<1> DEFINE S == {SpecificRoutes[k] : k \in 1 .. 27} \cup {SpatialRoute}
<1>1. SpecificRoutes \in Seq(S) /\ SpatialRoute \in S
  <2>1. Len(SpecificRoutes) = 27 /\ SpecificRoutes \in Seq({SpecificRoutes[k] : k \in 1 .. 27})
    BY DEF SpecificRoutes
  <2>2. QED
    BY <2>1
<1> HIDE DEF S
<1>2. ASSUME NEW e \in S, NEW q \in Seq(S), NEW j \in DOMAIN Append(q, e)
      PROVE  Append(q, e)[j] = e \/ \E k \in DOMAIN q : Append(q, e)[j] = q[k]
  OBVIOUS
<1>3. \A j \in DOMAIN Append(SpecificRoutes, SpatialRoute) :
        \/ Append(SpecificRoutes, SpatialRoute)[j] = SpatialRoute
        \/ \E k \in DOMAIN SpecificRoutes : Append(SpecificRoutes, SpatialRoute)[j] = SpecificRoutes[k]
  BY <1>1, <1>2, Zenon
<1>4. QED
  BY <1>3, SpecificOrdered, Zenon DEF BosRoutes

\* The building's routes and the whole table, and what each is asked for.
LEMMA WholeTable ==
  LET pages == ResourceRoutes \o PageRoutes
      all == pages \o BosRoutes
      whole == all \o <<FilesRoute>>
  IN  \E S : /\ {ResourceRoutes, PageRoutes, BosRoutes, pages, all, whole} \subseteq Seq(S)
             /\ FilesRoute \in S
             /\ Len(ResourceRoutes) = 17 /\ Len(PageRoutes) = 13 /\ Len(BosRoutes) = 28
             /\ Len(pages) = 30 /\ Len(all) = 58 /\ Len(whole) = 59
             /\ Ordered(ResourceRoutes) /\ Ordered(pages) /\ Ordered(all) /\ Ordered(whole)
             /\ Apart(all, <<FilesRoute>>)
<1> DEFINE S == {ResourceRoutes[k] : k \in 1 .. 17} \cup {PageRoutes[k] : k \in 1 .. 13}
                \cup {SpecificRoutes[k] : k \in 1 .. 27} \cup {SpatialRoute, FilesRoute}
           spatial == <<SpatialRoute>>
           files == <<FilesRoute>>
           pages == ResourceRoutes \o PageRoutes
           all == pages \o BosRoutes
           whole == all \o files
<1>1. Len(ResourceRoutes) = 17 /\ ResourceRoutes \in Seq({ResourceRoutes[k] : k \in 1 .. 17})
  BY DEF ResourceRoutes
<1>2. Len(PageRoutes) = 13 /\ PageRoutes \in Seq({PageRoutes[k] : k \in 1 .. 13})
  BY DEF PageRoutes
<1>3. Len(SpecificRoutes) = 27 /\ SpecificRoutes \in Seq({SpecificRoutes[k] : k \in 1 .. 27})
  BY DEF SpecificRoutes
<1>4. ResourceRoutes \in Seq(S) /\ PageRoutes \in Seq(S) /\ SpecificRoutes \in Seq(S)
      /\ spatial \in Seq(S) /\ files \in Seq(S) /\ FilesRoute \in S /\ SpatialRoute \in S
  BY <1>1, <1>2, <1>3
<1>5. /\ DOMAIN spatial = {1} /\ spatial[1] = SpatialRoute /\ Len(spatial) = 1
      /\ DOMAIN files = {1} /\ files[1] = FilesRoute /\ Len(files) = 1
  OBVIOUS
<1> HIDE DEF S
<1>6. BosRoutes = SpecificRoutes \o spatial
  BY <1>4 DEF BosRoutes
<1> HIDE DEF spatial, files
<1>7. Ordered(spatial) /\ Ordered(files)
  BY <1>5 DEF Ordered
<1>8. Apart(ResourceRoutes, spatial) /\ Apart(ResourceRoutes, files)
  BY <1>5, TablesApart, ResourcesPlain, PlainVersusWide DEF Apart
<1>9. Apart(PageRoutes, spatial) /\ Apart(PageRoutes, files)
  BY <1>5, TablesApart, PagesPlain, PlainVersusWide DEF Apart
<1>10. Apart(SpecificRoutes, spatial) /\ Apart(SpecificRoutes, files)
  <2>1. ASSUME NEW k \in 1 .. 27
        PROVE  ~Takes(SpecificRoutes[k], SpatialRoute) /\ ~Takes(SpecificRoutes[k], FilesRoute)
    BY SpecificPlain, PlainVersusWide, DeviceTakesNone
  <2>2. QED
    BY <1>5, <2>1, SpecificOrdered DEF Apart
<1>11. Apart(spatial, files)
  BY <1>5, SpatialTakesNone DEF Apart
<1>12. ASSUME NEW q \in Seq(S), NEW t \in Seq(S)
       PROVE  q \o t \in Seq(S) /\ Len(q \o t) = Len(q) + Len(t)
  BY Joined
<1>13. BosRoutes \in Seq(S) /\ Len(BosRoutes) = 28 /\ Ordered(BosRoutes) /\ Apart(BosRoutes, files)
  <2>1. BosRoutes \in Seq(S) /\ Len(BosRoutes) = Len(SpecificRoutes) + Len(spatial)
    BY <1>4, <1>6, <1>12
  <2>2. Ordered(BosRoutes)
    BY <1>4, <1>6, <1>7, <1>10, SpecificOrdered, OrderedJoin
  <2>3. Apart(BosRoutes, files)
    BY <1>4, <1>6, <1>10, <1>11, ApartJoin
  <2>4. QED
    BY <1>3, <1>5, <2>1, <2>2, <2>3
<1>14. Apart(ResourceRoutes, BosRoutes) /\ Apart(PageRoutes, BosRoutes)
  <2>1. \A k \in DOMAIN BosRoutes :
          BosRoutes[k] = SpatialRoute \/ \E n \in 1 .. 27 : BosRoutes[k] = SpecificRoutes[n]
    BY BosElements
  <2>2. QED
    BY <1>5, <1>8, <1>9, <2>1, TablesApart, SpecificOrdered DEF Apart
<1>15. pages \in Seq(S) /\ Len(pages) = 30 /\ Ordered(pages)
       /\ Apart(pages, BosRoutes) /\ Apart(pages, files)
  <2>1. pages \in Seq(S) /\ Len(pages) = Len(ResourceRoutes) + Len(PageRoutes)
    BY <1>4, <1>12
  <2>2. Ordered(pages)
    BY <1>4, TablesApart, OrderedJoin
  <2>3. Apart(pages, BosRoutes) /\ Apart(pages, files)
    BY <1>4, <1>8, <1>9, <1>14, ApartJoin
  <2>4. QED
    BY <1>1, <1>2, <2>1, <2>2, <2>3
<1> HIDE DEF pages
<1>16. all \in Seq(S) /\ Len(all) = 58 /\ Ordered(all) /\ Apart(all, files)
  <2>1. all \in Seq(S) /\ Len(all) = Len(pages) + Len(BosRoutes)
    <3>1. pages \in Seq(S) /\ BosRoutes \in Seq(S)
      BY <1>13, <1>15
    <3>2. QED
      BY <1>12, <3>1
  <2>2. Ordered(all)
    BY <1>13, <1>15, OrderedJoin
  <2>3. Apart(all, files)
    BY <1>13, <1>15, ApartJoin
  <2>4. QED
    BY <1>13, <1>15, <2>1, <2>2, <2>3
<1> HIDE DEF all
<1>17. whole \in Seq(S) /\ Len(whole) = 59 /\ Ordered(whole)
  <2>1. whole \in Seq(S) /\ Len(whole) = Len(all) + Len(files)
    <3>1. all \in Seq(S)
      BY <1>16
    <3>2. QED
      BY <1>4, <1>12, <3>1
  <2>2. Ordered(whole)
    BY <1>4, <1>7, <1>16, OrderedJoin
  <2>3. QED
    BY <1>5, <1>16, <2>1, <2>2
<1>18. QED
  BY <1>1, <1>2, <1>4, <1>13, <1>15, <1>16, <1>17, TablesApart DEF pages, all, files

\* A route takes what it is asked for.
LEMMA OwnRequest ==
  /\ \A k \in 1 .. 17 : Matches(ResourceRoutes[k], ResourceRoutes[k].m, Sample(ResourceRoutes[k]))
  /\ \A k \in 1 .. 13 : Matches(PageRoutes[k], PageRoutes[k].m, Sample(PageRoutes[k]))
  /\ \A k \in 1 .. 27 : Matches(SpecificRoutes[k], SpecificRoutes[k].m, Sample(SpecificRoutes[k]))
  /\ Matches(SpatialRoute, SpatialRoute.m, Sample(SpatialRoute))
<1>1. ASSUME NEW r, Plain(r) PROVE Matches(r, r.m, Sample(r))
  BY <1>1, PlainSample DEF Matches, Plain
<1>2. ASSUME NEW k \in 22 .. 24
      PROVE  Matches(SpecificRoutes[k], SpecificRoutes[k].m, Sample(SpecificRoutes[k]))
  <2> DEFINE at == <<"bos", "device", "*">>
             p == <<"bos", "device", "x">>
             r == SpecificRoutes[k]
  <2>1. ASSUME NEW S, NEW a \in Seq(S), NEW b \in Seq(S), Len(a) = 3, Len(b) = 3, a[1] = b[1], a[2] = b[2]
        PROVE  SubSeq(a, 1, 2) = SubSeq(b, 1, 2)
    BY <2>1
  <2>2. /\ at \in Seq({"bos", "device", "*", "x"}) /\ Len(at) = 3 /\ at[1] = "bos" /\ at[2] = "device"
        /\ p \in Seq({"bos", "device", "*", "x"}) /\ Len(p) = 3 /\ p[1] = "bos" /\ p[2] = "device"
        /\ at[3] = "*" /\ 3 - 1 = 2 /\ 3 >= 3
    OBVIOUS
  <2>3. r.at = at /\ Sample(r) = p
    BY DeviceRoutes
  <2> HIDE DEF at, p, r
  <2>4. SubSeq(p, 1, 2) = SubSeq(at, 1, 2)
    BY <2>1, <2>2
  <2>5. Matches(r, r.m, Sample(r))
    BY <2>2, <2>3, <2>4 DEF Matches
  <2>6. QED
    BY <2>5 DEF r
<1>3. Matches(SpatialRoute, SpatialRoute.m, Sample(SpatialRoute))
  <2> DEFINE at == <<"bos", "*">>
             p == <<"bos", "x">>
             r == SpatialRoute
  <2>1. ASSUME NEW S, NEW a \in Seq(S), NEW b \in Seq(S), Len(a) = 2, Len(b) = 2, a[1] = b[1]
        PROVE  SubSeq(a, 1, 1) = SubSeq(b, 1, 1)
    BY <2>1
  <2>2. /\ at \in Seq({"bos", "*", "x"}) /\ Len(at) = 2 /\ at[1] = "bos"
        /\ p \in Seq({"bos", "*", "x"}) /\ Len(p) = 2 /\ p[1] = "bos"
        /\ at[2] = "*" /\ 2 - 1 = 1 /\ 2 >= 2
    OBVIOUS
  <2>3. r.at = at /\ Sample(r) = p
    BY WideRoutes
  <2> HIDE DEF at, p, r
  <2>4. SubSeq(p, 1, 1) = SubSeq(at, 1, 1)
    BY <2>1, <2>2
  <2>5. Matches(r, r.m, Sample(r))
    BY <2>2, <2>3, <2>4 DEF Matches
  <2>6. QED
    BY <2>5 DEF r
<1>4. \A k \in 1 .. 27 : Matches(SpecificRoutes[k], SpecificRoutes[k].m, Sample(SpecificRoutes[k]))
  BY <1>1, <1>2, SpecificPlain
<1>5. \A k \in 1 .. 17 : Matches(ResourceRoutes[k], ResourceRoutes[k].m, Sample(ResourceRoutes[k]))
  BY <1>1, ResourcesPlain
<1>6. \A k \in 1 .. 13 : Matches(PageRoutes[k], PageRoutes[k].m, Sample(PageRoutes[k]))
  BY <1>1, PagesPlain
<1>7. QED
  BY <1>3, <1>4, <1>5, <1>6

\* httpd takes Thread's resources and the pages.
LEMMA PagesRegistered ==
  ASSUME ExternalMax \in Nat
  PROVE  RegisterAll(RegisterAll(<<>>, ResourceRoutes), PageRoutes) = ResourceRoutes \o PageRoutes
<1> DEFINE pages == ResourceRoutes \o PageRoutes
<1>1. PICK S : /\ {ResourceRoutes, PageRoutes, pages} \subseteq Seq(S)
               /\ Len(ResourceRoutes) = 17 /\ Len(PageRoutes) = 13 /\ Len(pages) = 30
               /\ Ordered(ResourceRoutes) /\ Ordered(pages)
  BY WholeTable
<1>2. RouteMax \in Nat /\ RouteMax >= 32
  BY <1>1 DEF RouteMax
<1>3. RegisterAll(<<>>, ResourceRoutes) = ResourceRoutes
  <2>1. ASSUME NEW T, NEW q \in Seq(T) PROVE <<>> \in Seq(T) /\ <<>> \o q = q
    OBVIOUS
  <2>2. /\ ResourceRoutes \in Seq(S) /\ <<>> \in Seq(S) /\ <<>> \o ResourceRoutes = ResourceRoutes
    <3>1. ResourceRoutes \in Seq(S)
      BY <1>1
    <3>2. QED
      BY <2>1, <3>1, Zenon
  <2>3. Len(ResourceRoutes) <= RouteMax /\ Ordered(ResourceRoutes)
    BY <1>1, <1>2
  <2>4. QED
    BY <1>2, <2>2, <2>3, Registered
<1>4. RegisterAll(ResourceRoutes, PageRoutes) = pages
  <2>1. /\ ResourceRoutes \in Seq(S) /\ PageRoutes \in Seq(S) /\ Ordered(pages) /\ Len(pages) <= RouteMax
    BY <1>1, <1>2
  <2>2. QED
    BY <1>2, <2>1, Registered
<1>5. QED
  BY <1>3, <1>4

\* The table of a server that was started with all of the building's routes.
WholeServer == ((ResourceRoutes \o PageRoutes) \o BosRoutes) \o <<FilesRoute>>

LEMMA Startup ==
  ASSUME ExternalMax \in Nat, ExternalMax >= Len(BosRoutes), external = BosRoutes, StartHttpServer
  PROVE  table' \in {WholeServer, <<>>}
<1> DEFINE pages == ResourceRoutes \o PageRoutes
           all == pages \o BosRoutes
           files == <<FilesRoute>>
<1>1. PICK S : /\ {ResourceRoutes, PageRoutes, BosRoutes, pages, all, all \o files} \subseteq Seq(S)
               /\ FilesRoute \in S
               /\ Len(ResourceRoutes) = 17 /\ Len(PageRoutes) = 13 /\ Len(BosRoutes) = 28
               /\ Len(pages) = 30 /\ Len(all) = 58
               /\ Ordered(ResourceRoutes) /\ Ordered(pages) /\ Ordered(all)
               /\ Apart(all, files)
  BY WholeTable
<1>2. RouteMax \in Nat /\ RouteMax >= 60
  BY <1>1 DEF RouteMax
<1>3. RegisterAll(RegisterAll(<<>>, ResourceRoutes), PageRoutes) = pages
  BY PagesRegistered
<1>5. RegisterAll(pages, BosRoutes) = all
  <2>1. /\ pages \in Seq(S) /\ BosRoutes \in Seq(S) /\ Ordered(all) /\ Len(all) <= RouteMax
    BY <1>1, <1>2
  <2> HIDE DEF pages
  <2>2. QED
    BY <1>2, <2>1, Registered
<1>6. Registrable(all, FilesRoute)
  <2>1. DOMAIN files = {1} /\ files[1] = FilesRoute
    OBVIOUS
  <2>2. \A i \in DOMAIN all : ~Matches(all[i], FilesRoute.m, FilesRoute.at)
    BY <1>1, <2>1 DEF Apart, Takes
  <2> HIDE DEF all
  <2>3. {i \in DOMAIN all : Matches(all[i], FilesRoute.m, FilesRoute.at)} = {}
    BY <2>2
  <2>4. Dispatch(all, FilesRoute.m, FilesRoute.at) = NoRoute
    BY <2>3, Zenon DEF Dispatch
  <2>5. Len(all) < RouteMax
    BY <1>1, <1>2
  <2>6. QED
    BY <2>4, <2>5 DEF Registrable
<1>7. Append(all, FilesRoute) = all \o files
  <2>1. all \in Seq(S) /\ FilesRoute \in S
    BY <1>1
  <2> HIDE DEF all
  <2>2. QED
    BY <2>1
<1>8. table' \in {Append(all, FilesRoute), <<>>}
  <2>1. RegisterAll(RegisterAll(RegisterAll(<<>>, ResourceRoutes), PageRoutes), external) = all
    BY <1>3, <1>5
  <2> HIDE DEF all
  <2>2. QED
    BY <1>6, <2>1 DEF StartHttpServer
<1>9. QED
  BY <1>7, <1>8 DEF WholeServer

\* Once app_main has gone on, the building's routes are all stored or none is, and
\* a server that runs with them has the whole table.
RoutesInv ==
  /\ app \in {"init", "routes", "connect", "up"}
  /\ app = "init" => external = <<>> /\ todo = BosRoutes
  /\ app = "routes" =>
       \E k \in 0 .. Len(BosRoutes) :
         /\ external = SubSeq(BosRoutes, 1, k) /\ todo = SubSeq(BosRoutes, k + 1, Len(BosRoutes))
  /\ app \in {"init", "routes"} => table = <<>>
  /\ app \in {"connect", "up"} => external \in {<<>>, BosRoutes}
  /\ table # <<>> /\ external # <<>> => table = WholeServer

LEMMA BosIs == \E S : BosRoutes \in Seq(S) /\ Len(BosRoutes) = 28
  BY WholeTable

LEMMA RouteStored ==
  ASSUME ExternalMax \in Nat, ExternalMax >= Len(BosRoutes), RoutesInv, RegisterRoute
  PROVE  RoutesInv'
<1>1. PICK S : BosRoutes \in Seq(S) /\ Len(BosRoutes) = 28
  BY BosIs
<1>2. app = "routes" /\ todo # <<>> /\ table = <<>>
  BY DEF RegisterRoute, RoutesInv
<1>3. PICK k \in 0 .. 28 : external = SubSeq(BosRoutes, 1, k) /\ todo = SubSeq(BosRoutes, k + 1, 28)
  BY <1>1, <1>2 DEF RoutesInv
<1>4. ASSUME NEW q \in Seq(S), NEW n \in Nat, Len(q) = n, NEW j \in 0 .. n
      PROVE  /\ Len(SubSeq(q, 1, j)) = j
             /\ j = n => SubSeq(q, j + 1, n) = <<>>
             /\ j < n => /\ Append(SubSeq(q, 1, j), Head(SubSeq(q, j + 1, n))) = SubSeq(q, 1, j + 1)
                         /\ Tail(SubSeq(q, j + 1, n)) = SubSeq(q, j + 2, n)
  <2>1. Len(SubSeq(q, 1, j)) = j /\ (j = n => SubSeq(q, j + 1, n) = <<>>)
    BY <1>4
  <2>2. CASE j < n
    <3>1. Head(SubSeq(q, j + 1, n)) = q[j + 1] /\ q[j + 1] \in S
      BY <1>4, <2>2
    <3>2. Append(SubSeq(q, 1, j), q[j + 1]) = SubSeq(q, 1, j + 1)
      BY <1>4, <2>2
    <3>3. Tail(SubSeq(q, j + 1, n)) = SubSeq(q, j + 2, n)
      BY <1>4, <2>2
    <3>4. QED
      BY <2>1, <3>1, <3>2, <3>3
  <2>3. QED
    BY <2>1, <2>2, <1>4
<1>5. k < 28 /\ Len(external) = k
  BY <1>1, <1>2, <1>3, <1>4
<1>6. /\ external' = Append(external, Head(todo)) /\ todo' = Tail(todo)
      /\ table' = <<>> /\ app' = "routes"
  BY <1>1, <1>2, <1>5 DEF RegisterRoute
<1>7. external' = SubSeq(BosRoutes, 1, k + 1) /\ todo' = SubSeq(BosRoutes, (k + 1) + 1, 28)
  <2>1. BosRoutes \in Seq(S) /\ 28 \in Nat /\ Len(BosRoutes) = 28 /\ k \in 0 .. 28
    BY <1>1
  <2>2. /\ Append(SubSeq(BosRoutes, 1, k), Head(SubSeq(BosRoutes, k + 1, 28))) = SubSeq(BosRoutes, 1, k + 1)
        /\ Tail(SubSeq(BosRoutes, k + 1, 28)) = SubSeq(BosRoutes, k + 2, 28)
    BY <1>4, <1>5, <2>1, Zenon
  <2>3. (k + 1) + 1 = k + 2
    OBVIOUS
  <2>4. QED
    BY <1>3, <1>6, <2>2, <2>3, Zenon
<1>8. k + 1 \in 0 .. Len(BosRoutes) /\ external' # <<>> /\ Len(BosRoutes) = 28
  <2>1. Len(external') = Len(external) + 1 /\ Len(<<>>) = 0
    BY <1>1, <1>3, <1>4, <1>5, <1>7
  <2>2. QED
    BY <1>1, <1>5, <2>1
<1>9. \E n \in 0 .. Len(BosRoutes) :
        external' = SubSeq(BosRoutes, 1, n) /\ todo' = SubSeq(BosRoutes, n + 1, Len(BosRoutes))
  BY <1>7, <1>8, Zenon
<1>10. QED
  BY <1>6, <1>9 DEF RoutesInv

LEMMA RoutesKeep ==
  ASSUME ExternalMax \in Nat, ExternalMax >= Len(BosRoutes), RoutesInv, ServerNext
  PROVE  RoutesInv'
<1>1. PICK S : BosRoutes \in Seq(S) /\ Len(BosRoutes) = 28
  BY BosIs
<1>2. CASE DiagnosticsInit
  <2>1. SubSeq(BosRoutes, 1, 0) = <<>> /\ SubSeq(BosRoutes, 1, 28) = BosRoutes
    BY <1>1
  <2>2. QED
    BY <1>1, <1>2, <2>1 DEF DiagnosticsInit, RoutesInv
<1>3. CASE RegisterRoute
  BY <1>3, RouteStored
<1>4. CASE RoutesRegistered
  <2>1. app = "routes" /\ todo = <<>> /\ app' = "connect" /\ UNCHANGED <<todo, external, table>>
    BY <1>4 DEF RoutesRegistered
  <2>2. PICK k \in 0 .. 28 : external = SubSeq(BosRoutes, 1, k) /\ todo = SubSeq(BosRoutes, k + 1, 28)
    BY <1>1, <2>1 DEF RoutesInv
  <2>3. Len(SubSeq(BosRoutes, k + 1, 28)) = 28 - k
    BY <1>1
  <2>4. k = 28
    BY <2>1, <2>2, <2>3
  <2>5. external = BosRoutes
    BY <1>1, <2>2, <2>4
  <2>6. QED
    BY <2>1, <2>5 DEF RoutesInv
<1>5. CASE GotIp
  <2>1. app \in {"connect", "up"} /\ app' = "up" /\ UNCHANGED <<todo, external>>
    BY <1>5 DEF GotIp
  <2>2. external \in {<<>>, BosRoutes}
    BY <2>1 DEF RoutesInv
  <2>3. table' # <<>> /\ external # <<>> => table' = WholeServer
    BY <1>5, <2>2, Startup DEF GotIp, RoutesInv
  <2>4. QED
    BY <2>1, <2>2, <2>3 DEF RoutesInv
<1>6. ASSUME NEW path \in Paths, Request(path) PROVE RoutesInv'
  BY <1>6 DEF Request, RoutesInv
<1>7. QED
  BY <1>2, <1>3, <1>4, <1>5, <1>6 DEF ServerNext

LEMMA WholeAnswers ==
  ASSUME NEW i \in DOMAIN (BosRoutes \o ResourceRoutes \o PageRoutes)
  PROVE  LET r == (BosRoutes \o ResourceRoutes \o PageRoutes)[i]
         IN  Dispatch(WholeServer, r.m, Sample(r)) = r
<1> DEFINE listed == (BosRoutes \o ResourceRoutes) \o PageRoutes
           front == BosRoutes \o ResourceRoutes
           pages == ResourceRoutes \o PageRoutes
           all == pages \o BosRoutes
           files == <<FilesRoute>>
           r == listed[i]
<1>1. PICK S : /\ {ResourceRoutes, PageRoutes, BosRoutes, pages, all, all \o files} \subseteq Seq(S)
               /\ FilesRoute \in S /\ Ordered(all \o files)
  BY WholeTable
<1>2. ASSUME NEW q \in Seq(S), NEW t \in Seq(S)
      PROVE  /\ q \o t \in Seq(S)
             /\ \A j \in DOMAIN (q \o t) : \/ \E k \in DOMAIN q : (q \o t)[j] = q[k]
                                           \/ \E k \in DOMAIN t : (q \o t)[j] = t[k]
             /\ \A k \in DOMAIN q : \E j \in DOMAIN (q \o t) : (q \o t)[j] = q[k]
             /\ \A k \in DOMAIN t : \E j \in DOMAIN (q \o t) : (q \o t)[j] = t[k]
  <2>1. ASSUME NEW j \in DOMAIN (q \o t)
        PROVE  \/ \E k \in DOMAIN q : (q \o t)[j] = q[k]
               \/ \E k \in DOMAIN t : (q \o t)[j] = t[k]
    <3>1. CASE j <= Len(q)
      BY <3>1
    <3>2. CASE j > Len(q)
      <4>1. j - Len(q) \in DOMAIN t /\ (q \o t)[j] = t[j - Len(q)]
        BY <3>2
      <4>2. QED
        BY <4>1
    <3>3. QED
      BY <3>1, <3>2
  <2>2. ASSUME NEW k \in DOMAIN q PROVE \E j \in DOMAIN (q \o t) : (q \o t)[j] = q[k]
    <3>1. k \in DOMAIN (q \o t) /\ (q \o t)[k] = q[k]
      OBVIOUS
    <3>2. QED
      BY <3>1
  <2>3. ASSUME NEW k \in DOMAIN t PROVE \E j \in DOMAIN (q \o t) : (q \o t)[j] = t[k]
    <3>1. Len(q) + k \in DOMAIN (q \o t) /\ (q \o t)[Len(q) + k] = t[k]
      OBVIOUS
    <3>2. QED
      BY <3>1
  <2>4. q \o t \in Seq(S)
    OBVIOUS
  <2>5. QED
    BY <2>1, <2>2, <2>3, <2>4, Zenon
<1>3. \/ \E k \in DOMAIN BosRoutes : r = BosRoutes[k]
      \/ \E k \in DOMAIN ResourceRoutes : r = ResourceRoutes[k]
      \/ \E k \in DOMAIN PageRoutes : r = PageRoutes[k]
  <2>1. front \in Seq(S) /\ PageRoutes \in Seq(S) /\ BosRoutes \in Seq(S) /\ ResourceRoutes \in Seq(S)
    BY <1>1, <1>2
  <2>2. (\E k \in DOMAIN front : r = front[k]) \/ \E k \in DOMAIN PageRoutes : r = PageRoutes[k]
    <3> HIDE DEF front
    <3>1. \A j \in DOMAIN (front \o PageRoutes) :
            \/ \E k \in DOMAIN front : (front \o PageRoutes)[j] = front[k]
            \/ \E k \in DOMAIN PageRoutes : (front \o PageRoutes)[j] = PageRoutes[k]
      BY <1>2, <2>1
    <3>2. QED
      BY <3>1 DEF front
  <2>3. \A k \in DOMAIN front : \/ \E n \in DOMAIN BosRoutes : front[k] = BosRoutes[n]
                                \/ \E n \in DOMAIN ResourceRoutes : front[k] = ResourceRoutes[n]
    BY <1>2, <2>1
  <2> HIDE DEF front, r
  <2>4. ASSUME NEW k \in DOMAIN front, r = front[k]
        PROVE  \/ \E n \in DOMAIN BosRoutes : r = BosRoutes[n]
               \/ \E n \in DOMAIN ResourceRoutes : r = ResourceRoutes[n]
    BY <2>3, <2>4, Zenon
  <2>5. QED
    BY <2>2, <2>4, Zenon
<1> HIDE DEF r
<1>4. Matches(r, r.m, Sample(r))
  <2>1. \A k \in DOMAIN BosRoutes : BosRoutes[k] = SpatialRoute \/ \E n \in 1 .. 27 : BosRoutes[k] = SpecificRoutes[n]
    BY BosElements
  <2>2. QED
    BY <1>3, <2>1, OwnRequest, TablesApart
<1>5. \E j \in DOMAIN (all \o files) : (all \o files)[j] = r
  <2>1. /\ pages \in Seq(S) /\ BosRoutes \in Seq(S) /\ ResourceRoutes \in Seq(S) /\ PageRoutes \in Seq(S)
        /\ all \in Seq(S) /\ files \in Seq(S)
    BY <1>1
  <2>2. \E k \in DOMAIN all : all[k] = r
    <3>1. \A k \in DOMAIN BosRoutes : \E j \in DOMAIN all : all[j] = BosRoutes[k]
      BY <1>2, <2>1, Zenon
    <3>2. \A k \in DOMAIN pages : \E j \in DOMAIN all : all[j] = pages[k]
      BY <1>2, <2>1, Zenon
    <3>3. /\ \A k \in DOMAIN ResourceRoutes : \E j \in DOMAIN pages : pages[j] = ResourceRoutes[k]
          /\ \A k \in DOMAIN PageRoutes : \E j \in DOMAIN pages : pages[j] = PageRoutes[k]
      BY <1>2, <2>1, Zenon
    <3> HIDE DEF pages, all
    <3>4. CASE \E k \in DOMAIN BosRoutes : r = BosRoutes[k]
      <4>1. PICK k \in DOMAIN BosRoutes : r = BosRoutes[k]
        BY <3>4, Zenon
      <4>2. QED
        BY <3>1, <4>1, Zenon
    <3>5. ASSUME NEW n \in DOMAIN pages, pages[n] = r PROVE \E k \in DOMAIN all : all[k] = r
      BY <3>2, <3>5, Zenon
    <3>6. CASE \E k \in DOMAIN ResourceRoutes : r = ResourceRoutes[k]
      <4>1. PICK k \in DOMAIN ResourceRoutes : r = ResourceRoutes[k]
        BY <3>6, Zenon
      <4>2. PICK n \in DOMAIN pages : pages[n] = ResourceRoutes[k]
        BY <3>3, <4>1, Zenon
      <4>3. QED
        BY <3>5, <4>1, <4>2, Zenon
    <3>7. CASE \E k \in DOMAIN PageRoutes : r = PageRoutes[k]
      <4>1. PICK k \in DOMAIN PageRoutes : r = PageRoutes[k]
        BY <3>7, Zenon
      <4>2. PICK n \in DOMAIN pages : pages[n] = PageRoutes[k]
        BY <3>3, <4>1, Zenon
      <4>3. QED
        BY <3>5, <4>1, <4>2, Zenon
    <3>8. QED
      BY <1>3, <3>4, <3>6, <3>7, Zenon
  <2>3. \A k \in DOMAIN all : \E j \in DOMAIN (all \o files) : (all \o files)[j] = all[k]
    BY <1>2, <2>1, Zenon
  <2> HIDE DEF all, files
  <2>4. QED
    BY <2>2, <2>3, Zenon
<1>6. WholeServer = all \o files
  BY DEF WholeServer
<1>7. QED
  <2>1. WholeServer \in Seq(S) /\ Ordered(WholeServer)
    BY <1>1, <1>6
  <2>2. PICK j \in DOMAIN WholeServer : WholeServer[j] = r
    BY <1>5, <1>6
  <2>3. Dispatch(WholeServer, r.m, Sample(r)) = r
    <3>1. Matches(WholeServer[j], WholeServer[j].m, Sample(WholeServer[j]))
      BY <1>4, <2>2
    <3>2. Dispatch(WholeServer, WholeServer[j].m, Sample(WholeServer[j])) = WholeServer[j]
      BY <2>1, <3>1, AskedIsAnswered
    <3>3. QED
      BY <2>2, <3>2
  <2>4. QED
    BY <2>3 DEF r

LEMMA RoutesAlways ==
  ASSUME ExternalMax \in Nat, ExternalMax >= Len(BosRoutes)
  PROVE  Spec => []RoutesInv
<1>1. Init => RoutesInv
  BY DEF Init, ServerInit, RoutesInv
<1>2. RoutesInv /\ [Next]_vars => RoutesInv'
  <2>1. ASSUME RoutesInv, UNCHANGED serverVars PROVE RoutesInv'
    BY <2>1 DEF RoutesInv, serverVars
  <2>2. QED
    BY <2>1, RoutesKeep DEF Next, vars, ServerPart, JoinPart, TopologyPart, PingPart, WifiPart
<1>3. QED
  BY <1>1, <1>2, PTL DEF Spec

\* A server with room for the building's 28 routes answers every one of them, and
\* Thread's and the pages', with its own handler (EveryRouteAnswers;
\* esp_br_web_register_handler, start_esp_br_http_server).
THEOREM RoutesAnswer ==
  ASSUME ExternalMax \in Nat, ExternalMax >= Len(BosRoutes)
  PROVE  Spec => []EveryRouteAnswers
<1>1. RoutesInv => EveryRouteAnswers
  BY WholeAnswers DEF RoutesInv, EveryRouteAnswers
<1>2. QED
  BY <1>1, RoutesAlways, PTL

-----------------------------------------------------------------------------
(* Types. *)

\* A server that starts before the building's routes, or without them, has room
\* for all it registers.
LEMMA TableFits ==
  ASSUME ExternalMax \in Nat, ExternalMax >= Len(BosRoutes), external \in {<<>>, BosRoutes},
         StartHttpServer
  PROVE  Len(table') <= RouteMax
<1> DEFINE pages == ResourceRoutes \o PageRoutes
           all == RegisterAll(pages, external)
<1>1. PICK S : /\ {ResourceRoutes, PageRoutes, BosRoutes, pages, pages \o BosRoutes} \subseteq Seq(S)
               /\ FilesRoute \in S
               /\ Len(ResourceRoutes) = 17 /\ Len(PageRoutes) = 13 /\ Len(BosRoutes) = 28
               /\ Len(pages) = 30 /\ Len(pages \o BosRoutes) = 58
               /\ Ordered(pages) /\ Ordered(pages \o BosRoutes)
  BY WholeTable
<1>2. RouteMax \in Nat /\ RouteMax >= 60
  BY <1>1 DEF RouteMax
<1>3. \E k \in 0 .. 58 : all \in Seq(S) /\ Len(all) = k
  <2>1. CASE external = BosRoutes
    <3>1. /\ pages \in Seq(S) /\ BosRoutes \in Seq(S) /\ Ordered(pages \o BosRoutes)
          /\ Len(pages \o BosRoutes) <= RouteMax
      BY <1>1, <1>2
    <3>2. pages \o BosRoutes \in Seq(S) /\ Len(pages \o BosRoutes) \in 0 .. 58
      BY <1>1
    <3> HIDE DEF pages
    <3>3. RegisterAll(pages, BosRoutes) = pages \o BosRoutes
      BY <1>2, <3>1, Registered
    <3>4. QED
      BY <2>1, <3>2, <3>3
  <2>2. CASE external = <<>>
    <3>1. pages \in Seq(S) /\ Ordered(pages) /\ Len(pages) <= RouteMax /\ Len(pages) \in 0 .. 58
      BY <1>1, <1>2
    <3> HIDE DEF pages
    <3>2. pages \o <<>> = pages /\ <<>> \in Seq(S)
      BY <3>1
    <3>3. RegisterAll(pages, <<>>) = pages
      BY <1>2, <3>1, <3>2, Registered
    <3>4. QED
      BY <2>2, <3>1, <3>3
  <2>3. QED
    BY <2>1, <2>2
<1>4. \/ table' \in {all, <<>>}
      \/ table' = Append(all, FilesRoute)
  <2>1. RegisterAll(RegisterAll(RegisterAll(<<>>, ResourceRoutes), PageRoutes), external) = all
    BY PagesRegistered
  <2> HIDE DEF all
  <2>2. QED
    BY <2>1 DEF StartHttpServer
<1>5. QED
  <2> HIDE DEF all
  <2>1. Len(Append(all, FilesRoute)) = Len(all) + 1 /\ Len(<<>>) = 0
    BY <1>1, <1>3
  <2>2. QED
    BY <1>2, <1>3, <1>4, <2>1

LEMMA ServerTyped ==
  ASSUME ExternalMax \in Nat, ExternalMax >= Len(BosRoutes), RoutesInv, RoutesInv', ServerTypeOK,
         ServerNext
  PROVE  ServerTypeOK'
<1>1. PICK S : BosRoutes \in Seq(S) /\ Len(BosRoutes) = 28
  BY BosIs
<1>2. Len(external') <= ExternalMax
  <2>1. external' = <<>> \/ external' = BosRoutes \/ \E k \in 0 .. 28 : external' = SubSeq(BosRoutes, 1, k)
    BY <1>1 DEF RoutesInv
  <2>2. \A k \in 0 .. 28 : Len(SubSeq(BosRoutes, 1, k)) = k
    BY <1>1
  <2>3. CASE external' = <<>> \/ external' = BosRoutes
    <3>1. Len(<<>>) = 0
      OBVIOUS
    <3>2. Len(external') \in {0, 28}
      BY <1>1, <2>3, <3>1, Zenon
    <3>3. \A n \in {0, 28} : n <= ExternalMax
      BY <1>1
    <3>4. QED
      BY <3>2, <3>3, Zenon
  <2>4. CASE \E k \in 0 .. 28 : external' = SubSeq(BosRoutes, 1, k)
    BY <1>1, <2>2, <2>4
  <2>5. QED
    BY <2>1, <2>3, <2>4
<1>3. Len(table') <= RouteMax
  <2>1. CASE GotIp
    BY <2>1, TableFits DEF GotIp, RoutesInv, ServerTypeOK
  <2>2. CASE app' \in {"init", "routes"} \/ app = "routes"
    <3>1. table' = <<>>
      BY <2>2 DEF RoutesInv, ServerNext, DiagnosticsInit, RegisterRoute, RoutesRegistered, GotIp, Request
    <3>2. RouteMax \in Nat
      <4>1. PICK T : Len(ResourceRoutes) = 17 /\ Len(PageRoutes) = 13 /\ BosRoutes \in Seq(T)
        BY WholeTable
      <4>2. QED
        BY <4>1 DEF RouteMax
    <3>3. QED
      BY <3>1, <3>2
  <2>3. QED
    BY <2>1, <2>2 DEF ServerNext, DiagnosticsInit, RegisterRoute, RoutesRegistered, Request, ServerTypeOK,
         RoutesInv
<1>4. QED
  BY <1>2, <1>3 DEF RoutesInv, ServerTypeOK

LEMMA JoinTyped ==
  ASSUME JoinTypeOK, JoinNext
  PROVE  JoinTypeOK'
<1>1. CASE ScanStarts \/ ScanDone \/ ScanAnswers \/ \E n \in Networks : ScanFinds(n)
  BY <1>1 DEF JoinTypeOK, ScanStarts, ScanDone, ScanAnswers, ScanFinds, Answers, sessionVars, prefixVars
<1>2. CASE JoinByKey
  <2>1. thread \in BOOLEAN /\ ip6 \in BOOLEAN
    BY DEF JoinTypeOK
  <2>2. thread' \in BOOLEAN /\ ip6' \in BOOLEAN
    <3>1. \A x, y \in BOOLEAN : <<x, y>>[1] \in BOOLEAN /\ <<x, y>>[2] \in BOOLEAN
      OBVIOUS
    <3>2. FALSE \in BOOLEAN /\ TRUE \in BOOLEAN
      OBVIOUS
    <3>3. ASSUME NEW t \in {<<thread, ip6>>, <<FALSE, ip6>>, <<FALSE, FALSE>>, <<FALSE, TRUE>>}
          PROVE  t[1] \in BOOLEAN /\ t[2] \in BOOLEAN
      <4>1. \E x, y \in BOOLEAN : t = <<x, y>>
        BY <2>1, <3>2, Zenon
      <4>2. QED
        BY <3>1, <4>1, Zenon
    <3>4. QED
      BY <1>2, <2>1, <3>3 DEF JoinByKey
  <2>3. /\ page' = "idle" /\ netData' = netData
        /\ onMesh' = onMesh \/ \E x \in Prefixes : onMesh' = onMesh \cup {x}
        /\ UNCHANGED <<mine, discoverVars, sessionVars>>
    BY <1>2 DEF JoinByKey, Answers, prefixVars
  <2>4. QED
    BY <2>2, <2>3 DEF JoinTypeOK, discoverVars, sessionVars
<1>3. CASE JoinByPskd
  <2>1. /\ page' \in {"idle", "wait"} /\ joinState' = "generic" /\ thread' = FALSE /\ ip6' = TRUE
        /\ UNCHANGED <<discoverVars, joinTok, joined, prefixVars>>
    BY <1>3 DEF JoinByPskd, Answers
  <2>2. {mine', joiner', sessions'} \subseteq 0 .. SessionMax
    <3>1. \/ sessions < SessionMax /\ sessions' = sessions + 1 /\ joiner' = sessions + 1 /\ mine' = sessions + 1
          \/ UNCHANGED <<sessions, joiner, mine>>
      BY <1>3 DEF JoinByPskd
    <3>2. mine \in 0 .. SessionMax /\ joiner \in 0 .. SessionMax /\ sessions \in 0 .. SessionMax
      BY DEF JoinTypeOK
    <3>3. QED
      BY <3>1, <3>2, JoinAssumption
  <2>3. QED
    BY <2>1, <2>2 DEF JoinTypeOK, discoverVars, prefixVars
<1>4. CASE JoinTakes \/ JoinTimesOut \/ JoinDecides
  BY <1>4 DEF JoinTypeOK, JoinTakes, JoinTimesOut, JoinDecides, Answers, discoverVars, sessionVars,
              prefixVars
<1>5. ASSUME NEW result \in {"none", "failed"}, JoinerEnds(result) PROVE JoinTypeOK'
  <2>1. joiner \in 1 .. SessionMax
    BY <1>5, JoinAssumption DEF JoinTypeOK, JoinerEnds
  <2>2. QED
    BY <1>5, <2>1, JoinAssumption DEF JoinTypeOK, JoinerEnds, discoverVars, prefixVars
<1>6. ASSUME NEW x \in Prefixes, AddPrefix(x) \/ DeletePrefix(x) PROVE JoinTypeOK'
  BY <1>6 DEF JoinTypeOK, AddPrefix, DeletePrefix, Publishes, Answers, discoverVars, sessionVars,
              prefixVars
<1>7. QED
  BY <1>1, <1>2, <1>3, <1>4, <1>5, <1>6 DEF JoinNext, JoinStep

LEMMA DiagTyped ==
  ASSUME DiagTypeOK, DiagNext
  PROVE  DiagTypeOK'
<1>1. TickSpan \in Nat /\ TickSpan > 2
  BY DiagAssumption, FS_CardinalityType
<1>2. \A n \in Nat : n % TickSpan \in 0 .. TickSpan - 1
  BY <1>1
<1>3. CASE DiagBegins
  BY <1>1, <1>3 DEF DiagTypeOK, DiagBegins, requestVars
<1>4. CASE DiagSends
  BY <1>4, DiagAssumption DEF DiagTypeOK, DiagSends
<1>5. CASE DiagSamples
  <2>1. tick' \in 0 .. TickSpan - 1
    BY <1>1, <1>2, <1>5 DEF DiagTypeOK, DiagSamples
  <2>2. QED
    BY <1>5, <2>1 DEF DiagTypeOK, DiagSamples
<1>6. CASE DiagDecides
  <2>1. early' \in BOOLEAN
    <3>1. early \in BOOLEAN /\ \A x, y : (x < y) \in BOOLEAN
      BY DEF DiagTypeOK
    <3>2. QED
      BY <1>6, <3>1, Zenon DEF DiagDecides
  <2>2. collector' \in {"end", "poll"}
    BY <1>6 DEF DiagDecides
  <2>3. QED
    BY <1>6, <2>1, <2>2 DEF DiagTypeOK, DiagDecides, requestVars
<1>7. CASE DiagEnds
  <2>1. 0 \in 0 .. TickSpan - 1
    BY <1>1
  <2>2. QED
    BY <1>7, <2>1 DEF DiagTypeOK, DiagEnds
<1>8. ASSUME NEW a \in underWay, DiagAnswer(a) PROVE DiagTypeOK'
  <2>1. {tick', last'} \subseteq 0 .. TickSpan - 1
    BY <1>1, <1>2, <1>8 DEF DiagTypeOK, DiagAnswer
  <2>2. QED
    BY <1>8, <2>1 DEF DiagTypeOK, DiagAnswer, requestVars
<1>9. QED
  BY <1>3, <1>4, <1>5, <1>6, <1>7, <1>8 DEF DiagNext, DiagStep

LEMMA PingTyped ==
  ASSUME PingTypeOK, PingNext
  PROVE  PingTypeOK'
BY PingAssumption DEF PingTypeOK, PingNext, PingStep, PingBegins, PingReply, PingStatistics, PingSends,
     PingTakes, PingTimesOut, PingStops, PingAnswers

Pairs == {<<p[1], q[2]>> : p, q \in Submissions \cup {Empty}}

\* A pair of two halves, each of a submission.
LEMMA Halves ==
  /\ Submissions \cup {Empty} \subseteq Pairs
  /\ \A x, y \in Pairs : <<x[1], y[2]>> \in Pairs
<1>1. \A p \in Submissions \cup {Empty} : p = <<p[1], p[2]>>
  <2>1. Empty = <<Empty[1], Empty[2]>>
    BY DEF Empty
  <2>2. QED
    BY <2>1, WifiAssumption
<1>2. ASSUME NEW x \in Pairs, NEW y \in Pairs PROVE <<x[1], y[2]>> \in Pairs
  <2>1. PICK p, q \in Submissions \cup {Empty} : x = <<p[1], q[2]>>
    BY DEF Pairs
  <2>2. PICK r, s \in Submissions \cup {Empty} : y = <<r[1], s[2]>>
    BY DEF Pairs
  <2>3. <<x[1], y[2]>> = <<p[1], s[2]>>
    BY <2>1, <2>2
  <2>4. QED
    BY <2>3 DEF Pairs
<1>3. QED
  BY <1>1, <1>2 DEF Pairs

\* What the name server does not write.
WifiTyped ==
  /\ {nvs, conf, got} \subseteq Pairs /\ submit \in [pair : Pairs, at : {"idle", "ssid", "password"}]
  /\ {opened, bit, radio, doneBit} \subseteq BOOLEAN
  /\ scan \in {"idle", "start", "wait", "render"} /\ records \in {"none", "found", "freed"}

LEMMA WifiKeeps ==
  ASSUME WifiTyped, mode \in BOOLEAN, WifiNext
  PROVE  WifiTyped'
<1>1. Empty \in Pairs /\ Submissions \subseteq Pairs /\ \A x, y \in Pairs : <<x[1], y[2]>> \in Pairs
  BY Halves
<1>2. NotSubmitting \in [pair : Pairs, at : {"idle", "ssid", "password"}]
  BY <1>1 DEF NotSubmitting
<1>3. CASE WifiRestarts
  BY <1>1, <1>2, <1>3 DEF WifiTyped, WifiRestarts
<1>4. CASE StartStep
  <2>1. CASE ConnectStored \/ ConfigStart \/ GetChecks \/ GetClears \/ GetWakes
    BY <2>1 DEF WifiTyped, ConnectStored, ConfigStart, SoftApStarts, GetChecks, GetClears, GetWakes,
                credVars, scanVars
  <2>2. CASE GetCopiesSsid \/ GetCopiesPassword \/ SaveSsid \/ SavePassword
    BY <1>1, <2>2 DEF WifiTyped, GetCopiesSsid, GetCopiesPassword, SaveSsid, SavePassword,
                      credVars, scanVars
  <2>3. CASE ConfigStop \/ StopCloses \/ StopAwaits \/ StopLooks \/ StopKills \/ Connect
    BY <2>3 DEF WifiTyped, ConfigStop, StopCloses, StopAwaits, StopLooks, StopKills, Connect, credVars, scanVars
  <2>4. CASE StopCleans
    BY <1>1, <2>4 DEF WifiTyped, StopCleans
  <2>5. QED
    BY <1>4, <2>1, <2>2, <2>3, <2>4 DEF StartStep
<1>5. CASE SubmitStoresPassword \/ SubmitSignals
  <2>1. conf \in Pairs /\ submit.pair \in Pairs
    BY DEF WifiTyped
  <2>2. CASE SubmitStoresPassword
    <3>1. conf' \in Pairs
      BY <1>1, <2>1, <2>2 DEF SubmitStoresPassword
    <3>2. submit' \in [pair : Pairs, at : {"idle", "ssid", "password"}]
      BY <2>2 DEF WifiTyped, SubmitStoresPassword
    <3>3. QED
      BY <2>2, <3>1, <3>2 DEF WifiTyped, SubmitStoresPassword, scanVars
  <2>3. CASE SubmitSignals
    BY <1>2, <2>3 DEF WifiTyped, SubmitSignals, scanVars
  <2>4. QED
    BY <1>5, <2>2, <2>3
<1>6. ASSUME NEW p \in Submissions, SubmitStoresSsid(p) PROVE WifiTyped'
  BY <1>1, <1>6 DEF WifiTyped, SubmitStoresSsid, scanVars
<1>7. CASE ScanClears \/ ScanStart \/ ScanWaits \/ ScanRenders \/ ScanIsDone
  BY <1>7 DEF WifiTyped, ScanClears, ScanStart, ScanWaits, ScanRenders, ScanIsDone, scanFrame, credVars
<1>8. CASE UNCHANGED <<wifi, nvs, mode, opened, got, credVars, scanVars>>
  BY <1>8 DEF WifiTyped, credVars, scanVars
<1>9. QED
  BY <1>3, <1>4, <1>5, <1>6, <1>7, <1>8 DEF WifiNext, PageStep

\* Whatever the pages and OpenThread do, the table and the stored routes fit where
\* httpd and esp_br_web.c keep them, ticks stay in their range, the replies in their
\* array, and every pair the Wi-Fi set-up handles is made of submitted halves
\* (TypeOK; every part of the web server).
THEOREM TypeCorrect ==
  ASSUME ExternalMax \in Nat, ExternalMax >= Len(BosRoutes)
  PROVE  Spec => []TypeOK
<1> DEFINE Typed == ServerTypeOK /\ JoinTypeOK /\ DiagTypeOK /\ PingTypeOK /\ WifiTyped
<1>1. ASSUME Init PROVE Typed
  <2>1. ServerTypeOK
    <3>1. PICK T : Len(ResourceRoutes) = 17 /\ Len(PageRoutes) = 13 /\ BosRoutes \in Seq(T)
      BY WholeTable
    <3>2. QED
      BY <1>1, <3>1 DEF Init, ServerInit, ServerTypeOK, RouteMax
  <2>2. JoinTypeOK
    <3>1. 0 \in 0 .. SessionMax
      BY JoinAssumption
    <3>2. QED
      BY <1>1, <3>1 DEF Init, JoinInit, JoinTypeOK
  <2>3. DiagTypeOK
    <3>1. TickSpan \in Nat /\ TickSpan > 2
      BY DiagAssumption, FS_CardinalityType
    <3>2. QED
      <4>1. 0 \in 0 .. TickSpan - 1
        BY <3>1
      <4>2. QED
        BY <1>1, <4>1 DEF Init, DiagInit, DiagTypeOK
  <2>4. PingTypeOK
    BY <1>1, PingAssumption DEF Init, PingInit, PingTypeOK
  <2>5. WifiTyped
    BY <1>1, Halves DEF Init, WifiInit, WifiTyped, NotSubmitting
  <2>6. QED
    BY <2>1, <2>2, <2>3, <2>4, <2>5
<1>2. RoutesInv /\ RoutesInv' /\ StopInv /\ Typed /\ [Next]_vars => Typed'
  <2> SUFFICES ASSUME RoutesInv, RoutesInv', StopInv, Typed, [Next]_vars PROVE Typed'
    OBVIOUS
  <2>1. ServerTypeOK'
    BY ServerTyped DEF Next, vars, ServerPart, JoinPart, TopologyPart, PingPart, WifiPart, ServerTypeOK,
                       serverVars
  <2>2. JoinTypeOK'
    BY JoinTyped DEF Next, vars, ServerPart, JoinPart, TopologyPart, PingPart, WifiPart, JoinTypeOK,
                     joinVars
  <2>3. DiagTypeOK'
    BY DiagTyped DEF Next, vars, ServerPart, JoinPart, TopologyPart, PingPart, WifiPart, DiagTypeOK,
                     diagVars
  <2>4. PingTypeOK'
    BY PingTyped DEF Next, vars, ServerPart, JoinPart, TopologyPart, PingPart, WifiPart, PingTypeOK,
                     pingVars
  <2>5. WifiTyped'
    BY WifiKeeps DEF Next, vars, ServerPart, JoinPart, TopologyPart, PingPart, WifiPart, WifiTyped,
                     wifiVars, StopInv
  <2>6. QED
    BY <2>1, <2>2, <2>3, <2>4, <2>5
<1>3. Typed /\ StopInv => TypeOK
  BY DEF TypeOK, StopInv, WifiTyped, WifiTypeOK, Pairs
<1>4. QED
  BY <1>1, <1>2, <1>3, RoutesAlways, StopAlways, PTL DEF Spec
=============================================================================
