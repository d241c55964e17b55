----------------------------- MODULE WebServices -----------------------------
(***************************************************************************)
(* The web server of the border router: its start and routes, and the pages   *)
(* that wait on another task, which are the join and scan pages, the topology *)
(* page, the ping and the Wi-Fi set-up page.                                 *)
(*                                                                          *)
(* httpd serves one request at a time and no two of these pages share a       *)
(* variable, so a behaviour is of one part and their state spaces add up.     *)
(***************************************************************************)
EXTENDS WebServer, WebJoin, WebDiagnostics, WebPing, WifiConfig

VARIABLE part   \* "server", "join", "topology", "ping" or "wifi"

vars == <<part, serverVars, joinVars, diagVars, pingVars, wifiVars>>

ServerPart ==
  part = "server" /\ ServerNext /\ UNCHANGED <<part, joinVars, diagVars, pingVars, wifiVars>>

JoinPart ==
  part = "join" /\ JoinNext /\ UNCHANGED <<part, serverVars, diagVars, pingVars, wifiVars>>

TopologyPart(Step) ==
  part = "topology" /\ Step /\ UNCHANGED <<part, serverVars, joinVars, pingVars, wifiVars>>

PingPart ==
  part = "ping" /\ PingNext /\ UNCHANGED <<part, serverVars, joinVars, diagVars, wifiVars>>

WifiPart ==
  part = "wifi" /\ WifiNext /\ UNCHANGED <<part, serverVars, joinVars, diagVars, pingVars>>

Init ==
  /\ ServerInit /\ JoinInit /\ DiagInit /\ PingInit /\ WifiInit
  /\ part \in {"server", "join", "topology", "ping", "wifi"}
  /\ part # "wifi" => nvs = Empty

Next == ServerPart \/ JoinPart \/ TopologyPart(DiagNext) \/ PingPart \/ WifiPart

\* The request's own steps: httpd's task has the processor, and it sleeps
\* between two polls and waits for nothing else.
Fairness == WF_vars(TopologyPart(DiagStep))

Spec == Init /\ [][Next]_vars /\ Fairness

TypeOK == ServerTypeOK /\ JoinTypeOK /\ DiagTypeOK /\ PingTypeOK /\ WifiTypeOK
=============================================================================
