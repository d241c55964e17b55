----------------------------- MODULE WebServer -----------------------------
(***************************************************************************)
(* The border router's one HTTP server and its route table.  The start of     *)
(* the application stores the building's routes; the first address of the     *)
(* backbone starts the server, which registers Thread's resources, the web    *)
(* pages' routes, the stored routes and last a catch-all for files.           *)
(*                                                                          *)
(* httpd takes the first route that matches, and refuses a new route that a   *)
(* route it has already matches: what answers a request depends on the order  *)
(* in which the two tasks got there.  A path is the sequence of its segments, *)
(* and a wildcard ends in "*".                                               *)
(***************************************************************************)
EXTENDS Naturals, Sequences

CONSTANT ExternalMax   \* BOS_EXTERNAL_HANDLER_MAX

VARIABLES
  app,      \* how far app_main has got
  todo,     \* building routes it has still to register
  external, \* s_external_handlers
  table,    \* httpd's routes; empty: not started
  asked     \* the last request and the route that took it

serverVars == <<app, todo, external, table, asked>>

NoRoute == [m |-> "none", at |-> <<>>]

Get(path) == [m |-> "GET", at |-> path]
Put(path) == [m |-> "PUT", at |-> path]
Post(path) == [m |-> "POST", at |-> path]
Delete(path) == [m |-> "DELETE", at |-> path]

\* s_resource_handlers.
ResourceRoutes ==
  << Get(<<"diagnostics">>), Get(<<"node">>), Delete(<<"node">>),
     Get(<<"node", "rloc">>), Get(<<"node", "rloc16">>),
     Get(<<"node", "state">>), Put(<<"node", "state">>),
     Get(<<"node", "ext-address">>), Get(<<"node", "network-name">>),
     Get(<<"node", "leader-data">>), Get(<<"node", "num-of-router">>),
     Get(<<"node", "ext-panid">>), Get(<<"node", "ba-id">>),
     Get(<<"node", "dataset", "active">>), Put(<<"node", "dataset", "active">>),
     Get(<<"node", "dataset", "pending">>), Put(<<"node", "dataset", "pending">>) >>

\* s_web_gui_handlers.
PageRoutes ==
  << Get(<<"get_properties">>), Get(<<"available_network">>), Post(<<"join_network">>),
     Post(<<"form_network">>), Post(<<"add_prefix">>), Post(<<"delete_prefix">>),
     Post(<<"commission">>), Get(<<"topology">>), Get(<<"node_information">>),
     Post(<<"ping">>), Get(<<"ipaddr">>), Post(<<"add_ipaddr">>), Post(<<"delete_ipaddr">>) >>

FilesRoute == Get(<<"*">>)

\* The routes of bos_diagnostics_server_start, each for its own path.
SpecificRoutes ==
  << Get(<<"bos", "status">>), Get(<<"bos", "thread-diag">>),
     Get(<<"bos", "ledger", "active">>), Post(<<"bos", "ledger", "push">>),
     Post(<<"bos", "commission">>), Post(<<"api", "commission">>),
     Post(<<"bos", "joiner", "accept">>), Get(<<"bos", "joiner", "status">>),
     Get(<<"bos", "ledger", "torrent">>), Get(<<"bos", "convergence">>), Get(<<"bos", "peers">>),
     Get(<<"bos", "ota", "status">>), Post(<<"bos", "ota", "app">>),
     Post(<<"bos", "ota", "app", "fetch">>), Post(<<"bos", "ota", "confirm">>),
     Post(<<"bos", "ota", "rollback">>), Get(<<"bos", "radio">>), Post(<<"bos", "radio">>),
     Get(<<"bos", "thread-neighbors">>), Post(<<"bos", "thread-reset">>),
     Post(<<"bos", "device-id", "reset">>), Get(<<"bos", "device", "*">>),
     Put(<<"bos", "device", "*">>), Post(<<"bos", "device", "*">>), Post(<<"bos", "phonebook">>),
     Get(<<"bos", "phonebook", "floating">>), Post(<<"bos", "trigger">>) >>

\* GET /bos/<spatial_id>/...
SpatialRoute == Get(<<"bos", "*">>)

\* Mutant: the catch-all first.
BosRoutes_ProxyFirst == <<SpatialRoute>> \o SpecificRoutes

\* The 28 registrations, in their order.
BosRoutes == Append(SpecificRoutes, SpatialRoute)

-----------------------------------------------------------------------------
(* httpd. *)

\* httpd_uri_match_wildcard; the path may be a template itself.
Matches(r, m, path) ==
  LET n == Len(r.at) IN
    /\ r.m = m
    /\ IF r.at[n] = "*" THEN Len(path) >= n /\ SubSeq(path, 1, n - 1) = SubSeq(r.at, 1, n - 1)
                        ELSE path = r.at

\* The first route that matches.
Dispatch(routes, m, path) ==
  LET hits == {i \in DOMAIN routes : Matches(routes[i], m, path)} IN
    IF hits = {} THEN NoRoute ELSE routes[CHOOSE i \in hits : \A j \in hits : i <= j]

\* max_uri_handlers of the server's configuration.
RouteMax == Len(ResourceRoutes) + Len(PageRoutes) + ExternalMax + 2

\* httpd_register_uri_handler.
Registrable(routes, r) == Dispatch(routes, r.m, r.at) = NoRoute /\ Len(routes) < RouteMax

\* httpd_server_register_http_uri: the first refusal ends it.
RegisterAll(routes, new) ==
  LET after(n) == routes \o SubSeq(new, 1, n)
      taken == {n \in 0 .. Len(new) : \A i \in 1 .. n : Registrable(after(i - 1), new[i])}
  IN  after(CHOOSE n \in taken : \A k \in taken : k <= n)

-----------------------------------------------------------------------------
(* app_main: esp_br_web_start, the building's routes, then the backbone. *)

\* bos_diagnostics_server_start: the phonebook, the OTA routes or an event
\* handler may fail, and the start goes on without the building's routes.
DiagnosticsInit ==
  /\ app = "init" /\ app' \in {"routes", "connect"}
  /\ UNCHANGED <<todo, external, table, asked>>

\* esp_br_web_register_handler, stored for the start or registered at once;
\* the first failure ends bos_diagnostics_server_start.
RegisterRoute ==
  /\ app = "routes" /\ todo # <<>>
  /\ LET r == Head(todo)
         fits == Len(external) < ExternalMax
         room == table = <<>> \/ Registrable(table, r)
     IN  IF fits /\ room
           THEN /\ external' = Append(external, r) /\ todo' = Tail(todo)
                /\ table' = IF table = <<>> THEN table ELSE Append(table, r)
                /\ UNCHANGED app
           ELSE app' = "connect" /\ UNCHANGED <<todo, external, table>>
  /\ UNCHANGED asked

\* s_registered; the running image is confirmed (BrOta).
RoutesRegistered ==
  /\ app = "routes" /\ todo = <<>> /\ app' = "connect"
  /\ UNCHANGED <<todo, external, table, asked>>

-----------------------------------------------------------------------------
(* The event task. *)

\* start_esp_br_http_server: the table in this order, or httpd does not start.
StartHttpServer ==
  LET gui == RegisterAll(RegisterAll(<<>>, ResourceRoutes), PageRoutes)
      all == RegisterAll(gui, external)
  IN  table' \in {IF Registrable(all, FilesRoute) THEN Append(all, FilesRoute) ELSE all, <<>>}

\* handler_got_ip_event: an address, which the driver reports only once
\* app_main connects the backbone, and again later; once started, no more.
GotIp ==
  /\ app \in {"connect", "up"} /\ app' = "up"
  /\ IF table = <<>> THEN StartHttpServer ELSE UNCHANGED table
  /\ UNCHANGED <<todo, external, asked>>

-----------------------------------------------------------------------------
(* Requests. *)

\* default_urls_get_handler: the root and the developer pages, files by their
\* extension, and no such file.
DefaultUrls(path) ==
  CASE path \in {<<"">>, <<"docs", "developer">>} -> {"index"}
    [] path = <<"app.js">> -> {"file", "closed"}
    [] OTHER -> {"404"}

\* What a request of a route's own path asks for.
Sample(r) == LET n == Len(r.at) IN IF r.at[n] = "*" THEN [r.at EXCEPT ![n] = "x"] ELSE r.at

Paths == {<<"">>, <<"docs", "developer">>, <<"app.js">>, <<"bos", "s1", "state">>, <<"nothing">>}

Request(path) ==
  /\ table # <<>>
  /\ LET r == Dispatch(table, "GET", path) IN
       \E out \in (IF r = FilesRoute THEN DefaultUrls(path) ELSE {"handled"}) :
         asked' = [path |-> path, route |-> r.at, out |-> out]
  /\ UNCHANGED <<app, todo, external, table>>

ServerInit ==
  /\ app = "init" /\ todo = BosRoutes /\ external = <<>> /\ table = <<>>
  /\ asked = [path |-> <<>>, route |-> <<>>, out |-> "none"]

ServerNext ==
  \/ DiagnosticsInit \/ RegisterRoute \/ RoutesRegistered \/ GotIp
  \/ \E path \in Paths : Request(path)

ServerTypeOK ==
  /\ app \in {"init", "routes", "connect", "up"}
  /\ Len(table) <= RouteMax /\ Len(external) <= ExternalMax

\* When the server is up, a request for any route of the building, of Thread's
\* resources or of the web pages reaches that route's handler: no stored route
\* was dropped for want of room, and none is behind a wildcard that takes its
\* path.
EveryRouteAnswers ==
  table # <<>> /\ external # <<>> =>
    \A all \in {BosRoutes \o ResourceRoutes \o PageRoutes} :
      \A i \in DOMAIN all : Dispatch(table, all[i].m, Sample(all[i])) = all[i]
=============================================================================
