------------------------------ MODULE SetupDns ------------------------------
(***************************************************************************)
(* The name server of the Wi-Fi set-up page: a task that answers every name    *)
(* with the access point's own address until its socket is closed, and how    *)
(* it is started and stopped.  The one that stops it waits for the task's      *)
(* semaphore, deletes the task if that takes a second, and then deletes the    *)
(* semaphore; the two run on different tasks and share no lock.               *)
(***************************************************************************)

VARIABLE dns   \* the task and where it is, s_dns_task_handle, s_dns_socket,
               \* and s_dns_task_semaphore

DnsOff == [task |-> "none", handle |-> FALSE, open |-> FALSE, sem |-> "none"]

\* wifi_config_dns_server_start: what a failed call created is released again.
DnsStarted ==
  {DnsOff, [task |-> "loop", handle |-> TRUE, open |-> TRUE, sem |-> "empty"]}

-----------------------------------------------------------------------------
(* wifi_config_dns_server_task. *)

\* Mutant: the handle is cleared before the semaphore is given.
DnsLeaves_ClearsFirst ==
  /\ dns.task = "loop" /\ ~dns.open
  /\ dns' = [dns EXCEPT !.task = IF dns.sem = "none" THEN "clear" ELSE "give", !.handle = FALSE]

\* A query is answered and nothing changes; without its socket the task leaves
\* the loop, and looks whether there is a semaphore.
DnsLeaves ==
  /\ dns.task = "loop" /\ ~(dns.open /\ dns.handle)
  /\ dns' = [dns EXCEPT !.task = IF dns.sem = "none" THEN "clear" ELSE "give"]

DnsGives ==
  /\ dns.task = "give"
  /\ dns' = [dns EXCEPT !.task = "clear", !.sem = IF @ = "none" THEN @ ELSE "given"]

DnsClears ==
  /\ dns.task = "clear"
  /\ dns' = [dns EXCEPT !.task = "exit", !.handle = FALSE]

\* It deletes itself.
DnsExits ==
  /\ dns.task = "exit"
  /\ dns' = [dns EXCEPT !.task = "none"]

DnsTask == DnsLeaves \/ DnsGives \/ DnsClears \/ DnsExits

-----------------------------------------------------------------------------
(* wifi_config_dns_server_stop. *)

DnsCloses == dns' = [dns EXCEPT !.open = FALSE]

DnsAwaited == dns.handle /\ dns.sem # "none"

DnsTaken == dns.sem = "given" /\ dns' = [dns EXCEPT !.sem = "empty"]

\* A second has passed and the handle was still there: the task is deleted.  If it
\* deleted itself since that look, what happens is undefined: nothing, or a crash and
\* so a restart.
DnsKilled == dns' = [dns EXCEPT !.task = "none", !.handle = FALSE]

DnsCleaned == dns' = [dns EXCEPT !.sem = "none"]

DnsTypeOK ==
  dns \in [task : {"none", "loop", "give", "clear", "exit"}, handle : BOOLEAN, open : BOOLEAN,
           sem : {"none", "empty", "given"}]
=============================================================================
