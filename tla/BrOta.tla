------------------------------- MODULE BrOta -------------------------------
(***************************************************************************)
(* bos_br_ota: the border router's own firmware.  HTTP handlers stream a    *)
(* newer image into the other app partition, select it and answer before a  *)
(* task of its own restarts the host 1.5 s later; a started image is on     *)
(* trial until it confirms itself once the routes are registered; it may    *)
(* also be confirmed or rolled back over HTTP.  The bootloader gives an     *)
(* image on trial one start.                                                *)
(*                                                                          *)
(* bos_br_ota_status is one global record that the handlers, the delayed    *)
(* tasks and the main task write; only the handlers take the operation      *)
(* lock.                                                                    *)
(***************************************************************************)
EXTENDS Naturals

CONSTANTS
  Workers,    \* tasks that run HTTP handlers
  NoWorker,   \* the operation lock when nobody holds it
  Versions,   \* firmware versions, ordered
  FaultSets   \* what may fail in a run: subsets of "net" (a request or its
              \* body), "flash" (writes of partitions and otadata), "routes"
              \* (a route cannot be registered), "crash" (power loss, and the
              \* restarts of other components)

ASSUME BrOtaAssumption ==
  /\ NoWorker \notin Workers
  /\ Versions \subseteq Nat \ {0}

VARIABLES
  faults,    \* what may fail in this run
  main,      \* how far the main task is
  lock,      \* holder of bos_br_ota_operation_lock
  pc,        \* where each handler is
  new,       \* the version of the image in the request
  st,        \* bos_br_ota_status.state
  pending,   \* bos_br_ota_status.reboot_pending
  delayed,   \* which delayed tasks exist
  part,      \* the version in each app partition, Blank for no valid image
  ota,       \* the otadata state of each app partition
  pick,      \* the partition otadata selects
  running    \* the partition that runs

statusVars == <<st, pending>>
handlerVars == <<lock, pc, new>>
flashVars == <<part, ota, pick>>
vars == <<faults, main, handlerVars, statusVars, delayed, flashVars, running>>

Partitions == {0, 1}
Blank == 0

\* esp_ota_get_next_update_partition(NULL), the target of an update.
Other == 1 - running

Refused == {"invalid", "aborted"}

\* esp_ota_check_rollback_is_possible.
RollbackPossible == part[Other] # Blank /\ ota[Other] \notin Refused

-----------------------------------------------------------------------------
(* Restart. *)

\* The bootloader starts the selected image unless it is not valid, was
\* refused, or had its one start on trial (then it becomes "aborted").
Startable(p, states) == part[p] # Blank /\ states[p] \notin Refused \cup {"pending"}

Boot(states) ==
  LET first == IF Startable(pick, states) THEN pick ELSE 1 - pick
      left == [p \in Partitions |->
                 IF p = pick /\ states[p] = "pending" THEN "aborted" ELSE states[p]]
  IN  /\ running' = first
      /\ pick' = first
      /\ ota' = [left EXCEPT ![first] = IF @ = "new" THEN "pending" ELSE @]
      /\ main' = "routes"
      /\ lock' = NoWorker
      /\ pc' = [w \in Workers |-> "idle"]
      /\ new' = new
      /\ st' = "idle" /\ pending' = FALSE
      /\ delayed' = {}
      /\ UNCHANGED <<faults, part>>

PowerLoss == "crash" \in faults /\ Boot(ota)

\* bos_diagnostics_server_start registers the routes; a failure leaves before
\* the running image is confirmed, with the OTA routes in place.
RegisterRoutes ==
  /\ main = "routes"
  /\ main' = "confirm" \/ ("routes" \in faults /\ main' = "up")
  /\ UNCHANGED <<faults, handlerVars, statusVars, delayed, flashVars, running>>

\* bos_br_ota_confirm_running_app, on the main task and without the lock.
ConfirmRunningApp ==
  /\ main = "confirm"
  /\ main' = "up"
  /\ \/ /\ ota[running] # "pending"
        /\ UNCHANGED <<ota, statusVars>>
     \/ /\ ota[running] = "pending"
        /\ ota' = [ota EXCEPT ![running] = "valid"]
        /\ st' = "idle" /\ pending' = FALSE
     \/ /\ "flash" \in faults
        /\ st' = "failed"
        /\ UNCHANGED <<ota, pending>>
  /\ UNCHANGED <<faults, handlerVars, delayed, part, pick, running>>

ServerUp_Early == TRUE

\* The web server starts with the first address, and app_main connects the
\* backbone after bos_diagnostics_server_start has returned.
ServerUp == main = "up"

-----------------------------------------------------------------------------
(* The handlers. *)

Begin_Unguarded(w, op) ==
  /\ pc[w] = "idle" /\ lock = NoWorker
  /\ lock' = w
  /\ pc' = [pc EXCEPT ![w] = op]

\* begin_operation: every other outcome is an answer of 409.
Begin(w, op) ==
  /\ pc[w] = "idle" /\ lock = NoWorker
  /\ ~pending /\ st \notin {"ready", "rebooting", "rolling_back"}
  /\ lock' = w
  /\ pc' = [pc EXCEPT ![w] = op]

\* end_operation, on a way out of the handler.
End(w) == lock' = NoWorker /\ pc' = [pc EXCEPT ![w] = "idle"]

Fail(w) == st' = "failed" /\ UNCHANGED pending /\ End(w)

Request(w) ==
  /\ ServerUp
  /\ \/ Begin(w, "check") /\ new' \in [Workers -> Versions] /\ \A u \in Workers \ {w} : new'[u] = new[u]
     \/ Begin(w, "confirm") /\ UNCHANGED new
     \/ Begin(w, "rollback") /\ UNCHANGED new
  /\ UNCHANGED <<faults, main, statusVars, delayed, flashVars, running>>

\* The request has no digest, size or URL, or the URL does not answer.
BadRequest(w) ==
  /\ pc[w] = "check" /\ "net" \in faults
  /\ End(w)
  /\ UNCHANGED <<faults, main, new, statusVars, delayed, flashVars, running>>

\* perform_ota_stream: a size outside the partition, or the status starts anew.
StartStream(w) ==
  /\ pc[w] = "check"
  /\ \/ "net" \in faults /\ Fail(w)
     \/ /\ st' = "receiving" /\ pending' = FALSE
        /\ pc' = [pc EXCEPT ![w] = "header"] /\ UNCHANGED lock
  /\ UNCHANGED <<faults, main, new, delayed, flashVars, running>>

\* validate_image_descriptor: a semantic version above the running one.
Accepted(v) == v > part[running]

ReadHeader(w) ==
  /\ pc[w] = "header"
  /\ \/ ("net" \in faults \/ ~Accepted(new[w])) /\ Fail(w)
     \/ /\ Accepted(new[w])
        /\ st' = "writing" /\ UNCHANGED pending
        /\ pc' = [pc EXCEPT ![w] = "erase"] /\ UNCHANGED lock
  /\ UNCHANGED <<faults, main, new, delayed, flashVars, running>>

\* esp_ota_begin refuses while the running image is on trial, then erases.
EraseOther(w) ==
  /\ pc[w] = "erase"
  /\ \/ /\ ota[running] = "pending" \/ "flash" \in faults
        /\ Fail(w) /\ UNCHANGED part
     \/ /\ ota[running] # "pending"
        /\ part' = [part EXCEPT ![Other] = Blank]
        /\ pc' = [pc EXCEPT ![w] = "body"]
        /\ UNCHANGED <<lock, statusVars>>
  /\ UNCHANGED <<faults, main, new, delayed, ota, pick, running>>

\* The body is received and written; digest and image are verified.
ReceiveBody(w) ==
  /\ pc[w] = "body"
  /\ \/ faults \cap {"net", "flash"} # {} /\ Fail(w) /\ UNCHANGED part
     \/ /\ part' = [part EXCEPT ![Other] = new[w]]
        /\ pc' = [pc EXCEPT ![w] = "select"]
        /\ UNCHANGED <<lock, statusVars>>
  /\ UNCHANGED <<faults, main, new, delayed, ota, pick, running>>

\* esp_ota_set_boot_partition.
SelectOther(w) ==
  /\ pc[w] = "select"
  /\ \/ "flash" \in faults /\ Fail(w) /\ UNCHANGED <<ota, pick>>
     \/ /\ pick' = Other
        /\ ota' = [ota EXCEPT ![Other] = "new"]
        /\ st' = "ready" /\ pending' = TRUE
        /\ pc' = [pc EXCEPT ![w] = "restart_answer"] /\ UNCHANGED lock
  /\ UNCHANGED <<faults, main, new, delayed, part, running>>

HttpConfirm(w) ==
  /\ pc[w] = "confirm"
  /\ \/ "flash" \in faults /\ Fail(w) /\ UNCHANGED ota
     \/ /\ ota' = [ota EXCEPT ![running] = IF @ = "pending" THEN "valid" ELSE @]
        /\ st' = "idle" /\ pending' = FALSE
        /\ End(w)
  /\ UNCHANGED <<faults, main, new, delayed, part, pick, running>>

HttpRollback(w) ==
  /\ pc[w] = "rollback"
  /\ \/ ~RollbackPossible /\ Fail(w)
     \/ /\ RollbackPossible
        /\ st' = "rolling_back" /\ pending' = TRUE
        /\ pc' = [pc EXCEPT ![w] = "rollback_answer"] /\ UNCHANGED lock
  /\ UNCHANGED <<faults, main, new, delayed, flashVars, running>>

\* The answer is sent and the lock given back ...
Answer(w) ==
  /\ \/ pc[w] = "restart_answer" /\ pc' = [pc EXCEPT ![w] = "restart_schedule"]
     \/ pc[w] = "rollback_answer" /\ pc' = [pc EXCEPT ![w] = "rollback_schedule"]
  /\ lock' = NoWorker
  /\ UNCHANGED <<faults, main, new, statusVars, delayed, flashVars, running>>

Schedule_Dropped(w) ==
  /\ pc[w] \in {"restart_schedule", "rollback_schedule"}
  /\ pc' = [pc EXCEPT ![w] = "idle"]
  /\ UNCHANGED <<faults, main, lock, new, statusVars, delayed, flashVars, running>>

\* ... before schedule_restart or schedule_rollback creates the task (without
\* memory for one the handler waits and restarts itself).
Schedule(w) ==
  /\ \/ pc[w] = "restart_schedule" /\ delayed' = delayed \cup {"restart"}
     \/ pc[w] = "rollback_schedule" /\ delayed' = delayed \cup {"rollback"}
  /\ pc' = [pc EXCEPT ![w] = "idle"]
  /\ UNCHANGED <<faults, main, lock, new, statusVars, flashVars, running>>

Handler(w) ==
  \/ BadRequest(w) \/ StartStream(w) \/ ReadHeader(w) \/ EraseOther(w)
  \/ ReceiveBody(w) \/ SelectOther(w) \/ HttpConfirm(w) \/ HttpRollback(w)
  \/ Answer(w) \/ Schedule(w)

-----------------------------------------------------------------------------
(* The delayed tasks; both hold no lock. *)

DelayedRestart == "restart" \in delayed /\ Boot(ota)

\* esp_ota_mark_app_invalid_rollback_and_reboot; when it returns, it failed.
DelayedRollback ==
  /\ "rollback" \in delayed
  /\ \/ RollbackPossible /\ Boot([ota EXCEPT ![running] = "invalid"])
     \/ /\ ~RollbackPossible \/ "flash" \in faults
        /\ st' = "failed"
        /\ delayed' = delayed \ {"rollback"}
        /\ UNCHANGED <<faults, main, handlerVars, pending, flashVars, running>>

-----------------------------------------------------------------------------
Init ==
  /\ faults \in FaultSets
  /\ running = 0 /\ pick = 0
  /\ part \in [Partitions -> Versions \cup {Blank}] /\ part[0] # Blank
  /\ ota = [p \in Partitions |-> "undefined"]
  /\ main = "routes"
  /\ lock = NoWorker /\ pc = [w \in Workers |-> "idle"]
  /\ new \in [Workers -> Versions]
  /\ st = "idle" /\ pending = FALSE
  /\ delayed = {}

Next ==
  \/ RegisterRoutes \/ ConfirmRunningApp
  \/ DelayedRestart \/ DelayedRollback
  \/ PowerLoss
  \/ \E w \in Workers : Request(w) \/ Handler(w)

Spec == Init /\ [][Next]_vars

\* A handler that runs goes on (every receive has a timeout) and a delayed task
\* wakes up; nobody has to send a request.
FairSpec ==
  /\ Spec
  /\ WF_vars(RegisterRoutes) /\ WF_vars(ConfirmRunningApp)
  /\ WF_vars(DelayedRestart) /\ WF_vars(DelayedRollback)
  /\ \A w \in Workers : WF_vars(Handler(w))

-----------------------------------------------------------------------------
(* Properties. *)

Streaming == {"header", "erase", "body", "select"}
Holding == Streaming \cup {"check", "confirm", "rollback", "restart_answer", "rollback_answer"}
Scheduling == {"restart_schedule", "rollback_schedule"}
OtaStates == {"undefined", "new", "pending", "valid", "invalid", "aborted"}

TypeOK ==
  /\ faults \in FaultSets
  /\ main \in {"routes", "confirm", "up"}
  /\ lock \in Workers \cup {NoWorker}
  /\ pc \in [Workers -> Holding \cup Scheduling \cup {"idle"}]
  /\ new \in [Workers -> Versions]
  /\ st \in {"idle", "receiving", "writing", "ready", "failed", "rolling_back"}
  /\ pending \in BOOLEAN
  /\ delayed \subseteq {"restart", "rollback"}
  /\ part \in [Partitions -> Versions \cup {Blank}]
  /\ ota \in [Partitions -> OtaStates]
  /\ pick \in Partitions /\ running \in Partitions

\* A restart is announced: from the moment the flags are set to the task.
Announced(kind) ==
  \/ kind \in delayed
  \/ \E w \in Workers :
       pc[w] \in IF kind = "restart" THEN {"restart_answer", "restart_schedule"}
                                     ELSE {"rollback_answer", "rollback_schedule"}

\* An image answered with "rebooting" is the one the restart takes: from the
\* selection to the restart 1.5 s later it stays whole, selected and newer than
\* the running one, although the lock is given back before.
AnnouncedImageIntact ==
  Announced("restart") =>
    /\ pick = Other /\ ota[pick] = "new"
    /\ part[pick] # Blank /\ part[pick] > part[running]

\* A roll-back that was answered with "rebooting" can still be made: nothing
\* erases or selects the other partition before the task runs.
AnnouncedRollbackPossible ==
  Announced("rollback") => RollbackPossible /\ pick = running

\* An image on trial always has one to fall back to: no chain of uploads,
\* roll-backs, failures and power losses ends in an image that must not fail.
TrialHasFallback ==
  /\ part[running] # Blank /\ ota[running] \notin Refused \cup {"new"}
  /\ ota[running] = "pending" => RollbackPossible

\* What makes these inductive: the lock is held exactly in the middle of an
\* operation; before the server starts nothing is under way, so the main task
\* may reset the flags without the lock; whatever is announced keeps "pending"
\* set, and with it every operation out; only a selection or a start on trial
\* makes the other partition the selected one.
Handlers ==
  /\ \A w \in Workers : lock = w <=> pc[w] \in Holding
  /\ main # "up" => ~pending /\ delayed = {} /\ \A w \in Workers : pc[w] = "idle"
  /\ delayed # {} => pending
  /\ \A w \in Workers :
       pc[w] # "idle" =>
         (pending <=> pc[w] \in Scheduling \cup {"restart_answer", "rollback_answer"})

Stream ==
  \A w \in Workers :
    /\ pc[w] \in {"erase", "body", "select"} => Accepted(new[w])
    /\ pc[w] \in {"body", "select"} => ota[running] # "pending"
    /\ pc[w] = "select" => part[Other] = new[w]

Selected ==
  /\ ~pending => pick = running
  /\ ota[Other] # "pending"
  /\ ota[Other] = "new" => pick = Other
  /\ pick = Other =>
       ota[running] # "pending" /\ ota[Other] = "new" /\ part[Other] # Blank

OtaInv ==
  /\ Handlers /\ Stream /\ Selected /\ TrialHasFallback
  /\ AnnouncedImageIntact /\ AnnouncedRollbackPossible

\* If flash writes succeed, the routes are never closed for ever: an operation
\* ends, and an announced restart is made.
RoutesReopen ==
  ("flash" \notin faults /\ (lock # NoWorker \/ pending)) ~> (lock = NoWorker /\ ~pending)
=============================================================================
