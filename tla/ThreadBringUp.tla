--------------------------- MODULE ThreadBringUp ---------------------------
(***************************************************************************)
(* How the border router gets onto its Thread network: app_main, the          *)
(* bring-up task, bos_thread_dataset_anchor, and the requests of the web      *)
(* server that change the dataset.                                            *)
(*                                                                          *)
(* The dataset is stored twice: in OpenThread's own settings, and in the NVS  *)
(* anchor, which is written before a network that was just formed is first    *)
(* started and is brought up to date at every start.  A network that is       *)
(* formed or joined is one that no store, task or radio holds yet.            *)
(*                                                                          *)
(* The bring-up task holds the OpenThread lock through one attempt and the    *)
(* web server through one request, so they interleave between attempts; the   *)
(* reset of the radio gives the lock back halfway.  A power loss may come     *)
(* between any two writes.                                                    *)
(***************************************************************************)
EXTENDS Naturals

CONSTANTS
  MaxAttempts,   \* max_attempts of the bring-up task and of the backbone
  Nets,          \* Thread networks: more of them than variables that hold one
  NoNet          \* no dataset

ASSUME BringUpAssumption ==
  /\ MaxAttempts \in Nat \ {0} /\ NoNet \notin Nets
  /\ \A a, b, c, d, e, f \in Nets \cup {NoNet} : Nets \ {a, b, c, d, e, f} # {}

VARIABLES
  main,      \* where app_main is
  tries,     \* attempts of the loop that app_main or the task is in
  task,      \* where the bring-up task is
  brInit,    \* br_init_done
  tlvs,      \* the dataset the task is about to start
  settings,  \* the dataset in OpenThread's settings
  anchor,    \* the dataset in the NVS anchor
  running,   \* the network Thread is enabled on
  reset,     \* the radio reset: "idle", or "settling" with Thread down
  chosen,    \* history: the network this border router belongs to
  formed     \* history: the network it formed last

upVars == <<main, tries, task, brInit, tlvs, settings, anchor, running, reset, chosen, formed>>

NewNet == CHOOSE n \in Nets : n \notin {tlvs, settings, anchor, running, chosen, formed}

-----------------------------------------------------------------------------
(* app_main. *)

Restart ==
  /\ main' = "init" /\ tries' = 0
  /\ task' = "none" /\ brInit' = FALSE /\ tlvs' = NoNet /\ running' = NoNet
  /\ reset' = "idle"

\* A must-succeed step failed (bos_fatal_check, ESP_ERROR_CHECK around
\* esp_openthread_start), or the power went.
Reboots == Restart /\ UNCHANGED <<settings, anchor, chosen, formed>>

\* init_nvs: a partition of another layout is erased, with all it holds.
NvsErased ==
  /\ main = "init"
  /\ settings' = NoNet /\ anchor' = NoNet /\ chosen' = NoNet /\ formed' = NoNet
  /\ UNCHANGED <<main, tries, task, brInit, tlvs, running>>

\* eventfd, NVS, SPIFFS, netif and the event loop; then mDNS, the web server,
\* the BOS components and the diagnostics routes, which may fail.
AppInit ==
  /\ main = "init" /\ main' = "backbone"
  /\ UNCHANGED <<tries, task, brInit, tlvs, settings, anchor, running, chosen, formed>>

\* bos_backbone_connect, and the wait for its netif: without a backbone the
\* start goes on.
BackboneConnect ==
  /\ main = "backbone"
  /\ \/ tries + 1 < MaxAttempts /\ tries' = tries + 1 /\ UNCHANGED main
     \/ main' = "launch" /\ tries' = 0
  /\ UNCHANGED <<task, brInit, tlvs, settings, anchor, running, chosen, formed>>

\* launch_openthread_border_router: esp_openthread_start returns when ot_main
\* has signalled its result; the bring-up task may not be created.
LaunchOpenThread ==
  /\ main = "launch" /\ main' = "up"
  /\ task' \in {"attempt", "none"} /\ tries' = 1
  /\ UNCHANGED <<brInit, tlvs, settings, anchor, running, chosen, formed>>

-----------------------------------------------------------------------------
(* bos_thread_bringup_task. *)

\* Mutant: an attempt that failed is not counted.
AttemptFails_Uncounted == task' = "attempt" /\ UNCHANGED tries

AttemptFails ==
  IF tries < MaxAttempts
    THEN task' = "attempt" /\ tries' = tries + 1
    ELSE task' = "finish" /\ UNCHANGED tries

\* esp_openthread_border_router_init; not again once it has succeeded.
BorderRouterInit ==
  /\ task = "attempt" /\ ~brInit
  /\ \/ brInit' = TRUE /\ task' = "apply" /\ UNCHANGED tries
     \/ AttemptFails /\ UNCHANGED brInit
  /\ UNCHANGED <<main, tlvs, settings, anchor, running, chosen, formed>>

BorderRouterReady ==
  /\ task = "attempt" /\ brInit /\ task' = "apply"
  /\ UNCHANGED <<main, tries, brInit, tlvs, settings, anchor, running, chosen, formed>>

\* bos_thread_dataset_anchor_apply_or_form, first what is stored: OpenThread's
\* settings (anchor_sync_from_tlvs: an anchor that differs is replaced, and a
\* failure only logged), else the anchor.
\* Mutant: the anchor first.
ApplyStored_AnchorFirst ==
  /\ task = "apply" /\ task' = "start"
  /\ \/ anchor # NoNet /\ tlvs' = anchor /\ UNCHANGED anchor
     \/ anchor = NoNet /\ settings # NoNet /\ tlvs' = settings /\ anchor' \in {settings, anchor}
  /\ UNCHANGED <<main, tries, brInit, settings, running, chosen, formed>>

ApplyStored ==
  /\ task = "apply" /\ task' = "start"
  /\ \/ settings # NoNet /\ tlvs' = settings /\ anchor' \in {settings, anchor}
     \/ settings = NoNet /\ anchor # NoNet /\ tlvs' = anchor /\ UNCHANGED anchor
  /\ UNCHANGED <<main, tries, brInit, settings, running, chosen, formed>>

\* Mutant: a network that could not be persisted is started.
FormNew_Unpersisted ==
  /\ task = "apply" /\ settings = NoNet /\ anchor = NoNet
  /\ anchor' \in {NewNet, NoNet} /\ tlvs' = NewNet /\ task' = "start" /\ formed' = NewNet
  /\ UNCHANGED <<main, tries, brInit, settings, running, chosen>>

\* Then a new network: created, given channel and name, and persisted in the
\* anchor; a network that cannot be persisted is not started.
FormNew ==
  /\ task = "apply" /\ settings = NoNet /\ anchor = NoNet
  /\ \/ /\ anchor' = NewNet /\ tlvs' = NewNet /\ formed' = NewNet
        /\ task' = "start" /\ UNCHANGED tries
     \/ AttemptFails /\ UNCHANGED <<anchor, tlvs, formed>>
  /\ UNCHANGED <<main, brInit, settings, running, chosen>>

\* esp_openthread_auto_start: the dataset goes into the settings, then the
\* interface and Thread are enabled; each may fail.
AutoStart ==
  /\ task = "start" /\ tlvs' = NoNet
  /\ \/ /\ settings' = tlvs /\ running' = tlvs /\ task' = "finish"
        /\ chosen' = IF chosen = NoNet THEN tlvs ELSE chosen
        /\ UNCHANGED tries
     \/ settings' \in {settings, tlvs} /\ AttemptFails /\ UNCHANGED <<running, chosen, formed>>
  /\ UNCHANGED <<main, brInit, anchor, formed>>

\* Transmit power, no upstream DNS, the lease clamp; then the task ends.
BringUpFinish ==
  /\ task = "finish" /\ task' = "none"
  /\ UNCHANGED <<main, tries, brInit, tlvs, settings, anchor, running, chosen, formed>>

-----------------------------------------------------------------------------
(* The web server's requests, between attempts: every one of them stops at the
   first call that fails and leaves what it did. *)

LockFree == main = "up" /\ task \in {"attempt", "finish", "none"}

\* One task serves the requests.
WebFree == LockFree /\ reset = "idle"

taskFrame == <<main, tries, task, brInit, tlvs, anchor, formed>>
webFrame == <<taskFrame, reset>>

\* Form, and join by network key or by PSKd: Thread goes down, the dataset is
\* replaced, Thread comes up on it.
WebNetwork ==
  /\ WebFree
  /\ \/ settings' = NewNet /\ chosen' = NewNet /\ running' \in {NewNet, NoNet}
     \/ running' = NoNet /\ UNCHANGED <<settings, chosen>>
  /\ UNCHANGED webFrame

\* PUT of the active dataset, only while Thread is disabled.
WebPutDataset ==
  /\ WebFree /\ running = NoNet
  /\ settings' = NewNet /\ chosen' = NewNet
  /\ UNCHANGED <<webFrame, running>>

\* PUT of the node state: enable (on what the settings hold) or disable.
WebNodeState ==
  /\ WebFree /\ running' \in {settings, NoNet}
  /\ chosen' = IF chosen = NoNet THEN running' ELSE chosen
  /\ UNCHANGED <<webFrame, settings>>

\* DELETE of the node: OpenThread's settings go, the anchor stays, and the
\* border router belongs to the network it names.
WebDelete ==
  /\ WebFree /\ running' = NoNet
  /\ settings' = NoNet /\ chosen' = anchor
  /\ UNCHANGED webFrame

\* POST /bos/thread-reset: Thread goes down and the radio is pulsed.
ThreadResetDown ==
  /\ WebFree /\ running' = NoNet /\ reset' = "settling"
  /\ UNCHANGED <<taskFrame, settings, chosen>>

\* One second later Thread comes up again on what the settings hold by then,
\* unless the lock cannot be had or OpenThread refuses: then it is left as it is.
ThreadResetUp ==
  /\ reset = "settling" /\ LockFree /\ reset' = "idle"
  /\ running' \in {settings, running}
  /\ chosen' = IF chosen = NoNet THEN running' ELSE chosen
  /\ UNCHANGED <<taskFrame, settings>>

\* The lock was busy for five seconds: the answer says so, Thread stays down.
ThreadResetAbandoned ==
  /\ reset = "settling" /\ reset' = "idle"
  /\ UNCHANGED <<taskFrame, settings, running, chosen>>

-----------------------------------------------------------------------------
BringUpInit ==
  /\ main = "init" /\ tries = 0 /\ task = "none" /\ brInit = FALSE
  /\ tlvs = NoNet /\ settings = NoNet /\ anchor = NoNet /\ running = NoNet
  /\ reset = "idle" /\ chosen = NoNet /\ formed = NoNet

BringUpStep ==
  /\ \/ BorderRouterInit \/ BorderRouterReady \/ ApplyStored \/ FormNew
     \/ AutoStart \/ BringUpFinish
  /\ UNCHANGED reset

MainStep ==
  /\ NvsErased \/ AppInit \/ BackboneConnect \/ LaunchOpenThread
  /\ UNCHANGED reset

ThreadReset == ThreadResetDown \/ ThreadResetUp \/ ThreadResetAbandoned

BringUpNext ==
  \/ Reboots \/ MainStep \/ BringUpStep \/ ThreadReset
  \/ WebNetwork \/ WebPutDataset \/ WebNodeState \/ WebDelete

BringUpTypeOK ==
  /\ main \in {"init", "backbone", "launch", "up"}
  /\ tries \in 0 .. MaxAttempts
  /\ task \in {"none", "attempt", "apply", "start", "finish"}
  /\ brInit \in BOOLEAN /\ reset \in {"idle", "settling"}
  /\ {tlvs, settings, anchor, running, chosen, formed} \subseteq Nets \cup {NoNet}

\* Whatever fails, and wherever the power goes, the border router comes back on
\* the network it was on: only a request of the web server, or an erased NVS,
\* puts it on another one.
BackOnItsNetwork == running # NoNet => running = chosen

\* A network the border router formed itself runs only once the anchor holds
\* it: it cannot vanish with OpenThread's settings.
OwnNetworkIsAnchored == running # NoNet /\ running = formed => anchor = formed

\* The bring-up task ends, on the network or after its last attempt.
BringUpEnds == (task = "attempt") ~> (task = "none")
=============================================================================
