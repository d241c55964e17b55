----------------------------- MODULE WallClock -----------------------------
(***************************************************************************)
(* The border router's clock: no battery, restored approximately from NVS at  *)
(* a cold start, then set by SNTP or by the Date header of the site server's  *)
(* answers.  Where the clock's value comes from and what the router says of   *)
(* it are kept apart, and are not changed together: the SNTP client sets the   *)
(* clock and then calls back, and the registration task sets it and then      *)
(* marks the source.                                                         *)
(*                                                                          *)
(* A time is modelled by where it came from.                                 *)
(***************************************************************************)
EXTENDS Naturals

VARIABLES
  clock,      \* the system time
  source,     \* s_source
  stored,     \* the epoch in NVS
  sntpOn,     \* s_sntp_started
  setting     \* how far each task that sets the clock has got

clockVars == <<clock, source, stored, sntpOn, setting>>

\* "boot": the years before 2020.  "kept": the clock ran through a restart.
Times == {"boot", "nvs", "kept", "gateway", "sntp"}

Setters == {"gateway", "sntp"}

Plausible(t) == t # "boot"

Rank == [none |-> 0, nvs |-> 1, gateway |-> 2, sntp |-> 3]

\* set_source only ever raises it.
SetSource(s) == source' = IF Rank[s] > Rank[source] THEN s ELSE source

\* bos_time_is_synced
IsSynced == Rank[source] >= Rank["gateway"]

Setter(s, from, to) == setting[s] = from /\ setting' = [setting EXCEPT ![s] = to]

-----------------------------------------------------------------------------
\* persist_epoch; NVS may refuse.
Persist == stored' \in (IF Plausible(clock) THEN {stored, clock} ELSE {stored})

TimerPersists == Persist /\ UNCHANGED <<clock, source, sntpOn, setting>>

\* IP_EVENT_ETH_GOT_IP and IP_EVENT_STA_GOT_IP.
StartSntpOnce ==
  /\ ~sntpOn /\ sntpOn' = TRUE
  /\ UNCHANGED <<clock, source, stored, setting>>

\* The SNTP client (lwIP) sets the clock, then calls sntp_sync_cb.
SntpSets ==
  /\ sntpOn /\ Setter("sntp", "idle", "set")
  /\ clock' = "sntp"
  /\ UNCHANGED <<source, stored, sntpOn>>

SntpSyncCb ==
  /\ Setter("sntp", "set", "marked")
  /\ SetSource("sntp")
  /\ UNCHANGED <<clock, stored, sntpOn>>

SntpPersists ==
  /\ Setter("sntp", "marked", "idle")
  /\ Persist
  /\ UNCHANGED <<clock, source, sntpOn>>

\* bos_time_note_http_date: a date that parses, and SNTP has not synced.
NoteAllowed ==
  /\ source # "sntp" /\ Setter("gateway", "idle", "allowed")
  /\ UNCHANGED <<clock, source, stored, sntpOn>>

\* Synced, and within five seconds of it: left to run.
NoteSkips ==
  /\ IsSynced /\ Setter("gateway", "allowed", "idle")
  /\ UNCHANGED <<clock, source, stored, sntpOn>>

NoteSets ==
  /\ Setter("gateway", "allowed", "set")
  /\ clock' = "gateway"
  /\ UNCHANGED <<source, stored, sntpOn>>

NoteMarks ==
  /\ Setter("gateway", "set", "marked")
  /\ SetSource("gateway")
  /\ UNCHANGED <<clock, stored, sntpOn>>

NotePersists ==
  /\ Setter("gateway", "marked", "idle")
  /\ Persist
  /\ UNCHANGED <<clock, source, sntpOn>>

\* Mutant: the restored time is marked as the one that was stored.
Restored_AsStored(c) ==
  /\ clock' = "nvs"
  /\ source' = IF stored = "sntp" THEN "sntp" ELSE "gateway"

\* restore_epoch_from_nvs: approximate, and marked so.
Restored(c) == clock' = "nvs" /\ source' = "nvs"

\* A restart of the chip keeps the clock running, a cold start does not; then
\* bos_time_init, on the main task before any other.  NVS may refuse to be read.
ClockRestarts ==
  \E c \in {"boot", IF Plausible(clock) THEN "kept" ELSE "boot"} :
    /\ \/ ~Plausible(c) /\ Plausible(stored) /\ stored # "none" /\ Restored(c)
       \/ clock' = c /\ source' = "none"
    /\ sntpOn' = FALSE /\ setting' = [s \in Setters |-> "idle"]
    /\ UNCHANGED stored

ClockInit ==
  /\ clock = "boot" /\ source = "none" /\ stored = "none" /\ sntpOn = FALSE
  /\ setting = [s \in Setters |-> "idle"]

ClockStep ==
  \/ TimerPersists \/ StartSntpOnce
  \/ SntpSets \/ SntpSyncCb \/ SntpPersists
  \/ NoteAllowed \/ NoteSkips \/ NoteSets \/ NoteMarks \/ NotePersists

-----------------------------------------------------------------------------
ClockTypeOK ==
  /\ clock \in Times /\ source \in DOMAIN Rank /\ sntpOn \in BOOLEAN
  /\ stored \in Times \cup {"none"}
  /\ setting \in [Setters -> {"idle", "allowed", "set", "marked"}]

\* Whatever the two sources do to each other and however often the router
\* restarts, a clock that is called synced was set by one of them since the
\* start, and is not what NVS or the restart left.  (bos_time_is_synced.)
SyncedMeansSet == IsSynced => clock \in Setters

\* bos_time.h: the Date header is "applied only while SNTP has not synced this
\* boot; SNTP always outranks".  The source is read before the clock is set, and
\* the SNTP callback comes after its clock.  (bos_time_note_http_date.)
SntpOutranks == source = "sntp" => clock = "sntp"
=============================================================================
