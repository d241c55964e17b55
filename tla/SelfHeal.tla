------------------------------ MODULE SelfHeal ------------------------------
(***************************************************************************)
(* bos_self_heal: a monitor task polls the Ethernet backbone and, when it   *)
(* has had no IPv4 for too long, resets the W5500 (L1) up to L1Max times    *)
(* and then restarts the host (L2).  A restart counter in RTC memory, which *)
(* a restart keeps and a power cycle clears, caps the restarts.  IP and     *)
(* Ethernet events are handled on the event task, between any two steps of  *)
(* the monitor.                                                             *)
(*                                                                          *)
(* Time is in ticks of any length; the clock is esp_timer, zero at boot.    *)
(* The event ring that /bos/status prints is left out: no step reads it.    *)
(***************************************************************************)
EXTENDS Integers

CONSTANTS
  PollTime,    \* BOS_SELF_HEAL_POLL_MS
  NoIpTime,    \* BOS_SELF_HEAL_NO_IP_THRESHOLD_US
  L1Max,       \* BOS_SELF_HEAL_L1_MAX_ATTEMPTS
  L2Interval,  \* BOS_SELF_HEAL_L2_MIN_INTERVAL_US
  BootMax,     \* BOS_SELF_HEAL_L2_BOOTLOOP_MAX
  Window,      \* BOS_SELF_HEAL_L2_BOOTLOOP_WINDOW_US
  MaxUptime,   \* bound on the clock within one boot
  LockWait,    \* bound on the ticks the monitor waits for s_lock at a poll
  Word         \* modulus of the code's unsigned 64-bit clock arithmetic

ASSUME SelfHealAssumption ==
  /\ PollTime \in Nat \ {0} /\ NoIpTime \in Nat \ {0}
  /\ L1Max \in Nat \ {0} /\ L2Interval \in Nat
  /\ BootMax \in Nat /\ Window \in Nat
  /\ MaxUptime \in Nat /\ LockWait \in Nat /\ Word \in Nat
  /\ Word > 2 * MaxUptime + NoIpTime + L2Interval + Window

VARIABLES
  pc,          \* where the monitor task is
  now,         \* esp_timer_get_time()
  left,        \* ticks left of the monitor's vTaskDelay
  at,          \* now, the clock as the monitor read it at the poll
  seen,        \* l1_attempts, the monitor's local copy
  seenIp,      \* last_ip, the monitor's local copy
  link,        \* s_link_up
  hasIp,       \* s_has_ipv4
  lastIp,      \* s_last_ip_us, 0 for never
  lastAction,  \* s_last_action_us, 0 for never
  attempts,    \* s_l1_attempts
  total,       \* s_l1_total
  stopPosted,  \* an ETHERNET_EVENT_STOP waits in the event queue
  rtcCount,    \* s_rtc_l2_count
  rtcStart     \* s_rtc_l2_window_start_us

monitorVars == <<pc, left, at, seen, seenIp>>
netVars == <<link, hasIp, lastIp, stopPosted>>
healVars == <<lastAction, attempts, total>>
rtcVars == <<rtcCount, rtcStart>>
vars == <<monitorVars, now, netVars, healVars, rtcVars>>

\* a - b on unsigned words.
Elapsed(a, b) == IF a >= b THEN a - b ELSE Word - (b - a)

Reference_IpOnly == lastIp

\* The later of the last IP and the last recovery action; boot is 0.
Reference == IF lastAction > lastIp THEN lastAction ELSE lastIp

\* The clock is the one read before the lock, so an address that comes in
\* between is later than it and the difference wraps.
NoIpFor == Elapsed(at, Reference)

CoolingDown_Never == FALSE

CoolingDown_Always == lastAction # 0

CoolingDown == lastAction # 0 /\ Elapsed(at, lastAction) < L2Interval

-----------------------------------------------------------------------------
(* The monitor task. *)

\* The next round of monitor_task's loop, with locals of its own, starts with
\* vTaskDelay.
Sleep ==
  /\ pc' = "sleep"
  /\ left' = PollTime
  /\ at' = 0 /\ seen' = 0 /\ seenIp' = 0

\* The delay is over: the task reads the clock, and only then asks for s_lock.
ReadClock ==
  /\ pc = "sleep" /\ left = 0
  /\ at' = now
  /\ pc' = "poll"
  /\ UNCHANGED <<left, seen, seenIp, now, netVars, healVars, rtcVars>>

\* The snapshot under s_lock.
Poll ==
  /\ pc = "poll"
  /\ UNCHANGED <<now, netVars, healVars, rtcVars>>

\* The monitor acts on its snapshot.
Act(next) ==
  /\ pc' = next
  /\ seen' = attempts
  /\ seenIp' = lastIp
  /\ UNCHANGED <<left, at>>

\* An IP is held, the grace window still runs, or a restart must wait.
PollQuiet ==
  /\ Poll
  /\ hasIp \/ NoIpFor < NoIpTime \/ (attempts >= L1Max /\ CoolingDown)
  /\ Sleep

PollReset ==
  /\ Poll
  /\ ~hasIp
  /\ NoIpFor >= NoIpTime
  /\ attempts < L1Max
  /\ Act("reset")

PollRestart_OneReset ==
  /\ Poll
  /\ ~hasIp
  /\ NoIpFor >= NoIpTime
  /\ attempts > 0
  /\ ~CoolingDown
  /\ Act("stamp")

PollRestart ==
  /\ Poll
  /\ ~hasIp
  /\ NoIpFor >= NoIpTime
  /\ attempts >= L1Max
  /\ ~CoolingDown
  /\ Act("stamp")

\* l1_w5500_reset: with an eth handle the driver is stopped, which posts an
\* ETHERNET_EVENT_STOP if it ran, the chip reset and the driver started again.
\* The outcome only goes to the event ring.
ResetW5500 ==
  /\ pc = "reset"
  /\ pc' = "starting"
  /\ stopPosted' \in {stopPosted, TRUE}
  /\ UNCHANGED <<left, at, seen, seenIp, now, link, hasIp, lastIp, healVars, rtcVars>>

\* The attempt is counted and stamped once the driver runs again.
CountReset ==
  /\ pc = "starting"
  /\ attempts' = attempts + 1
  /\ total' = total + 1
  /\ lastAction' = now
  /\ Sleep
  /\ UNCHANGED <<now, netVars, rtcVars>>

\* L1 is exhausted: the action is stamped, with the clock of the poll, before
\* l2_restart is called.
StampRestart ==
  /\ pc = "stamp"
  /\ lastAction' = at
  /\ pc' = "l2"
  /\ UNCHANGED <<left, at, seen, seenIp, now, netVars, attempts, total, rtcVars>>

\* The window start is a stamp of an earlier boot's clock; the subtraction
\* wraps when that stamp is larger than this boot's clock.
WindowElapsed == Elapsed(now, rtcStart) > Window

\* Restarts counted in the window l2_restart finds itself in.
Counted == IF WindowElapsed THEN 0 ELSE rtcCount

WindowStart == IF WindowElapsed THEN now ELSE rtcStart

\* l2_restart at the cap: stay up degraded.
StayUp ==
  /\ pc = "l2"
  /\ Counted >= BootMax
  /\ rtcCount' = Counted
  /\ rtcStart' = WindowStart
  /\ Sleep
  /\ UNCHANGED <<now, netVars, healVars>>

\* l2_restart below the cap: count, then wait for the log to drain.
CountRestart ==
  /\ pc = "l2"
  /\ Counted < BootMax
  /\ rtcCount' = Counted + 1
  /\ rtcStart' = WindowStart
  /\ pc' = "flush"
  /\ UNCHANGED <<left, at, seen, seenIp, now, netVars, healVars>>

\* Every boot: static variables are zero, bos_self_heal_start runs.
Boot ==
  /\ pc' = "sleep" /\ left' = PollTime /\ at' = 0 /\ seen' = 0 /\ seenIp' = 0
  /\ now' = 0
  /\ link' = FALSE /\ hasIp' = FALSE /\ lastIp' = 0 /\ stopPosted' = FALSE
  /\ lastAction' = 0 /\ attempts' = 0 /\ total' = 0

Restart ==
  /\ pc = "flush"
  /\ Boot
  /\ UNCHANGED rtcVars

Monitor ==
  \/ ReadClock \/ PollQuiet \/ PollReset \/ PollRestart \/ ResetW5500 \/ CountReset
  \/ StampRestart \/ StayUp \/ CountRestart \/ Restart

-----------------------------------------------------------------------------
(* The event task, and the rest of the world.  The handlers ask for nothing, *)
(* so the events come in any order.                                          *)

\* on_eth_event, ETHERNET_EVENT_CONNECTED.
Connected ==
  /\ link' = TRUE
  /\ UNCHANGED <<monitorVars, now, hasIp, lastIp, stopPosted, healVars, rtcVars>>

\* on_ip_event: an address on the backbone ends the episode.
GotIp ==
  /\ hasIp' = TRUE
  /\ lastIp' = now
  /\ attempts' = 0
  /\ UNCHANGED <<monitorVars, now, link, stopPosted, lastAction, total, rtcVars>>

\* on_eth_event, ETHERNET_EVENT_DISCONNECTED.
Disconnected ==
  /\ link' = FALSE
  /\ hasIp' = FALSE
  /\ UNCHANGED <<monitorVars, now, lastIp, stopPosted, healVars, rtcVars>>

\* on_eth_event, ETHERNET_EVENT_STOP.
Stopped ==
  /\ stopPosted
  /\ stopPosted' = FALSE
  /\ link' = FALSE
  /\ hasIp' = FALSE
  /\ UNCHANGED <<monitorVars, now, lastIp, healVars, rtcVars>>

\* Time passes while the monitor sleeps, waits for s_lock or restarts the
\* driver; its other steps take no time.
Tick ==
  /\ now < MaxUptime
  /\ \/ pc = "sleep" /\ left > 0 /\ left' = left - 1
     \/ pc = "poll" /\ now - at < LockWait /\ UNCHANGED left
     \/ pc = "starting" /\ UNCHANGED left
  /\ now' = now + 1
  /\ UNCHANGED <<pc, at, seen, seenIp, netVars, healVars, rtcVars>>

\* Another esp_restart (OTA, a panic): RTC memory survives.
OtherRestart ==
  /\ Boot
  /\ UNCHANGED rtcVars

\* Power-on: the RTC magic is absent, the RTC state starts afresh.
PowerCycle ==
  /\ Boot
  /\ rtcCount' = 0
  /\ rtcStart' = 0

World ==
  \/ Connected \/ GotIp \/ Disconnected \/ Stopped \/ Tick
  \/ OtherRestart \/ PowerCycle

Init ==
  /\ pc = "sleep" /\ left = PollTime /\ at = 0 /\ seen = 0 /\ seenIp = 0
  /\ now = 0
  /\ link = FALSE /\ hasIp = FALSE /\ lastIp = 0 /\ stopPosted = FALSE
  /\ lastAction = 0 /\ attempts = 0 /\ total = 0
  /\ rtcCount = 0 /\ rtcStart = 0

Next == Monitor \/ World

Spec == Init /\ [][Next]_vars

\* The monitor task is scheduled and time passes; nothing else is promised.
FairSpec == Spec /\ WF_vars(Monitor) /\ WF_vars(Tick)

-----------------------------------------------------------------------------
(* Properties. *)

Clock == 0 .. MaxUptime

TypeOK ==
  /\ pc \in {"sleep", "poll", "reset", "starting", "stamp", "l2", "flush"}
  /\ now \in Clock /\ left \in 0 .. PollTime
  /\ at \in Clock /\ seenIp \in Clock
  /\ seen \in 0 .. L1Max /\ attempts \in 0 .. L1Max
  /\ link \in BOOLEAN /\ hasIp \in BOOLEAN /\ stopPosted \in BOOLEAN
  /\ lastIp \in Clock /\ lastAction \in Clock
  /\ total \in Nat
  /\ rtcCount \in 0 .. BootMax /\ rtcStart \in Clock

\* The host is restarted only after the whole first rung of the ladder: at
\* least L1Max chip resets in this boot (:44 "before escalating to L2").
RestartIsLastResort == pc = "flush" => total >= L1Max

\* However events interleave with the monitor, a boot lasts at least the grace
\* windows between its resets and the cooldown before the restart: a fault that
\* never goes away cannot make the host restart faster than that.
Windows(k) == k * NoIpTime

EarliestRestart == PollTime + Windows(L1Max - 1) + L2Interval

NoHotLoop == pc = "flush" => now >= EarliestRestart

\* Every chip reset leaves the network a whole grace window: the next reset is
\* decided on no earlier than NoIpTime after the driver was restarted, also when
\* an address came and went before the poll.  The one exception is an address
\* that comes after the poll has read the clock and is gone at its snapshot:
\* last_ip is then ahead of the clock and the difference wraps.
GraceAfterReset ==
  pc = "reset" /\ seenIp <= at => lastAction = 0 \/ at - lastAction >= NoIpTime

\* What keeps the properties above inductive: stamps are in the past, and past
\* the clock of the poll only if an address has just ended the episode; the
\* first poll of a boot comes after PollTime; the k-th reset is stamped after
\* k - 1 grace windows; and the decision taken at a poll still stands when the
\* task acts on it, because only the monitor stamps actions.
HealInv ==
  /\ lastIp <= now /\ lastAction <= now
  /\ attempts <= total
  /\ pc = "sleep" => now + left >= PollTime
  /\ attempts > 0 => lastAction >= PollTime + Windows(attempts - 1)
  /\ pc \in {"poll", "reset", "stamp"} => PollTime <= at /\ at <= now /\ lastAction <= at
  /\ pc = "poll" /\ lastIp > at => attempts = 0
  /\ pc \in {"reset", "starting"} =>
       seen < L1Max /\ attempts <= seen /\ now >= PollTime + Windows(seen)
  /\ pc = "stamp" => at >= EarliestRestart
  /\ pc \in {"stamp", "l2", "flush"} => now >= EarliestRestart /\ total >= L1Max
  /\ GraceAfterReset

\* While no address comes the monitor acts: from any moment of its sleep it
\* resets the chip or turns to l2_restart within the longer of the two waits and
\* one poll with its wait for s_lock, unless the host restarts (now = 0).  No combination of the ladder's
\* conditions makes it wait longer.  A sleep that starts too late for that
\* within the model's clock is left out.
Deadline == PollTime + LockWait + IF NoIpTime > L2Interval THEN NoIpTime ELSE L2Interval

DownIsActedOn ==
  (~hasIp /\ pc = "sleep" /\ now + Deadline < MaxUptime)
    ~> (hasIp \/ pc \in {"reset", "l2"} \/ now = 0)

-----------------------------------------------------------------------------
\* Comment :342 "the later of the last successful IP and the last recovery
\* action (so each L1 attempt gets a fresh grace window before the next
\* escalation)": the code does not keep it when an address comes and goes
\* between the clock read and the snapshot.
FreshGraceWindow ==
  pc = "reset" => lastAction = 0 \/ at - lastAction >= NoIpTime
=============================================================================
