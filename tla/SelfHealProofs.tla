--------------------------- MODULE SelfHealProofs ---------------------------
(***************************************************************************)
(* Proofs about SelfHeal, for every value of its thresholds.                *)
(***************************************************************************)
EXTENDS SelfHeal, TLAPS

USE SelfHealAssumption

Inv == TypeOK /\ HealInv

\* The thresholds are numbers, so the ranges of the types start at 0.
LEMMA Zeros ==
  /\ 0 \in 0 .. L1Max /\ 0 \in 0 .. MaxUptime /\ 0 \in 0 .. BootMax
  /\ PollTime \in 0 .. PollTime
  OBVIOUS

\* Grace windows add up.
LEMMA WindowsStep ==
  ASSUME NEW k \in Nat
  PROVE  Windows(k) \in Nat /\ Windows(k + 1) = Windows(k) + NoIpTime
  BY DEF Windows

\* More windows take no less time.
LEMMA WindowsMonotone ==
  ASSUME NEW j \in Nat, NEW k \in Nat, j <= k
  PROVE  Windows(j) <= Windows(k)
<1>1. PICK d \in Nat : k = j + d
  BY k - j \in Nat
<1>2. d * NoIpTime \in Nat
  OBVIOUS
<1>3. (j + d) * NoIpTime = j * NoIpTime + d * NoIpTime
  OBVIOUS
<1>. QED  BY <1>1, <1>2, <1>3 DEF Windows

\* With stamps before the clock of the poll the reference point is before it,
\* and the time without an address is an ordinary difference.
LEMMA NoIpForIsElapsed ==
  ASSUME TypeOK, lastIp <= at, lastAction <= at, NoIpFor >= NoIpTime
  PROVE  at - lastAction >= NoIpTime
  BY DEF TypeOK, Clock, NoIpFor, Elapsed, Reference

LEMMA BootInv ==
  ASSUME Inv, Boot, rtcCount' \in 0 .. BootMax, rtcStart' \in Clock
  PROVE  Inv'
<1>1. TypeOK'
  BY Zeros DEF Boot, TypeOK, Clock
<1>2. HealInv'
  BY DEF Boot, HealInv, GraceAfterReset
<1>. QED  BY <1>1, <1>2 DEF Inv

\* The clock is read once the delay is over; the stamps are not after it.
LEMMA ReadClockInv ==
  ASSUME Inv, ReadClock
  PROVE  Inv'
<1>1. TypeOK'
  BY DEF Inv, ReadClock, TypeOK, Clock, netVars, healVars, rtcVars
<1>2. HealInv'
  BY DEF Inv, ReadClock, TypeOK, HealInv, Clock, GraceAfterReset, Windows,
     netVars, healVars, rtcVars
<1>. QED  BY <1>1, <1>2 DEF Inv

LEMMA PollQuietInv ==
  ASSUME Inv, PollQuiet
  PROVE  Inv'
<1>1. TypeOK'
  BY Zeros DEF Inv, PollQuiet, Poll, Sleep, TypeOK, Clock, netVars, healVars, rtcVars
<1>2. HealInv'
  BY DEF Inv, PollQuiet, Poll, Sleep, TypeOK, HealInv, Clock, GraceAfterReset,
     Windows, netVars, healVars, rtcVars
<1>. QED  BY <1>1, <1>2 DEF Inv

\* A reset is decided on after a grace window since the last action, so that the
\* windows of the earlier resets plus one have passed; or after an address that
\* has just cleared the counter.
LEMMA PollResetInv ==
  ASSUME Inv, PollReset
  PROVE  Inv'
<1>1. TypeOK'
  BY DEF Inv, PollReset, Poll, Act, TypeOK, Clock, netVars, healVars, rtcVars
<1>2. lastIp <= at => at - lastAction >= NoIpTime
  BY NoIpForIsElapsed DEF Inv, HealInv, PollReset, Poll
<1>3. PollTime <= at /\ at <= now /\ now \in Nat /\ at \in Nat /\ attempts \in Nat
  BY DEF Inv, TypeOK, Clock, HealInv, PollReset, Poll
<1>4. now >= PollTime + Windows(attempts)
  <2>1. CASE attempts = 0
    <3>1. Windows(0) = 0
      BY DEF Windows
    <3>. QED  BY <1>3, <2>1, <3>1
  <2>2. CASE attempts > 0
    <3>1. attempts - 1 \in Nat /\ (attempts - 1) + 1 = attempts
      BY <1>3, <2>2
    <3>2. Windows(attempts) = Windows(attempts - 1) + NoIpTime
          /\ Windows(attempts - 1) \in Nat
      BY <3>1, WindowsStep
    <3>3. lastAction >= PollTime + Windows(attempts - 1)
      BY <2>2 DEF Inv, HealInv
    <3>4. lastIp <= at
      BY <2>2 DEF Inv, TypeOK, Clock, HealInv, PollReset, Poll
    <3>. QED  BY <1>2, <1>3, <3>2, <3>3, <3>4 DEF Inv, TypeOK, Clock
  <2>. QED  BY <1>3, <2>1, <2>2
<1>5. HealInv'
  BY <1>2, <1>3, <1>4 DEF Inv, PollReset, Poll, Act, TypeOK, HealInv, Clock,
     GraceAfterReset, Windows, netVars, healVars, rtcVars
<1>. QED  BY <1>1, <1>5 DEF Inv

\* A restart is decided on after the cooldown since the last of L1Max resets.
LEMMA PollRestartInv ==
  ASSUME Inv, PollRestart
  PROVE  Inv'
<1>1. TypeOK'
  BY DEF Inv, PollRestart, Poll, Act, TypeOK, Clock, netVars, healVars, rtcVars
<1>2. attempts = L1Max
  BY DEF Inv, TypeOK, PollRestart
<1>3. Windows(L1Max - 1) \in Nat
  BY WindowsStep, L1Max - 1 \in Nat
<1>4. lastAction >= PollTime + Windows(L1Max - 1)
  BY <1>2 DEF Inv, HealInv
<1>5. PollTime <= at /\ at <= now /\ lastAction <= at
  BY DEF Inv, HealInv, PollRestart, Poll
<1>6. at - lastAction >= L2Interval
  BY <1>3, <1>4, <1>5 DEF Inv, TypeOK, Clock, PollRestart, CoolingDown, Elapsed
<1>7. at >= EarliestRestart /\ now >= EarliestRestart
  BY <1>3, <1>4, <1>5, <1>6 DEF Inv, TypeOK, Clock, EarliestRestart
<1>8. HealInv'
  BY <1>2, <1>5, <1>7 DEF Inv, PollRestart, Poll, Act, TypeOK, HealInv, Clock,
     GraceAfterReset, EarliestRestart, Windows, netVars, healVars, rtcVars
<1>. QED  BY <1>1, <1>8 DEF Inv

LEMMA ResetW5500Inv ==
  ASSUME Inv, ResetW5500
  PROVE  Inv'
  BY DEF Inv, ResetW5500, TypeOK, HealInv, Clock, GraceAfterReset,
     Windows, EarliestRestart, healVars, rtcVars

\* The reset is stamped with a clock that is past all earlier windows, also
\* when an address came in between and cleared the counter.
LEMMA CountResetInv ==
  ASSUME Inv, CountReset
  PROVE  Inv'
<1>1. TypeOK'
  BY Zeros DEF Inv, CountReset, Sleep, TypeOK, HealInv, Clock, netVars, rtcVars
<1>2. Windows(attempts) <= Windows(seen) /\ Windows(attempts) \in Nat
      /\ Windows(seen) \in Nat
  <2>1. attempts \in Nat /\ seen \in Nat /\ attempts <= seen
    BY DEF Inv, TypeOK, HealInv, CountReset
  <2>. QED  BY <2>1, WindowsMonotone, WindowsStep
<1>3. now >= PollTime + Windows(attempts)
  BY <1>2 DEF Inv, TypeOK, HealInv, Clock, CountReset
<1>4. attempts' - 1 = attempts
  BY DEF Inv, TypeOK, CountReset
<1>5. lastAction' >= PollTime + Windows(attempts' - 1)
  BY <1>3, <1>4 DEF CountReset
<1>6. HealInv'
  BY <1>5 DEF Inv, CountReset, Sleep, TypeOK, HealInv, Clock,
     GraceAfterReset, Windows, netVars, rtcVars
<1>. QED  BY <1>1, <1>6 DEF Inv

LEMMA RestartPathInv ==
  ASSUME Inv, StampRestart \/ StayUp \/ CountRestart
  PROVE  Inv'
<1>1. Windows(L1Max - 1) \in Nat
  BY WindowsStep, L1Max - 1 \in Nat
<1>2. CASE StampRestart
  <2>1. TypeOK'
    BY <1>2 DEF Inv, StampRestart, TypeOK, Clock, netVars, rtcVars
  <2>2. at >= PollTime + Windows(L1Max - 1)
    BY <1>1, <1>2 DEF Inv, TypeOK, HealInv, Clock, StampRestart, EarliestRestart
  <2>3. attempts > 0 => lastAction' >= PollTime + Windows(attempts - 1)
    <3>. SUFFICES ASSUME attempts > 0
                  PROVE  lastAction' >= PollTime + Windows(attempts - 1)
      OBVIOUS
    <3>1. attempts - 1 \in Nat /\ L1Max - 1 \in Nat /\ attempts - 1 <= L1Max - 1
      BY DEF Inv, TypeOK
    <3>2. Windows(attempts - 1) <= Windows(L1Max - 1)
          /\ Windows(attempts - 1) \in Nat
      BY <3>1, WindowsMonotone, WindowsStep
    <3>. QED  BY <1>1, <1>2, <2>2, <3>2 DEF Inv, TypeOK, Clock, StampRestart
  <2>4. HealInv'
    BY <1>2, <2>3 DEF Inv, StampRestart, TypeOK, HealInv, Clock,
       GraceAfterReset, EarliestRestart, Windows, netVars, rtcVars
  <2>. QED  BY <2>1, <2>4 DEF Inv
<1>3. CASE StayUp
  <2>1. TypeOK'
    BY Zeros, <1>3 DEF Inv, StayUp, Sleep, Counted, WindowStart, TypeOK, Clock,
       netVars, healVars
  <2>2. HealInv'
    BY <1>3 DEF Inv, StayUp, Sleep, TypeOK, HealInv, Clock, GraceAfterReset,
       Windows, netVars, healVars
  <2>. QED  BY <2>1, <2>2 DEF Inv
<1>4. CASE CountRestart
  <2>1. TypeOK'
    BY <1>4 DEF Inv, CountRestart, Counted, WindowStart, TypeOK, Clock,
       netVars, healVars
  <2>2. HealInv'
    BY <1>4 DEF Inv, CountRestart, TypeOK, HealInv, Clock, GraceAfterReset,
       EarliestRestart, Windows, netVars, healVars
  <2>. QED  BY <2>1, <2>2 DEF Inv
<1>. QED  BY <1>2, <1>3, <1>4

\* Events: an address ends the episode, everything else leaves the ladder alone.
LEMMA EventInv ==
  ASSUME Inv, Connected \/ GotIp \/ Disconnected \/ Stopped
  PROVE  Inv'
<1>1. CASE GotIp
  BY <1>1 DEF Inv, GotIp, TypeOK, HealInv, Clock, GraceAfterReset,
     EarliestRestart, Windows, monitorVars, rtcVars
<1>2. CASE Connected \/ Disconnected \/ Stopped
  BY <1>2 DEF Inv, Connected, Disconnected, Stopped, TypeOK, HealInv, Clock,
     GraceAfterReset, EarliestRestart, Windows, monitorVars, healVars, rtcVars
<1>. QED  BY <1>1, <1>2

LEMMA TickInv ==
  ASSUME Inv, Tick
  PROVE  Inv'
<1>1. TypeOK'
  BY DEF Inv, Tick, TypeOK, Clock, netVars, healVars, rtcVars
<1>2. Windows(seen) \in Nat
  BY WindowsStep DEF Inv, TypeOK
<1>3. HealInv'
  <2>1. pc \in {"sleep", "poll", "starting"}
    BY DEF Tick
  <2>2. attempts > 0 => lastAction' >= PollTime + Windows(attempts' - 1)
    BY DEF Inv, HealInv, Tick, healVars
  <2>3. pc = "starting" => now' >= PollTime + Windows(seen')
    BY <1>2 DEF Inv, TypeOK, Clock, HealInv, Tick
  <2>. QED  BY <2>1, <2>2, <2>3 DEF Inv, Tick, TypeOK, HealInv, Clock,
     GraceAfterReset, netVars, healVars, rtcVars
<1>. QED  BY <1>1, <1>3 DEF Inv

LEMMA StutterInv ==
  ASSUME Inv, UNCHANGED vars
  PROVE  Inv'
  BY DEF Inv, vars, TypeOK, HealInv, Clock, GraceAfterReset, EarliestRestart,
     Windows, monitorVars, netVars, healVars, rtcVars

\* The strengthening holds in every reachable state.
THEOREM Inductive == Spec => []Inv
<1>1. Init => Inv
  <2>1. Init => TypeOK
    <3>. SUFFICES ASSUME Init PROVE TypeOK
      OBVIOUS
    <3>1. now \in Clock /\ lastIp \in Clock /\ lastAction \in Clock
          /\ rtcStart \in Clock /\ rtcCount \in 0 .. BootMax
      BY Zeros DEF Init, Clock
    <3>2. left \in 0 .. PollTime /\ seen \in 0 .. L1Max /\ attempts \in 0 .. L1Max
      BY Zeros DEF Init
    <3>. QED  BY <3>1, <3>2 DEF Init, TypeOK
  <2>2. Init => HealInv
    BY DEF Init, HealInv, GraceAfterReset
  <2>. QED  BY <2>1, <2>2 DEF Inv
<1>2. Inv /\ [Next]_vars => Inv'
  <2>. SUFFICES ASSUME Inv, [Next]_vars PROVE Inv'
    OBVIOUS
  <2>1. CASE Restart \/ OtherRestart \/ PowerCycle
    <3>1. rtcCount' \in 0 .. BootMax /\ rtcStart' \in Clock
      BY <2>1 DEF Inv, TypeOK, Clock, Restart, OtherRestart, PowerCycle, rtcVars
    <3>. QED  BY <2>1, <3>1, BootInv DEF Restart, OtherRestart, PowerCycle
  <2>0. CASE ReadClock
    BY <2>0, ReadClockInv
  <2>2. CASE PollQuiet
    BY <2>2, PollQuietInv
  <2>3. CASE PollReset
    BY <2>3, PollResetInv
  <2>4. CASE PollRestart
    BY <2>4, PollRestartInv
  <2>5. CASE ResetW5500
    BY <2>5, ResetW5500Inv
  <2>6. CASE CountReset
    BY <2>6, CountResetInv
  <2>7. CASE StampRestart \/ StayUp \/ CountRestart
    BY <2>7, RestartPathInv
  <2>8. CASE Connected \/ GotIp \/ Disconnected \/ Stopped
    BY <2>8, EventInv
  <2>9. CASE Tick
    BY <2>9, TickInv
  <2>10. CASE UNCHANGED vars
    BY <2>10, StutterInv
  <2>. QED  BY <2>0, <2>1, <2>2, <2>3, <2>4, <2>5, <2>6, <2>7, <2>8, <2>9, <2>10
     DEF Next, Monitor, World
<1>. QED  BY <1>1, <1>2, PTL DEF Spec

\* Every variable keeps its type; in particular neither counter of the ladder
\* exceeds its maximum.
THEOREM TypeCorrect == Spec => []TypeOK
<1>1. Inv => TypeOK
  BY DEF Inv
<1>. QED  BY <1>1, Inductive, PTL

\* The host restarts only after L1Max chip resets.
THEOREM LastResort == Spec => []RestartIsLastResort
<1>1. Inv => RestartIsLastResort
  BY DEF Inv, HealInv, RestartIsLastResort
<1>. QED  BY <1>1, Inductive, PTL

\* A boot that ends in a self-heal restart lasts at least EarliestRestart.
THEOREM HotLoopFree == Spec => []NoHotLoop
<1>1. Inv => NoHotLoop
  BY DEF Inv, HealInv, NoHotLoop
<1>. QED  BY <1>1, Inductive, PTL

\* Consecutive chip resets are a grace window apart, unless an address comes and
\* goes between the clock read and the snapshot of a poll.
THEOREM Grace == Spec => []GraceAfterReset
<1>1. Inv => GraceAfterReset
  BY DEF Inv, HealInv
<1>. QED  BY <1>1, Inductive, PTL
=============================================================================
