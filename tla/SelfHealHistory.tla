-------------------------- MODULE SelfHealHistory --------------------------
(***************************************************************************)
(* SelfHeal with what an observer outside would write down: when the        *)
(* address was last lost, and how long ago, in ticks of a clock that no     *)
(* restart resets, the latest self-heal restarts happened.                  *)
(***************************************************************************)
EXTENDS SelfHeal, Sequences

VARIABLES
  downAt,  \* history: clock when the address was lost, 0 since boot
  recent   \* history: ages of the latest BootMax + 1 L2 restarts
           \* since power-on, newest first

histVars == <<vars, downAt, recent>>

\* An age beyond the window is as good as any other.
Older(age) == IF age > Window THEN age ELSE age + 1

NextDownAt ==
  IF now' < now THEN 0 ELSE IF hasIp /\ ~hasIp' THEN now' ELSE downAt

HistoryInit == Init /\ downAt = 0 /\ recent = << >>

\* The steps of SelfHeal, each with its entry in the record.
HistoryNext ==
  \/ /\ Restart
     /\ recent' = SubSeq(<<0>> \o recent, 1,
                    IF Len(recent) <= BootMax THEN Len(recent) + 1 ELSE BootMax + 1)
     /\ downAt' = 0
  \/ /\ Tick
     /\ recent' = [i \in DOMAIN recent |-> Older(recent[i])]
     /\ UNCHANGED downAt
  \/ /\ PowerCycle
     /\ recent' = << >>
     /\ downAt' = 0
  \/ /\ Next /\ ~Restart /\ ~Tick /\ ~PowerCycle
     /\ UNCHANGED recent
     /\ downAt' = NextDownAt

HistorySpec == HistoryInit /\ [][HistoryNext]_histVars

\* Comment :40 "45 s after boot (or after a disconnect) with no IPv4 ... Below
\* this we do nothing".
GraceAfterDisconnect ==
  [][pc = "sleep" /\ pc' = "reset" => now - downAt >= NoIpTime]_histVars

\* Comment :56 "if more than this many self-heal-driven restarts happen inside
\* the window, stop restarting".
BootLoopCapped ==
  Len(recent) = BootMax + 1 => recent[BootMax + 1] > Window
=============================================================================
