----------------------------- MODULE Onboarding -----------------------------
(***************************************************************************)
(* The start of the border router and what an operator does to it then: the   *)
(* Thread bring-up together with the joiner routes it serves, and the         *)
(* commissioned identity.                                                     *)
(*                                                                          *)
(* Joiners need OpenThread up, a petition needs Thread on a network, and a    *)
(* restart empties the queue and OpenThread's table.  The identity shares no  *)
(* state with either, so a behaviour is of one part: the joint state space    *)
(* is the sum of the two and no behaviour of either is lost.                  *)
(***************************************************************************)
EXTENDS ThreadBringUp, Joiner, Commissioning

VARIABLE part   \* "mesh" or "identity"

vars == <<part, upVars, joinerVars, commVars>>

OtUp == main = "up"

Attached == running # NoNet

\* A petition is sent only on a network.  A border router that leaves it loses
\* the role by a step of its own (CommissionerStops).
JoinerStep ==
  /\ OtUp /\ JoinerNext
  /\ comm = "disabled" /\ comm' = "petition" => Attached

\* RAM goes with a restart.
JoinerForgets ==
  /\ comm' = "disabled" /\ owner' = "bos" /\ pending' = <<>>
  /\ joiners' = NoJoiners /\ accepted' = [e \in Euis |-> NoPskd]

MeshNext ==
  /\ part = "mesh"
  /\ \/ /\ BringUpNext
        /\ IF main' = "init" THEN JoinerForgets ELSE UNCHANGED joinerVars
     \/ JoinerStep /\ UNCHANGED upVars
  /\ UNCHANGED <<part, commVars>>

IdentityNext ==
  part = "identity" /\ CommissionNext /\ UNCHANGED <<part, upVars, joinerVars>>

Init == BringUpInit /\ JoinerInit /\ CommissionInit /\ part \in {"mesh", "identity"}

Next == MeshNext \/ IdentityNext

\* The bring-up task has the processor (its own FreeRTOS task) and OpenThread
\* answers its petitions.
Fairness ==
  /\ WF_vars(part = "mesh" /\ BringUpStep /\ UNCHANGED <<part, joinerVars, commVars>>)
  /\ WF_vars(/\ part = "mesh" /\ comm = "petition"
             /\ (PetitionGranted \/ CommissionerStops) /\ UNCHANGED <<part, upVars, commVars>>)

Spec == Init /\ [][Next]_vars /\ Fairness

TypeOK == BringUpTypeOK /\ JoinerTypeOK /\ CommissionTypeOK
=============================================================================
