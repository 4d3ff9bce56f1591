------------------------------ MODULE MCOnboard ------------------------------
(* An onboarding and the gateway it runs over, checked side by side: each  *)
(* behaviour is one of one of the two (focus), while the other stands      *)
(* still.                                                                  *)
EXTENDS Onboard, Gateway, TLC

VARIABLE focus

sideVars == <<focus, vars, gateVars>>

Onboards == focus = "onboard" /\ UNCHANGED <<focus, gateVars>>
Gates    == focus = "gateway" /\ UNCHANGED <<focus, vars>>

(* What stands still starts in one of its initial states.                  *)
SideInit ==
  /\ focus \in {"onboard", "gateway"} /\ Init /\ GateInit
  /\ focus # "gateway" => Gateways = {} /\ ~meta /\ active = "none" /\ ~blind

SideNext == (Onboards /\ Next) \/ (Gates /\ GateNext)

SideSpec == SideInit /\ [][SideNext]_sideVars

(* One type invariant for the two.                                         *)
SideTypeOK == TypeOK /\ GateTypeOK

(* Providers, commands and pids are interchangeable; agents are not, one   *)
(* is the default.                                                         *)
Symmetry == Permutations(Prov) \cup Permutations(Actors) \cup Permutations(Pids)
==============================================================================
