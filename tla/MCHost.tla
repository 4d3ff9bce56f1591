------------------------------- MODULE MCHost -------------------------------
(* Components checked for safety side by side: each behaviour is one of    *)
(* one component (focus), while the others stand still.                    *)
EXTENDS Lifecycle, Create, Snapshot, Inference

VARIABLE focus

hostVars == <<focus, lifecycleVars, makeVars, snapVars, inferVars>>

Living    == focus = "lifecycle" /\ UNCHANGED <<focus, makeVars, snapVars, inferVars>>
Making    == focus = "create" /\ UNCHANGED <<focus, lifecycleVars, snapVars, inferVars>>
Snapping  == focus = "snapshot" /\ UNCHANGED <<focus, lifecycleVars, makeVars, inferVars>>
Inferring == focus = "inference" /\ UNCHANGED <<focus, lifecycleVars, makeVars, snapVars>>

(* What stands still starts in one of its initial states.                  *)
HostInit ==
  /\ focus \in {"lifecycle", "create", "snapshot", "inference"}
  /\ LifecycleInit /\ MakeInit /\ SnapInit /\ InferInit
  /\ focus # "lifecycle" => box = OnboardedBox({}, Extra, {})
  /\ focus # "create" => ~wanted
  /\ focus # "snapshot" => /\ \A b \in Boxes : row[b].listed
                           /\ disk[CHOOSE b \in Boxes : TRUE].dir = Files
  /\ focus # "inference" => helper = "proxy" /\ saved = NoSecret

HostNext ==
  \/ Living /\ LifecycleNext
  \/ Making /\ MakeNext
  \/ Snapping /\ SnapNext
  \/ Inferring /\ InferNext

HostSpec == HostInit /\ [][HostNext]_hostVars

(* One type invariant for the four.                                        *)
HostTypeOK == LifecycleTypeOK /\ MakeTypeOK /\ SnapTypeOK /\ InferTypeOK
=============================================================================
