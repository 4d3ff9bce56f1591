----------------------------- MODULE MCHostLive -----------------------------
(* The liveness of the components, side by side: in each behaviour one of  *)
(* them moves (focus) and the others stand still.  The shields come twice: *)
(* with windows and no crash, and with one crash to recover from.          *)
EXTENDS Create

CONSTANTS
  Cli, Token, Pid, NoToken, NoPid, NoSnap, Snapshots  \* of Shields

VARIABLES
  focus,
  s_file, s_policy, s_cfg, s_content, s_marker, s_timer, s_others, s_due, s_cli,
  s_faults, s_crashes, s_unrecorded

S == INSTANCE Shields WITH
  Snap <- Snapshots, MaxFaults <- 0, MaxCrashes <- 1, PromptMark <- TRUE,
  file <- s_file, policy <- s_policy, cfg <- s_cfg, content <- s_content,
  marker <- s_marker, timer <- s_timer, others <- s_others, due <- s_due,
  cli <- s_cli, faults <- s_faults, crashes <- s_crashes,
  unrecorded <- s_unrecorded

s_vars == <<s_file, s_policy, s_cfg, s_content, s_marker, s_timer, s_others, s_due, s_cli,
            s_faults, s_crashes, s_unrecorded>>
liveVars == <<focus, s_vars, makeVars>>

Shielding == /\ focus \in {"window", "recovery"} /\ UNCHANGED <<focus, makeVars>>
             /\ focus = "window" => UNCHANGED s_crashes
Making    == focus = "create" /\ UNCHANGED <<focus, s_vars>>

LiveInit ==
  /\ focus \in {"window", "recovery", "create"}
  /\ S!Init /\ MakeInit
  /\ focus # "create" => ~wanted

LiveNext ==
  \/ Shielding /\ S!Next
  \/ Making /\ MakeNext

(* The fairness of S!FairSpec.                                             *)
ShieldsFair ==
  /\ \A c \in Cli : WF_liveVars(Shielding /\ (S!Down(c) \/ S!Up(c) \/ S!Status(c)))
  /\ \A t \in Token :
       WF_liveVars(Shielding /\ S!TimerRuns(t)) /\ WF_liveVars(Shielding /\ S!Expire(t))

(* The gateway reports a sandbox, the command prints what it does, and the *)
(* poll and the handlers run when they are due.                            *)
CreateFair ==
  /\ WF_liveVars(Making /\ ChildPrints) /\ WF_liveVars(Making /\ GatewayReports)
  /\ WF_liveVars(Making /\ PollReady) /\ WF_liveVars(Making /\ PollPatch)
  /\ WF_liveVars(Making /\ CloseChecks) /\ WF_liveVars(Making /\ CloseEnds)
  /\ WF_liveVars(Making /\ PatchNext) /\ WF_liveVars(Making /\ JudgeStream)

LiveSpec == LiveInit /\ [][LiveNext]_liveVars /\ ShieldsFair /\ CreateFair

-----------------------------------------------------------------------------
(* Every window closes, when nothing crashes (timer.ts).                   *)
WindowCloses == (focus = "window" /\ S!FileDown = "yes") ~> S!FileDown # "yes"

(* The first status after restoreAt closes a window whose timer died.      *)
AbandonedWindowRecovered == S!AbandonedWindowRecovered
=============================================================================
