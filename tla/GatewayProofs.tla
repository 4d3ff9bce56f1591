--------------------------- MODULE GatewayProofs ---------------------------
(* Theorems about Gateway, for every number of commands and processes, and *)
(* about MCOnboard, which puts it beside Onboard.                          *)
EXTENDS MCOnboard, OnboardProofs, TLAPS

(***************************************************************************)
(* Types.                                                                  *)
(***************************************************************************)

(* What is not the commands' own or the history's.                         *)
WorldOK ==
  /\ gate \in [Pids -> {"free", "other", "boot", "up", "end"}] /\ old \subseteq Pids
  /\ pidFile \in Pids \cup {NoPid}
  /\ meta \in BOOLEAN /\ active \in {"ours", "other", "none"}
  /\ blind \in BOOLEAN /\ live \in BOOLEAN /\ entry \in BOOLEAN /\ named \in BOOLEAN
  /\ gateCmds \in 0 .. MaxGateCmds /\ gateEvents \in 0 .. MaxGateEvents

(* So does a registration that fails.                                      *)
LEMMA RegisterFailsWorld ==
  ASSUME GateTypeOK, NEW a, NEW l, RegisterFails(a, l)
  PROVE  WorldOK' /\ live' = live /\ blind' = blind
<1> USE DEF RegisterFails, SameProcesses, SameRecords, processes, records, GateTypeOK
<1>1. gateEvents' \in 0 .. MaxGateEvents
  BY GateBounds
<1>2. meta' \in BOOLEAN
  BY Zenon
<1>3. active' \in {"ours", "other", "none"}
  BY Zenon
<1>4. /\ gate' = gate /\ old' = old /\ pidFile' = pidFile /\ live' = live /\ entry' = entry
      /\ named' = named /\ blind' = blind /\ gateCmds' = gateCmds
  OBVIOUS
<1>5. QED
  BY <1>1, <1>2, <1>3, <1>4 DEF WorldOK

(* A step of a command keeps the types of what is shared.                  *)
LEMMA CommandWorld ==
  ASSUME GateTypeOK, NEW a \in Actors, CommandStep(a)
  PROVE  WorldOK' /\ live' = live /\ blind' = blind
<1> USE GateBounds
<1> USE DEF GateTypeOK, WorldOK, Keep, SameProcesses, SameSelection, SameRecords,
            OnlyMoves, processes, selection, records, budgets
<1>0. cmd[a].pid \in Pids \cup {NoPid}
  BY DEF GateCommands
<1>1. CASE Begin(a)
  BY <1>1 DEF Begin
<1>2. CASE Connecting(a)
  <2>1. CASE Lookup(a)
    BY <2>1 DEF Lookup
  <2>2. CASE Reconcile(a)
    BY <2>2 DEF Reconcile
  <2>3. CASE Reselect(a)
    BY <2>3 DEF Reselect, SelectThen, Select
  <2>4. CASE Retry(a)
    BY <2>4 DEF Retry
  <2>5. CASE Reclassify(a)
    BY <2>5 DEF Reclassify, ElseFinish
  <2>6. CASE Guard(a)
    BY <2>6 DEF Guard, ElseFinish
  <2>7. CASE RemoveEntry(a)
    BY <2>7 DEF RemoveEntry
  <2>8. CASE ForgetName(a)
    BY <2>8 DEF ForgetName
  <2>9. CASE Before(a)
    BY <2>9 DEF Before
  <2>10. CASE SelectNamed(a)
    BY <2>10 DEF SelectNamed, SelectThen, Select
  <2>11. CASE After1(a)
    BY <2>11 DEF After1
  <2>12. CASE After2(a)
    BY <2>12 DEF After2
  <2>13. CASE Recovered(a)
    BY <2>13 DEF Recovered
  <2> QED
    BY <1>2, <2>1, <2>2, <2>3, <2>4, <2>5, <2>6, <2>7, <2>8, <2>9, <2>10, <2>11, <2>12, <2>13 DEF Connecting
<1>3. CASE Starting(a)
  <2>1. CASE LookAtPidFile(a)
    BY <2>1 DEF LookAtPidFile, ClearFiles, Gateways
  <2>2. CASE RegisterKnown(a)
    BY <2>2, RegisterFailsWorld DEF RegisterKnown, Registers
  <2>3. CASE ProbeHttp(a)
    BY <2>3 DEF ProbeHttp
  <2>4. CASE ProbePort(a)
    BY <2>4 DEF ProbePort, ProbePortWith, Remember, Found, Listeners
  <2>5. CASE Adopt(a)
    BY <2>5, RegisterFailsWorld DEF Adopt, Registers
  <2>6. CASE ProbeAdopted(a)
    BY <2>6 DEF ProbeAdopted
  <2>7. CASE EndExisting(a)
    BY <2>7, <1>0 DEF EndExisting, Signalled, ClearFiles, Gateways
  <2>8. CASE SpawnGateway(a)
    BY <2>8 DEF SpawnGateway
  <2>9. CASE RememberChild(a)
    BY <2>9, <1>0 DEF RememberChild, Remember
  <2>10. CASE Poll(a)
    BY <2>10, RegisterFailsWorld DEF Poll, Registers
  <2>11. CASE CheckReady(a)
    BY <2>11 DEF CheckReady, ReadyIf
  <2>12. CASE VerifyBridge(a)
    BY <2>12 DEF VerifyBridge
  <2> QED
    BY <1>3, <2>1, <2>2, <2>3, <2>4, <2>5, <2>6, <2>7, <2>8, <2>9, <2>10, <2>11, <2>12 DEF Starting
<1>4. CASE Stopping(a)
  <2>1. CASE Terminate(a)
    BY <2>1, <1>0 DEF Terminate, Signalled
  <2>2. CASE AwaitEnd(a)
    BY <2>2, <1>0 DEF AwaitEnd
  <2>3. CASE ClearStopped(a)
    BY <2>3 DEF ClearStopped, ClearFiles
  <2> QED
    BY <1>4, <2>1, <2>2, <2>3 DEF Stopping
<1>5. CASE Onboarding(a)
  <2>1. CASE Snapshot(a)
    BY <2>1 DEF Snapshot
  <2>2. CASE SelectForReuse(a)
    BY <2>2 DEF SelectForReuse, SelectThen, Select
  <2>3. CASE SnapshotAgain(a)
    BY <2>3 DEF SnapshotAgain
  <2>4. CASE Refresh(a)
    BY <2>4 DEF Refresh, Found, Listeners, Remember, ClearFiles
  <2>5. CASE CheckPort(a)
    BY <2>5 DEF CheckPort, Remember, Found, Listeners
  <2>6. CASE HandleGateway(a)
    BY <2>6 DEF HandleGateway
  <2>7. CASE Stop(a)
    BY <2>7 DEF Stop, StopIf, ClearFiles, Gateways
  <2>8. CASE Unregister(a)
    BY <2>8 DEF Unregister
  <2> QED
    BY <1>5, <2>1, <2>2, <2>3, <2>4, <2>5, <2>6, <2>7, <2>8 DEF Onboarding
<1> QED
  BY <1>1, <1>2, <1>3, <1>4, <1>5 DEF CommandStep

(* The records a command can become.                                       *)
Reuses == {"none", "healthy", "foreign", "stale", "missing"}
Nexts  == {"idle", "port", "existing", "unregister"}
LEMMA FormsIn ==
  ASSUME NEW c \in GateCommands, NEW l \in GatePc, NEW k \in Nexts, NEW p \in Pids \cup {NoPid},
         NEW s \in Reuses, NEW pin \in BOOLEAN
  PROVE  /\ [c EXCEPT !.pc = l] \in GateCommands
         /\ [c EXCEPT !.pc = l, !.pid = p] \in GateCommands
         /\ [c EXCEPT !.pc = l, !.pin = pin] \in GateCommands
         /\ [c EXCEPT !.pc = l, !.pid = p, !.then = k] \in GateCommands
         /\ [c EXCEPT !.pc = l, !.then = k, !.pid = p] \in GateCommands
         /\ [c EXCEPT !.reuse = s, !.pin = pin, !.pc = l] \in GateCommands
         /\ [c EXCEPT !.reuse = s, !.pc = l] \in GateCommands
         /\ [c EXCEPT !.pc = l, !.op = "step", !.reuse = s] \in GateCommands
<1> USE DEF GateCommands, Reuses, Nexts
<1>1. [c EXCEPT !.pc = l] \in GateCommands
  OBVIOUS
<1>2. [c EXCEPT !.pc = l, !.pid = p] \in GateCommands
  OBVIOUS
<1>3. [c EXCEPT !.pc = l, !.pin = pin] \in GateCommands
  OBVIOUS
<1>4. [c EXCEPT !.pc = l, !.pid = p, !.then = k] \in GateCommands
  OBVIOUS
<1>5. [c EXCEPT !.pc = l, !.then = k, !.pid = p] \in GateCommands
  OBVIOUS
<1>6. [c EXCEPT !.reuse = s, !.pin = pin, !.pc = l] \in GateCommands
  OBVIOUS
<1>7. [c EXCEPT !.reuse = s, !.pc = l] \in GateCommands
  OBVIOUS
<1>8. [c EXCEPT !.pc = l, !.op = "step", !.reuse = s] \in GateCommands
  OBVIOUS
<1>9. QED
  BY <1>1, <1>2, <1>3, <1>4, <1>5, <1>6, <1>7, <1>8

LEMMA NoCmdIn ==
  NoCmd \in GateCommands
  /\ \A l \in GatePc, k \in {"connect", "preflight"} : [NoCmd EXCEPT !.pc = l, !.op = k] \in GateCommands
  BY DEF NoCmd, GateCommands, GatePc

LEMMA JudgedIn ==
  ASSUME NEW a \in Actors, cmd[a] \in GateCommands, NEW s \in Reuses, NEW pin \in BOOLEAN,
         Judged(a, s, pin) \/ Refreshes(a, pin)
  PROVE  \E r \in GateCommands : Become(a, r)
<1> DEFINE l == IF cmd[a].op = "preflight" THEN "busy" ELSE "handler"
<1>1. l \in GatePc /\ "refresh" \in GatePc
  BY DEF GatePc, OnboardPc
<1>2. CASE Refreshes(a, pin)
  <2>1. [cmd[a] EXCEPT !.pc = "refresh", !.pin = pin] \in GateCommands
    BY <1>1 DEF GateCommands
  <2>2. QED
    BY <1>2, <2>1 DEF Refreshes
<1>3. CASE Judged(a, s, pin)
  <2>1. [cmd[a] EXCEPT !.reuse = s, !.pin = pin, !.pc = l] \in GateCommands
    BY <1>1 DEF GateCommands, Reuses
  <2>2. QED
    BY <1>3, <2>1 DEF Judged
<1>4. QED
  BY <1>2, <1>3

LEMMA ClearedIn ==
  ASSUME NEW c \in GateCommands
  PROVE  [c EXCEPT !.pc = c.then, !.then = "idle",
                   !.pid = IF c.then = "existing" THEN @ ELSE NoPid] \in GateCommands
<1>1. c.then \in GatePc
  BY DEF GateCommands, GatePc, StartPc, OnboardPc
<1>2. QED
  BY <1>1 DEF GateCommands

(* A step of a command changes one command, to a record of the type.       *)
LEMMA CommandBecomes ==
  ASSUME GateTypeOK, NEW a \in Actors, CommandStep(a)
  PROVE  \E r \in GateCommands : Become(a, r)
<1> USE FormsIn, NoCmdIn DEF Finish, Move, StopThen, StartOver, Step,
                             Registers, RegisterFails, SelectThen, Reuses, Nexts
<1>a. cmd[a] \in GateCommands
  BY DEF GateTypeOK
<1>0. /\ cmd[a] \in GateCommands /\ cmd[a].then \in Nexts /\ cmd[a].pid \in Pids \cup {NoPid}
      /\ cmd[a].pin \in BOOLEAN /\ cmd[a].reuse \in Reuses
  BY <1>a DEF GateCommands
<1>j. ASSUME NEW s \in Reuses, NEW pin \in BOOLEAN, Judged(a, s, pin) \/ Refreshes(a, pin)
      PROVE  \E r \in GateCommands : Become(a, r)
  BY <1>0, <1>j, JudgedIn
<1>1. CASE Begin(a)
  BY <1>1, <1>0 DEF Begin, GatePc, ConnectPc, StartPc, StopPc, OnboardPc
<1>2. CASE Connecting(a)
  <2>1. CASE Lookup(a)
    BY <2>1, <1>0 DEF Lookup, GatePc, ConnectPc, StartPc, StopPc, OnboardPc
  <2>2. CASE Reconcile(a)
    BY <2>2, <1>0 DEF Reconcile, GatePc, ConnectPc, StartPc, StopPc, OnboardPc
  <2>3. CASE Reselect(a)
    BY <2>3, <1>0 DEF Reselect, GatePc, ConnectPc, StartPc, StopPc, OnboardPc
  <2>4. CASE Retry(a)
    BY <2>4, <1>0 DEF Retry, GatePc, ConnectPc, StartPc, StopPc, OnboardPc
  <2>5. CASE Reclassify(a)
    BY <2>5, <1>0 DEF Reclassify, ElseFinish, GatePc, ConnectPc, StartPc, StopPc, OnboardPc
  <2>6. CASE Guard(a)
    BY <2>6, <1>0 DEF Guard, ElseFinish, GatePc, ConnectPc, StartPc, StopPc, OnboardPc
  <2>7. CASE RemoveEntry(a)
    BY <2>7, <1>0 DEF RemoveEntry, GatePc, ConnectPc, StartPc, StopPc, OnboardPc
  <2>8. CASE ForgetName(a)
    BY <2>8, <1>0 DEF ForgetName, GatePc, ConnectPc, StartPc, StopPc, OnboardPc
  <2>9. CASE Before(a)
    BY <2>9, <1>0 DEF Before, GatePc, ConnectPc, StartPc, StopPc, OnboardPc
  <2>10. CASE SelectNamed(a)
    BY <2>10, <1>0 DEF SelectNamed, GatePc, ConnectPc, StartPc, StopPc, OnboardPc
  <2>11. CASE After1(a)
    BY <2>11, <1>0 DEF After1, GatePc, ConnectPc, StartPc, StopPc, OnboardPc
  <2>12. CASE After2(a)
    BY <2>12, <1>0 DEF After2, GatePc, ConnectPc, StartPc, StopPc, OnboardPc
  <2>13. CASE Recovered(a)
    BY <2>13, <1>0 DEF Recovered, GatePc, ConnectPc, StartPc, StopPc, OnboardPc
  <2> QED
    BY <1>2, <2>1, <2>2, <2>3, <2>4, <2>5, <2>6, <2>7, <2>8, <2>9, <2>10, <2>11, <2>12, <2>13 DEF Connecting
<1>3. CASE Starting(a)
  <2>1. CASE LookAtPidFile(a)
    BY <2>1, <1>0 DEF LookAtPidFile, Gateways, GatePc, ConnectPc, StartPc, StopPc, OnboardPc
  <2>2. CASE RegisterKnown(a)
    BY <2>2, <1>0 DEF RegisterKnown, GatePc, ConnectPc, StartPc, StopPc, OnboardPc
  <2>3. CASE ProbeHttp(a)
    BY <2>3, <1>0 DEF ProbeHttp, GatePc, ConnectPc, StartPc, StopPc, OnboardPc
  <2>4. CASE ProbePort(a)
    BY <2>4, <1>0 DEF ProbePort, ProbePortWith, Found, Listeners, GatePc, ConnectPc, StartPc, StopPc, OnboardPc
  <2>5. CASE Adopt(a)
    BY <2>5, <1>0 DEF Adopt, GatePc, ConnectPc, StartPc, StopPc, OnboardPc
  <2>6. CASE ProbeAdopted(a)
    BY <2>6, <1>0 DEF ProbeAdopted, GatePc, ConnectPc, StartPc, StopPc, OnboardPc
  <2>7. CASE EndExisting(a)
    BY <2>7, <1>0 DEF EndExisting, GatePc, ConnectPc, StartPc, StopPc, OnboardPc
  <2>8. CASE SpawnGateway(a)
    BY <2>8, <1>0 DEF SpawnGateway, GatePc, ConnectPc, StartPc, StopPc, OnboardPc
  <2>9. CASE RememberChild(a)
    BY <2>9, <1>0 DEF RememberChild, GatePc, ConnectPc, StartPc, StopPc, OnboardPc
  <2>10. CASE Poll(a)
    BY <2>10, <1>0 DEF Poll, GatePc, ConnectPc, StartPc, StopPc, OnboardPc
  <2>11. CASE CheckReady(a)
    BY <2>11, <1>0 DEF CheckReady, ReadyIf, GatePc, ConnectPc, StartPc, StopPc, OnboardPc
  <2>12. CASE VerifyBridge(a)
    BY <2>12, <1>0 DEF VerifyBridge, GatePc, ConnectPc, StartPc, StopPc, OnboardPc
  <2> QED
    BY <1>3, <2>1, <2>2, <2>3, <2>4, <2>5, <2>6, <2>7, <2>8, <2>9, <2>10, <2>11, <2>12 DEF Starting
<1>4. CASE Stopping(a)
  <2>1. CASE Terminate(a)
    BY <2>1, <1>0 DEF Terminate, GatePc, ConnectPc, StartPc, StopPc, OnboardPc
  <2>2. CASE AwaitEnd(a)
    BY <2>2, <1>0 DEF AwaitEnd, GatePc, ConnectPc, StartPc, StopPc, OnboardPc
  <2>3. CASE ClearStopped(a)
    BY <2>3, <1>0, ClearedIn DEF ClearStopped
  <2> QED
    BY <1>4, <2>1, <2>2, <2>3 DEF Stopping
<1>5. CASE Onboarding(a)
  <2>1. CASE Snapshot(a)
    BY <2>1, <1>0, <1>j DEF Snapshot, ReuseStates, GatePc, OnboardPc
  <2>2. CASE SelectForReuse(a)
    BY <2>2, <1>0 DEF SelectForReuse, GatePc, ConnectPc, StartPc, StopPc, OnboardPc
  <2>3. CASE SnapshotAgain(a)
    BY <2>3, <1>0, <1>j DEF SnapshotAgain, ReuseStates
  <2>4. CASE Refresh(a)
    BY <2>4, <1>0, <1>j DEF Refresh, Found, Listeners, Verdict
  <2>5. CASE CheckPort(a)
    BY <2>5, <1>0 DEF CheckPort, Found, Listeners, GatePc, ConnectPc, StartPc, StopPc, OnboardPc
  <2>6. CASE HandleGateway(a)
    BY <2>6, <1>0 DEF HandleGateway, GatePc, ConnectPc, StartPc, StopPc, OnboardPc
  <2>7. CASE Stop(a)
    BY <2>7, <1>0 DEF Stop, StopIf, Gateways, GatePc, ConnectPc, StartPc, StopPc, OnboardPc
  <2>8. CASE Unregister(a)
    BY <2>8, <1>0 DEF Unregister, GatePc, ConnectPc, StartPc, StopPc, OnboardPc
  <2> QED
    BY <1>5, <2>1, <2>2, <2>3, <2>4, <2>5, <2>6, <2>7, <2>8 DEF Onboarding
<1> QED
  BY <1>1, <1>2, <1>3, <1>4, <1>5 DEF CommandStep

(***************************************************************************)
(* What a command's step does to the commands.                             *)
(***************************************************************************)
LEMMA Became ==
  ASSUME GateTypeOK, NEW a \in Actors, NEW r, Become(a, r)
  PROVE  cmd'[a] = r /\ \A b \in Actors : b # a => cmd'[b] = cmd[b]
  BY DEF GateTypeOK, Become

LEMMA OthersStay ==
  ASSUME GateTypeOK, NEW a \in Actors, CommandStep(a)
  PROVE  cmd' \in [Actors -> GateCommands] /\ \A b \in Actors : b # a => cmd'[b] = cmd[b]
<1>1. PICK r \in GateCommands : Become(a, r)
  BY CommandBecomes
<1>2. QED
  BY <1>1 DEF Become, GateTypeOK

LEMMA EventBudget ==
  ASSUME GateTypeOK, Event
  PROVE  gateEvents' \in 0 .. MaxGateEvents /\ gateCmds' = gateCmds /\ blind' = blind
  BY GateBounds DEF GateTypeOK, Event

(* The environment keeps the types.                                        *)
LEMMA EnvironmentTypes ==
  ASSUME GateTypeOK, Environment \/ Settle
  PROVE  WorldOK' /\ cmd' \in [Actors -> GateCommands]
<1> USE EventBudget, NoCmdIn
<1> USE DEF GateTypeOK, WorldOK, processes, selection, records, budgets
<1>1. CASE ProcessEvent
  BY <1>1 DEF ProcessEvent
<1>2. CASE Upgrade
  BY <1>2 DEF Upgrade, Gateways
<1>3. CASE UserSelects
  BY <1>3 DEF UserSelects
<1>4. CASE SandboxDeleted
  BY <1>4 DEF SandboxDeleted
<1>5. CASE KillCommand
  BY <1>5 DEF KillCommand, Finish, Become
<1>6. CASE Reboot
  BY <1>6 DEF Reboot
<1>7. CASE Settle
  BY <1>7 DEF Settle
<1>8. QED
  BY <1>1, <1>2, <1>3, <1>4, <1>5, <1>6, <1>7 DEF Environment

(* The histories keep theirs.                                              *)
LEMMA HistoryTypes ==
  ASSUME GateTypeOK, GateNext
  PROVE  hist' \in [Actors -> Histories]
<1>1. \A b \in Actors : Witnessed(b) \in Histories
  BY Zenon DEF Witnessed, Histories
<1>2. \A b \in Actors : Done(b) \in Histories
  BY Zenon DEF Done, Histories
<1>3. \A b \in Actors : hist[b].alone \in BOOLEAN
  BY DEF GateTypeOK, Histories
<1>4. \A b \in Actors : Unsettles(b) \in Histories
  BY <1>1, <1>3 DEF Unsettles, Histories
<1>5. QED
  BY <1>1, <1>2, <1>4 DEF GateNext

(* Every step keeps the types.                                             *)
LEMMA TypeStep == GateTypeOK /\ [GateNext]_gateVars => GateTypeOK'
<1> SUFFICES ASSUME GateTypeOK, [GateNext]_gateVars PROVE GateTypeOK'
  OBVIOUS
<1>1. CASE GateNext
  <2>1. hist' \in [Actors -> Histories]
    BY <1>1, HistoryTypes
  <2>2. WorldOK' /\ cmd' \in [Actors -> GateCommands]
    BY <1>1, CommandWorld, OthersStay, EnvironmentTypes DEF GateNext
  <2>3. QED
    BY <2>1, <2>2 DEF GateTypeOK, WorldOK
<1>2. CASE UNCHANGED gateVars
  BY <1>2 DEF GateTypeOK, gateVars, processes, selection, records, budgets
<1>3. QED
  BY <1>1, <1>2

(* The initial states are of the types.                                    *)
LEMMA TypeInit == GateInit => GateTypeOK
<1> SUFFICES ASSUME GateInit PROVE GateTypeOK
  OBVIOUS
<1>1. gate \in [Pids -> {"free", "other", "boot", "up", "end"}]
  BY DEF GateInit
<1>2. old \subseteq Pids /\ pidFile \in Pids \cup {NoPid}
  BY DEF GateInit, Gateways
<1>3. cmd \in [Actors -> GateCommands]
  BY NoCmdIn DEF GateInit
<1>4. hist \in [Actors -> Histories]
  BY DEF GateInit, Histories
<1>5. QED
  BY <1>1, <1>2, <1>3, <1>4, GateBounds DEF GateInit, GateTypeOK

(* The variables of Gateway keep their types.                              *)
THEOREM GateTypeCorrect == GateSpec => []GateTypeOK
  BY TypeInit, TypeStep, PTL DEF GateSpec

(* The forms of a step.                                                    *)
LEMMA Moves ==
  ASSUME GateTypeOK, NEW a \in Actors, NEW l, Move(a, l)
  PROVE  /\ cmd'[a].pc = l /\ cmd'[a].pid = cmd[a].pid /\ cmd'[a].then = cmd[a].then
         /\ cmd'[a].pin = cmd[a].pin
<1>1. cmd[a] \in GateCommands
  BY DEF GateTypeOK
<1>2. cmd'[a] = [cmd[a] EXCEPT !.pc = l]
  BY Became DEF Move
<1>3. QED
  BY <1>1, <1>2 DEF GateCommands

LEMMA Finishes ==
  ASSUME GateTypeOK, NEW a \in Actors, Finish(a)
  PROVE  cmd'[a].pc = "idle"
<1>1. cmd'[a] = NoCmd
  BY Became DEF Finish
<1>2. QED
  BY <1>1 DEF NoCmd

LEMMA Stops ==
  ASSUME GateTypeOK, NEW a \in Actors, NEW p, NEW l, StopThen(a, p, l)
  PROVE  cmd'[a].pc = "terminate" /\ cmd'[a].pid = p /\ cmd'[a].then = l
<1>1. cmd[a] \in GateCommands
  BY DEF GateTypeOK
<1>2. cmd'[a] = [cmd[a] EXCEPT !.pc = "terminate", !.pid = p, !.then = l]
  BY Became DEF StopThen
<1>3. QED
  BY <1>1, <1>2 DEF GateCommands

LEMMA RegisterMoves ==
  ASSUME GateTypeOK, NEW a \in Actors, NEW l, Registers(a, l) \/ RegisterFails(a, l)
  PROVE  cmd'[a].pc = l /\ cmd'[a].pid = cmd[a].pid
<1>1. cmd[a] \in GateCommands
  BY DEF GateTypeOK
<1>2. \/ cmd'[a] = [cmd[a] EXCEPT !.pc = l, !.pin = TRUE]
      \/ cmd'[a] = [cmd[a] EXCEPT !.pc = l, !.pin = FALSE]
  BY Became DEF Registers, RegisterFails
<1>3. QED
  BY <1>1, <1>2 DEF GateCommands

LEMMA Overs ==
  ASSUME GateTypeOK, NEW a \in Actors, StartOver(a)
  PROVE  cmd'[a].pc \in {"idle", "select2"}
<1>1. cmd[a] \in GateCommands
  BY DEF GateTypeOK
<1>2. CASE Finish(a)
  BY <1>2, Finishes
<1>3. CASE Become(a, [cmd[a] EXCEPT !.pc = "select2", !.pid = NoPid])
  <2>1. cmd'[a] = [cmd[a] EXCEPT !.pc = "select2", !.pid = NoPid]
    BY <1>3, Became
  <2>2. QED
    BY <1>1, <2>1 DEF GateCommands
<1>4. QED
  BY <1>2, <1>3 DEF StartOver

LEMMA Verdicts ==
  ASSUME GateTypeOK, NEW a \in Actors, NEW s, NEW pin
  PROVE  /\ Judged(a, s, pin) => cmd'[a].pc \in {"busy", "handler"}
         /\ Refreshes(a, pin) => cmd'[a].pc = "refresh"
         /\ Step(a) => cmd'[a].pc = "snapshot"
<1>1. cmd[a] \in GateCommands
  BY DEF GateTypeOK
<1> DEFINE l == IF cmd[a].op = "preflight" THEN "busy" ELSE "handler"
<1>2. ASSUME Judged(a, s, pin) PROVE cmd'[a].pc \in {"busy", "handler"}
  <2>1. cmd'[a] = [cmd[a] EXCEPT !.reuse = s, !.pin = pin, !.pc = l]
    BY <1>2, Became DEF Judged
  <2>2. l \in {"busy", "handler"}
    OBVIOUS
  <2> HIDE DEF l
  <2>3. cmd'[a].pc = l
    BY <1>1, <2>1 DEF GateCommands
  <2>4. QED
    BY <2>2, <2>3
<1>3. ASSUME Refreshes(a, pin) PROVE cmd'[a].pc = "refresh"
  <2>1. cmd'[a] = [cmd[a] EXCEPT !.pc = "refresh", !.pin = pin]
    BY <1>3, Became DEF Refreshes
  <2>2. QED
    BY <1>1, <2>1 DEF GateCommands
<1>4. ASSUME Step(a) PROVE cmd'[a].pc = "snapshot"
  <2>1. cmd'[a] = [cmd[a] EXCEPT !.pc = "snapshot", !.op = "step", !.reuse = "none"]
    BY <1>4, Became DEF Step
  <2>2. QED
    BY <1>1, <2>1 DEF GateCommands
<1>5. QED
  BY <1>2, <1>3, <1>4

LEMMA Puts ==
  ASSUME GateTypeOK, NEW a \in Actors, NEW l, NEW p, NEW s
  PROVE  /\ Become(a, [cmd[a] EXCEPT !.pc = l, !.pid = p]) =>
              cmd'[a].pc = l /\ cmd'[a].pid = p /\ cmd'[a].then = cmd[a].then
         /\ Become(a, [cmd[a] EXCEPT !.pc = l, !.pin = TRUE]) => cmd'[a].pc = l
         /\ Become(a, [cmd[a] EXCEPT !.reuse = s, !.pc = l]) => cmd'[a].pc = l
<1> DEFINE rp == [cmd[a] EXCEPT !.pc = l, !.pid = p]
           rn == [cmd[a] EXCEPT !.pc = l, !.pin = TRUE]
           rs == [cmd[a] EXCEPT !.reuse = s, !.pc = l]
<1>1. cmd[a] \in GateCommands
  BY DEF GateTypeOK
<1>2. /\ rp.pc = l /\ rp.pid = p /\ rp.then = cmd[a].then /\ rn.pc = l /\ rs.pc = l
  BY <1>1 DEF GateCommands
<1> HIDE DEF rp, rn, rs
<1>3. /\ Become(a, rp) => cmd'[a] = rp
      /\ Become(a, rn) => cmd'[a] = rn
      /\ Become(a, rs) => cmd'[a] = rs
  BY Became
<1>4. /\ Become(a, rp) => cmd'[a].pc = l /\ cmd'[a].pid = p /\ cmd'[a].then = cmd[a].then
      /\ Become(a, rn) => cmd'[a].pc = l
      /\ Become(a, rs) => cmd'[a].pc = l
  BY <1>2, <1>3
<1>5. QED
  BY <1>4 DEF rp, rn, rs

LEMMA Clears ==
  ASSUME GateTypeOK, NEW a \in Actors, ClearStopped(a)
  PROVE  cmd'[a].pc = cmd[a].then
<1> DEFINE q == IF cmd[a].then = "existing" THEN cmd[a].pid ELSE NoPid
           r == [cmd[a] EXCEPT !.pc = cmd[a].then, !.then = "idle", !.pid = q]
<1>1. cmd[a] \in GateCommands
  BY DEF GateTypeOK
<1> HIDE DEF q
<1>2. r.pc = cmd[a].then
  BY <1>1 DEF GateCommands
<1>3. cmd'[a] = r
  BY Became DEF ClearStopped, q
<1>4. QED
  BY <1>2, <1>3

(***************************************************************************)
(* Where a command's step leads.                                           *)
(***************************************************************************)
LEMMA ConnectingLeads ==
  ASSUME GateTypeOK, NEW a \in Actors, Connecting(a)
  PROVE  cmd'[a].pc \in {"idle", "look"} \cup ConnectPc
<1> USE DEF ConnectPc
<1>a. cmd[a] \in GateCommands
  BY DEF GateTypeOK
<1>1. CASE Lookup(a)
  BY <1>1, Moves, Finishes DEF Lookup
<1>2. CASE Reconcile(a)
  BY <1>2, Moves, Finishes DEF Reconcile
<1>3. CASE Reselect(a)
  BY <1>3, Moves, Finishes DEF Reselect, SelectThen
<1>4. CASE Retry(a)
  BY <1>4, Moves, Finishes DEF Retry
<1>5. CASE Reclassify(a)
  BY <1>5, Moves, Finishes DEF Reclassify, ElseFinish
<1>6. CASE Guard(a)
  BY <1>6, Moves, Finishes DEF Guard, ElseFinish
<1>7. CASE RemoveEntry(a)
  BY <1>7, Moves, Finishes DEF RemoveEntry
<1>8. CASE ForgetName(a)
  BY <1>8, Moves, Finishes DEF ForgetName
<1>9. CASE Before(a)
  BY <1>9, Moves, Finishes DEF Before
<1>10. CASE SelectNamed(a)
  BY <1>10, Moves, Finishes DEF SelectNamed, SelectThen
<1>11. CASE After1(a)
  BY ZenonT(60), <1>11, Moves, Puts DEF After1
<1>12. CASE After2(a)
  BY <1>12, Puts, Finishes DEF After2
<1>13. CASE Recovered(a)
  BY <1>13, Moves, Finishes DEF Recovered
<1> QED
  BY <1>1, <1>2, <1>3, <1>4, <1>5, <1>6, <1>7, <1>8, <1>9, <1>10, <1>11, <1>12, <1>13 DEF Connecting

(* Where a step of the start leads.                                        *)
LEMMA StartingLeads ==
  ASSUME GateTypeOK, NEW a \in Actors, Starting(a)
  PROVE  cmd'[a].pc \in {"idle", "select2", "terminate"} \cup StartPc
<1> USE DEF StartPc
<1>a. cmd[a] \in GateCommands
  BY DEF GateTypeOK
<1>1. CASE LookAtPidFile(a)
  BY <1>1, Stops, Moves DEF LookAtPidFile
<1>2. CASE RegisterKnown(a)
  BY <1>2, RegisterMoves DEF RegisterKnown
<1>3. CASE ProbeHttp(a)
  BY <1>3, Moves DEF ProbeHttp
<1>4. CASE ProbePort(a)
  BY <1>4, Stops, Puts DEF ProbePort, ProbePortWith
<1>5. CASE Adopt(a)
  BY <1>5, RegisterMoves DEF Adopt
<1>6. CASE ProbeAdopted(a)
  BY <1>6, Moves DEF ProbeAdopted
<1>7. CASE EndExisting(a)
  BY <1>7, Puts DEF EndExisting
<1>8. CASE SpawnGateway(a)
  BY <1>8, Puts DEF SpawnGateway
<1>9. CASE RememberChild(a)
  BY <1>9, Moves DEF RememberChild
<1>10. CASE Poll(a)
  BY <1>10, RegisterMoves, Overs DEF Poll
<1>11. CASE CheckReady(a)
  BY <1>11, Overs, Moves DEF CheckReady, ReadyIf
<1>12. CASE VerifyBridge(a)
  BY <1>12, Overs DEF VerifyBridge
<1> QED
  BY <1>1, <1>2, <1>3, <1>4, <1>5, <1>6, <1>7, <1>8, <1>9, <1>10, <1>11, <1>12 DEF Starting

(* Where a step of a stop leads.                                           *)
LEMMA StoppingLeads ==
  ASSUME GateTypeOK, NEW a \in Actors, Stopping(a)
  PROVE  cmd'[a].pc \in {"wait", "clear", "idle", "port", "existing", "unregister"}
<1>a. cmd[a] \in GateCommands
  BY DEF GateTypeOK
<1>1. CASE Terminate(a)
  BY <1>1, Moves DEF Terminate
<1>2. CASE AwaitEnd(a)
  BY <1>2, Moves DEF AwaitEnd
<1>3. CASE ClearStopped(a)
  BY <1>3, <1>a, Clears DEF GateCommands
<1> QED
  BY <1>1, <1>2, <1>3 DEF Stopping

(* Where a step of an onboarding leads.                                    *)
LEMMA OnboardingLeads ==
  ASSUME GateTypeOK, NEW a \in Actors, Onboarding(a)
  PROVE  cmd'[a].pc \in {"idle", "look", "terminate"} \cup OnboardPc
<1> USE DEF OnboardPc
<1>a. cmd[a] \in GateCommands
  BY DEF GateTypeOK
<1>1. CASE Snapshot(a)
  BY <1>1, Verdicts, Moves DEF Snapshot
<1>2. CASE SelectForReuse(a)
  BY <1>2, Moves, Finishes DEF SelectForReuse, SelectThen
<1>3. CASE SnapshotAgain(a)
  BY <1>3, Verdicts DEF SnapshotAgain
<1>4. CASE Refresh(a)
  BY <1>4, Verdicts DEF Refresh
<1>5. CASE CheckPort(a)
  BY <1>5, Verdicts, Finishes DEF CheckPort
<1>6. CASE HandleGateway(a)
  BY <1>6, Finishes, Puts DEF HandleGateway
<1>7. CASE Stop(a)
  BY <1>7, Stops, Moves DEF Stop, StopIf
<1>8. CASE Unregister(a)
  BY <1>8, Moves DEF Unregister
<1> QED
  BY <1>1, <1>2, <1>3, <1>4, <1>5, <1>6, <1>7, <1>8 DEF Onboarding


(* Where a command begins.                                                 *)
LEMMA BeginLeads ==
  ASSUME GateTypeOK, NEW a \in Actors, Begin(a)
  PROVE  cmd'[a].pc \in {"lookup", "snapshot"}
<1>1. /\ [NoCmd EXCEPT !.pc = "lookup", !.op = "connect"].pc = "lookup"
      /\ [NoCmd EXCEPT !.pc = "snapshot", !.op = "preflight"].pc = "snapshot"
  BY DEF NoCmd
<1>2. \/ cmd'[a] = [NoCmd EXCEPT !.pc = "lookup", !.op = "connect"]
      \/ cmd'[a] = [NoCmd EXCEPT !.pc = "snapshot", !.op = "preflight"]
  BY Became DEF Begin
<1>3. QED
  BY <1>1, <1>2

(***************************************************************************)
(* The history.                                                            *)
(***************************************************************************)
LEMMA Doings ==
  ASSUME NEW a \in Actors, hist'[a] = Done(a)
  PROVE  /\ hist'[a].still => \/ cmd[a].pc \in {"lookup", "retry", "recovered"}
                              \/ hist[a].still
         /\ hist'[a].alone => cmd'[a].pc \in StartPc \cup StopPc
         /\ hist'[a].alone => \/ cmd'[a].pc = "look" /\ cmd[a].pc # "look" /\ Unsettled = {}
                              \/ hist[a].alone
         /\ hist'[a].same => cmd'[a].pc = "terminate" \/ hist[a].same
<1> DEFINE l == cmd'[a].pc
           still == l \in Doubting /\ (cmd[a].pc \in {"lookup", "retry", "recovered"} \/ hist[a].still)
           alone == /\ l \in StartPc \cup StopPc
                    /\ IF l = "look" /\ cmd[a].pc # "look" THEN Unsettled = {} ELSE hist[a].alone
           same == l = "terminate" \/ (l = "wait" /\ hist[a].same)
<1>1. /\ still => cmd[a].pc \in {"lookup", "retry", "recovered"} \/ hist[a].still
      /\ alone => l \in StartPc \cup StopPc
      /\ alone => (l = "look" /\ cmd[a].pc # "look" /\ Unsettled = {}) \/ hist[a].alone
      /\ same => l = "terminate" \/ hist[a].same
  OBVIOUS
<1>2. hist'[a] = [still |-> still, alone |-> alone, same |-> same]
  BY Zenon DEF Done
<1> HIDE DEF still, alone, same
<1>3. hist'[a].still = still /\ hist'[a].alone = alone /\ hist'[a].same = same
  BY <1>2
<1>4. QED
  BY <1>1, <1>3

(* What the history of a command keeps while another acts.                 *)
LEMMA Witnesses ==
  ASSUME NEW b \in Actors, hist'[b] \in {Witnessed(b), Unsettles(b)}
  PROVE  /\ hist'[b].still => hist[b].still /\ active' = active /\ meta' = meta
         /\ hist'[b].same => hist[b].same /\ gate'[cmd[b].pid] # "other"
         /\ hist'[b].alone => hist[b].alone
         /\ hist'[b] = Witnessed(b) => ~hist'[b].alone
<1> DEFINE runs == cmd'[b].pc # "idle"
           still == hist[b].still /\ runs /\ active' = active /\ meta' = meta
           same == hist[b].same /\ runs /\ gate'[cmd[b].pid] # "other"
<1>1. /\ still => hist[b].still /\ active' = active /\ meta' = meta
      /\ same => hist[b].same /\ gate'[cmd[b].pid] # "other"
  OBVIOUS
<1>2. Witnessed(b) = [still |-> still, alone |-> FALSE, same |-> same]
  BY Zenon DEF Witnessed
<1> HIDE DEF still, same
<1>3. /\ Witnessed(b).still = still /\ Witnessed(b).same = same /\ Witnessed(b).alone = FALSE
  BY <1>2
<1>4. /\ Unsettles(b).still = still /\ Unsettles(b).same = same
      /\ Unsettles(b).alone = hist[b].alone
  BY <1>2 DEF Unsettles
<1>5. QED
  BY <1>1, <1>3, <1>4

(* What the environment does to a command.                                 *)
LEMMA Outside ==
  ASSUME GateTypeOK, Environment \/ Settle, NEW b \in Actors
  PROVE  /\ cmd'[b] = cmd[b] \/ cmd'[b].pc = "idle"
         /\ live' => live
         /\ blind' = blind
<1>1. NoCmd.pc = "idle"
  BY DEF NoCmd
<1> USE <1>1, EventBudget DEF GateTypeOK, records, budgets
<1>2. CASE ProcessEvent \/ Upgrade \/ UserSelects \/ Settle
  BY <1>2 DEF ProcessEvent, Upgrade, UserSelects, Settle
<1>3. CASE SandboxDeleted
  BY <1>3 DEF SandboxDeleted
<1>4. CASE KillCommand
  BY <1>4 DEF KillCommand, Finish, Become
<1>5. CASE Reboot
  BY <1>5 DEF Reboot
<1>6. QED
  BY <1>2, <1>3, <1>4, <1>5 DEF Environment

(* Where each group of actions starts from.                                *)
LEMMA Places ==
  ASSUME NEW a \in Actors
  PROVE  /\ Connecting(a) => cmd[a].pc \in ConnectPc
         /\ Onboarding(a) => cmd[a].pc \in OnboardPc
         /\ Begin(a) => cmd[a].pc = "idle"
<1>1. Connecting(a) => cmd[a].pc \in ConnectPc
  BY DEF Connecting, At, ConnectPc, Lookup, Reconcile, Reselect, Retry, Reclassify, Guard, RemoveEntry,
         ForgetName, Before, SelectNamed, After1, After2, Recovered, ElseFinish
<1>2. Onboarding(a) => cmd[a].pc \in OnboardPc
  BY DEF Onboarding, At, OnboardPc, Snapshot, SelectForReuse, SnapshotAgain, Refresh, CheckPort,
         HandleGateway, Stop, StopIf, Unregister
<1>3. QED
  BY <1>1, <1>2 DEF Begin, At

(* No process changes but in a start or a stop.                            *)
LEMMA Quiet ==
  ASSUME NEW a \in Actors, Begin(a) \/ Connecting(a) \/ Onboarding(a)
  PROVE  gate' = gate /\ old' = old
<1> USE DEF OnlyMoves, SameProcesses, processes, SelectThen
<1>1. Connecting(a) => gate' = gate /\ old' = old
  BY DEF Connecting, Lookup, Reconcile, Reselect, Retry, Reclassify, Guard, RemoveEntry,
         ForgetName, Before, SelectNamed, After1, After2, Recovered, ElseFinish
<1>2. Onboarding(a) => gate' = gate /\ old' = old
  BY DEF Onboarding, Snapshot, SelectForReuse, SnapshotAgain, Refresh, CheckPort,
         HandleGateway, Stop, StopIf, Unregister
<1>3. QED
  BY <1>1, <1>2 DEF Begin

(***************************************************************************)
(* The removal of an entry.                                                *)
(***************************************************************************)
LEMMA DoubtMover ==
  ASSUME GateTypeOK, DoubtIInv, NEW a \in Actors, CommandStep(a), hist'[a] = Done(a),
         hist'[a].still, cmd'[a].pc \in Doubting
  PROVE  (Sees(a)' = "ours" => ~live') /\ (At(a, "remove")' => Sees(a)' = "ours")
<1>0. live' = live
  BY CommandWorld
<1>1. Connecting(a)
  BY StartingLeads, StoppingLeads, OnboardingLeads, BeginLeads
     DEF CommandStep, Doubting, StartPc, OnboardPc
<1>2. hist[a].still \/ cmd[a].pc \in {"lookup", "retry", "recovered"}
  BY Doings
<1>3. ASSUME "missing" \in Lookups(a), Move(a, cmd'[a].pc), OnlyMoves, cmd'[a].pc # "remove"
      PROVE  (Sees(a)' = "ours" => ~live') /\ (At(a, "remove")' => Sees(a)' = "ours")
  <2>1. Sees(a)' = Sees(a)
    BY <1>3, Moves DEF Sees, OnlyMoves, SameSelection, selection
  <2>2. Sees(a) = "ours" => ~live
    BY <1>3 DEF Lookups
  <2>3. QED
    BY <1>0, <1>3, <2>1, <2>2 DEF At
<1>4. ASSUME NEW l, l \in Lifecycles(a), l = "healthy" \/ cmd'[a].pc # "remove",
             Move(a, cmd'[a].pc), OnlyMoves, hist[a].still, cmd[a].pc \in Doubting
      PROVE  (Sees(a)' = "ours" => ~live') /\ (At(a, "remove")' => Sees(a)' = "ours")
  <2>1. Sees(a)' = Sees(a)
    BY <1>4, Moves DEF Sees, OnlyMoves, SameSelection, selection
  <2>2. l = "healthy" => Sees(a) = "ours"
    BY <1>4 DEF Lifecycles, CanBeHealthy
  <2>3. QED
    BY <1>0, <1>4, <2>1, <2>2 DEF DoubtIInv, At
<1>5. CASE Lookup(a)
  BY <1>5, Moves, Finishes, <1>3 DEF Doubting, Lookup, At
<1>6. CASE Reconcile(a)
  BY <1>6, Moves, Finishes, <1>2, <1>4 DEF Doubting, Reconcile, At
<1>7. CASE Reselect(a)
  BY <1>7, Moves, Finishes DEF Doubting, Reselect, SelectThen
<1>8. CASE Retry(a)
  BY <1>8, Moves, Finishes, <1>3 DEF Doubting, Retry, At
<1>9. CASE Reclassify(a)
  BY <1>9, Moves, Finishes, <1>2, <1>4 DEF Doubting, Reclassify, ElseFinish, At
<1>10. CASE Guard(a)
  BY <1>10, Moves, Finishes, <1>2, <1>4 DEF Doubting, Guard, ElseFinish, At
<1>11. CASE RemoveEntry(a)
  BY <1>11, Moves, Finishes DEF Doubting, RemoveEntry
<1>12. CASE ForgetName(a)
  BY <1>12, Moves, Finishes DEF Doubting, ForgetName
<1>13. CASE Before(a)
  BY <1>13, Moves, Finishes DEF Doubting, Before
<1>14. CASE SelectNamed(a)
  BY <1>14, Moves, Finishes DEF Doubting, SelectNamed, SelectThen
<1>15. CASE After1(a)
  <2>1. PICK l \in Lifecycles(a) :
          IF l = "healthy" THEN Become(a, [cmd[a] EXCEPT !.pc = "recovered", !.pin = TRUE])
          ELSE Move(a, "look")
    BY <1>15 DEF After1
  <2>2. cmd'[a].pc \in {"recovered", "look", "idle"}
    BY <2>1, Moves, Finishes, Puts
  <2>3. QED
    BY <2>2 DEF Doubting
<1>16. CASE After2(a)
  <2>1. PICK l \in Lifecycles(a) :
          IF l = "healthy" THEN Become(a, [cmd[a] EXCEPT !.pc = "recovered", !.pin = TRUE])
          ELSE Finish(a)
    BY <1>16 DEF After2
  <2>2. cmd'[a].pc \in {"recovered", "look", "idle"}
    BY <2>1, Moves, Finishes, Puts
  <2>3. QED
    BY <2>2 DEF Doubting
<1>17. CASE Recovered(a)
  BY <1>17, Moves, Finishes, <1>3 DEF Doubting, Recovered, At
<1> QED
  BY <1>1, <1>5, <1>6, <1>7, <1>8, <1>9, <1>10, <1>11, <1>12, <1>13, <1>14, <1>15, <1>16, <1>17 DEF Connecting

(* Every step keeps DoubtIInv.                                             *)
LEMMA DoubtStep == GateTypeOK /\ DoubtIInv /\ [GateNext]_gateVars => DoubtIInv'
<1> SUFFICES ASSUME GateTypeOK, DoubtIInv, [GateNext]_gateVars PROVE DoubtIInv'
  OBVIOUS
<1> SUFFICES ASSUME NEW b \in Actors, hist'[b].still, cmd'[b].pc \in Doubting
             PROVE  (Sees(b)' = "ours" => ~live') /\ (At(b, "remove")' => Sees(b)' = "ours")
  BY DEF DoubtIInv
<1>0. "idle" \notin Doubting
  BY DEF Doubting
<1>1. ASSUME cmd'[b] = cmd[b], live' => live, active' = active, hist[b].still
      PROVE  (Sees(b)' = "ours" => ~live') /\ (At(b, "remove")' => Sees(b)' = "ours")
  BY <1>1 DEF DoubtIInv, Sees, At
<1>2. ASSUME NEW a \in Actors, CommandStep(a),
             hist' = [c \in Actors |-> IF c = a THEN Done(c) ELSE Witnessed(c)]
      PROVE  (Sees(b)' = "ours" => ~live') /\ (At(b, "remove")' => Sees(b)' = "ours")
  <2>1. CASE b = a
    BY <1>2, <2>1, DoubtMover
  <2>2. CASE b # a
    BY <1>1, <1>2, <2>2, OthersStay, CommandWorld, Witnesses
  <2>3. QED
    BY <2>1, <2>2
<1>3. CASE Settle /\ hist' = [c \in Actors |-> Unsettles(c)]
  BY <1>0, <1>1, <1>3, Outside, Witnesses
<1>4. CASE Environment /\ hist' = [c \in Actors |-> Witnessed(c)]
  BY <1>0, <1>1, <1>4, Outside, Witnesses
<1>5. CASE UNCHANGED gateVars
  BY <1>1, <1>5 DEF gateVars, selection, records
<1>6. QED
  BY <1>2, <1>3, <1>4, <1>5 DEF GateNext

LEMMA DoubtInit == GateInit => DoubtIInv
  BY DEF GateInit, DoubtIInv

(* Who doubts an entry has not seen the sandbox through our gateway.       *)
THEOREM DoubtHolds == GateSpec => []DoubtIInv
<1>1. GateSpec => []GateTypeOK
  BY GateTypeCorrect
<1>2. QED
  BY <1>1, DoubtInit, DoubtStep, PTL DEF GateSpec

(* connect and status remove the registry entry only of a sandbox that our *)
(* gateway no longer has.                                                  *)
THEOREM GoneWhenRemoved == GateSpec => RemovedWasGone
<1>1. DoubtIInv => [\A a \in Actors : At(a, "remove") /\ entry' # entry => ~live \/ ~hist[a].still]_gateVars
  BY DEF DoubtIInv, At, Doubting
<1>2. QED
  BY <1>1, DoubtHolds, PTL DEF RemovedWasGone

(***************************************************************************)
(* The process that is signalled.                                          *)
(***************************************************************************)

(* Where a stop or the report of success begins.                           *)
LEMMA Beginnings ==
  ASSUME GateTypeOK, NEW a \in Actors, CommandStep(a)
  PROVE  /\ cmd'[a].pc = "terminate" => cmd'[a].pid \in Gateways /\ gate' = gate
         /\ cmd'[a].pc = "wait" => At(a, "terminate") /\ cmd'[a].pid = cmd[a].pid
                                   /\ gate' = Signalled(cmd[a].pid)
         /\ cmd'[a].pc = "started" =>
              \/ cmd[a].pc \in {"http", "adopted"}
              \/ cmd[a].pc = "ready" /\ Listeners # {}
<1> DEFINE goal ==
      /\ cmd'[a].pc = "terminate" => cmd'[a].pid \in Gateways /\ gate' = gate
      /\ cmd'[a].pc = "wait" => At(a, "terminate") /\ cmd'[a].pid = cmd[a].pid
                                /\ gate' = Signalled(cmd[a].pid)
      /\ cmd'[a].pc = "started" =>
           \/ cmd[a].pc \in {"http", "adopted"}
           \/ cmd[a].pc = "ready" /\ Listeners # {}
<1>a. cmd[a] \in GateCommands
  BY DEF GateTypeOK
<1>b. cmd'[a].pc \notin {"terminate", "wait", "started"} => goal
  OBVIOUS
<1> HIDE DEF goal
<1>1. CASE Begin(a)
  BY <1>1, <1>b, BeginLeads
<1>2. CASE Connecting(a)
  BY <1>2, <1>b, ConnectingLeads DEF ConnectPc
<1>3. CASE Starting(a)
  <2>1. CASE LookAtPidFile(a)
    BY <2>1, <1>b, Stops, Moves DEF LookAtPidFile, SameProcesses, processes, Gateways, goal
  <2>2. CASE RegisterKnown(a)
    BY <2>2, <1>b, RegisterMoves DEF RegisterKnown
  <2>3. CASE ProbeHttp(a)
    BY <2>3, <1>b, Moves DEF ProbeHttp, At, goal
  <2>4. CASE ProbePort(a)
    <3>1. gate' = gate
      BY <2>4 DEF ProbePort, ProbePortWith, SameProcesses, processes
    <3>2. CASE Become(a, [cmd[a] EXCEPT !.pc = "existing", !.pid = NoPid])
      <4>1. cmd'[a].pc = "existing"
        BY <3>2, Puts
      <4>2. QED
        BY <4>1, <1>b
    <3>3. ASSUME NEW p \in Found, StopThen(a, p, "existing") PROVE goal
      <4>1. p \in Gateways
        BY DEF Found, Listeners, Gateways
      <4>2. QED
        BY <3>1, <3>3, <4>1, Stops DEF goal
    <3>4. ASSUME NEW p \in Found, Become(a, [cmd[a] EXCEPT !.pc = "adopt", !.pid = p]) PROVE goal
      <4>1. cmd'[a].pc = "adopt"
        BY <3>4, Puts
      <4>2. QED
        BY <4>1, <1>b
    <3>5. QED
      BY <2>4, <3>2, <3>3, <3>4 DEF ProbePort, ProbePortWith, goal
  <2>5. CASE Adopt(a)
    BY <2>5, <1>b, RegisterMoves DEF Adopt
  <2>6. CASE ProbeAdopted(a)
    BY <2>6, <1>b, Moves DEF ProbeAdopted, At, goal
  <2>7. CASE EndExisting(a)
    <3>1. cmd'[a].pc = "spawn"
      BY <2>7, Puts DEF EndExisting
    <3>2. QED
      BY <3>1, <1>b
  <2>8. CASE SpawnGateway(a)
    <3>1. cmd'[a].pc = "remember"
      BY <2>8, Puts DEF SpawnGateway
    <3>2. QED
      BY <3>1, <1>b
  <2>9. CASE RememberChild(a)
    BY <2>9, <1>b, Moves DEF RememberChild
  <2>10. CASE Poll(a)
    BY <2>10, <1>b, RegisterMoves, Overs DEF Poll
  <2>11. CASE CheckReady(a)
    BY <2>11, <1>b, Moves, Overs DEF CheckReady, ReadyIf, At, goal
  <2>12. CASE VerifyBridge(a)
    BY <2>12, <1>b, Overs DEF VerifyBridge
  <2> QED
    BY <1>3, <2>1, <2>2, <2>3, <2>4, <2>5, <2>6, <2>7, <2>8, <2>9, <2>10, <2>11, <2>12 DEF Starting
<1>4. CASE Stopping(a)
  <2>1. CASE Terminate(a)
    BY <2>1, Moves DEF Terminate, goal
  <2>2. CASE AwaitEnd(a)
    BY <2>2, <1>b, Moves DEF AwaitEnd
  <2>3. CASE ClearStopped(a)
    BY <2>3, <1>a, <1>b, Clears DEF GateCommands
  <2>4. QED
    BY <1>4, <2>1, <2>2, <2>3 DEF Stopping
<1>5. CASE Onboarding(a)
  <2>1. cmd'[a].pc \notin {"wait", "started"}
    BY <1>5, OnboardingLeads DEF OnboardPc
  <2>2. gate' = gate
    BY <1>5, Quiet
  <2>3. cmd'[a].pc = "terminate" => cmd'[a].pid \in Gateways
    <3>1. CASE Snapshot(a)
      BY <3>1, Moves, Verdicts DEF Snapshot
    <3>2. CASE SelectForReuse(a)
      BY <3>2, Moves DEF SelectForReuse, SelectThen
    <3>3. CASE SnapshotAgain(a)
      BY <3>3, Verdicts DEF SnapshotAgain
    <3>4. CASE Refresh(a)
      BY <3>4, Verdicts DEF Refresh
    <3>5. CASE CheckPort(a)
      BY <3>5, Verdicts, Finishes DEF CheckPort
    <3>6. CASE HandleGateway(a)
      <4>1. CASE Finish(a)
        BY <4>1, Finishes
      <4>2. CASE ~Finish(a)
        <5>1. Become(a, [cmd[a] EXCEPT !.reuse = "none", !.pc = IF cmd[a].reuse = "missing" THEN "look" ELSE "stop"])
          BY <3>6, <4>2 DEF HandleGateway
        <5>2. cmd'[a].pc \in {"look", "stop"}
          BY <5>1, Puts
        <5>3. QED
          BY <5>2
      <4>3. QED
        BY <4>1, <4>2
    <3>7. CASE Stop(a)
      BY <3>7, Stops, Moves DEF Stop, StopIf
    <3>8. CASE Unregister(a)
      BY <3>8, Moves DEF Unregister
    <3> QED
      BY <1>5, <3>1, <3>2, <3>3, <3>4, <3>5, <3>6, <3>7, <3>8 DEF Onboarding
  <2>4. QED
    BY <2>1, <2>2, <2>3 DEF goal
<1>6. QED
  BY <1>1, <1>2, <1>3, <1>4, <1>5 DEF CommandStep

LEMMA SignalSpares ==
  ASSUME GateTypeOK, NEW p \in Pids, gate[p] # "other"
  PROVE  Signalled(p)[p] # "other"
  BY DEF GateTypeOK, Signalled

(* Every step keeps TargetIInv.                                            *)
LEMMA TargetStep == GateTypeOK /\ TargetIInv /\ [GateNext]_gateVars => TargetIInv'
<1> SUFFICES ASSUME GateTypeOK, TargetIInv, [GateNext]_gateVars PROVE TargetIInv'
  OBVIOUS
<1> SUFFICES ASSUME NEW b \in Actors, hist'[b].same, cmd'[b].pc \in {"terminate", "wait"}
             PROVE  cmd'[b].pid \in Pids /\ gate'[cmd'[b].pid] # "other"
  BY DEF TargetIInv
<1>1. ASSUME cmd'[b] = cmd[b], hist[b].same, gate'[cmd[b].pid] # "other"
      PROVE  cmd'[b].pid \in Pids /\ gate'[cmd'[b].pid] # "other"
  BY <1>1 DEF TargetIInv
<1>2. ASSUME NEW a \in Actors, CommandStep(a),
             hist' = [c \in Actors |-> IF c = a THEN Done(c) ELSE Witnessed(c)]
      PROVE  cmd'[b].pid \in Pids /\ gate'[cmd'[b].pid] # "other"
  <2>1. CASE b = a /\ cmd'[b].pc = "terminate"
    BY <1>2, <2>1, Beginnings DEF Gateways
  <2>2. CASE b = a /\ cmd'[b].pc = "wait"
    <3>1. At(b, "terminate") /\ cmd'[b].pid = cmd[b].pid /\ gate' = Signalled(cmd[b].pid)
      BY <1>2, <2>2, Beginnings
    <3>2. hist[b].same
      BY <1>2, <2>2, Doings
    <3>3. cmd[b].pid \in Pids /\ gate[cmd[b].pid] # "other"
      BY <3>1, <3>2 DEF TargetIInv, At
    <3>4. QED
      BY <3>1, <3>3, SignalSpares
  <2>3. CASE b # a
    BY <1>1, <1>2, <2>3, OthersStay, Witnesses
  <2>4. QED
    BY <2>1, <2>2, <2>3
<1>3. CASE Settle /\ hist' = [c \in Actors |-> Unsettles(c)]
  BY <1>1, <1>3, Outside, Witnesses
<1>4. CASE Environment /\ hist' = [c \in Actors |-> Witnessed(c)]
  BY <1>1, <1>4, Outside, Witnesses
<1>5. CASE UNCHANGED gateVars
  BY <1>5 DEF gateVars, processes, TargetIInv
<1>6. QED
  BY <1>2, <1>3, <1>4, <1>5 DEF GateNext

LEMMA TargetInit == GateInit => TargetIInv
  BY DEF GateInit, TargetIInv

(* Who ends a process that is no gateway.                                  *)
LEMMA Victims ==
  ASSUME GateTypeOK, GateNext, NEW p \in Pids, gate[p] = "other", gate'[p] = "free"
  PROVE  \E a \in Actors : cmd[a].pc \in {"terminate", "wait"} /\ cmd[a].pid = p
<1>0. /\ gate \in [Pids -> {"free", "other", "boot", "up", "end"}]
      /\ \A a \in Actors : cmd[a].pid \in Pids \cup {NoPid}
  BY DEF GateTypeOK, GateCommands
<1>1. ASSUME NEW a \in Actors, CommandStep(a)
      PROVE  cmd[a].pc \in {"terminate", "wait"} /\ cmd[a].pid = p
  <2>1. CASE Begin(a) \/ Connecting(a) \/ Onboarding(a)
    BY <2>1, Quiet
  <2>2. CASE Starting(a)
    <3>1. CASE EndExisting(a)
      BY <3>1, <1>0 DEF EndExisting, Gateways, Signalled
    <3>2. CASE SpawnGateway(a)
      BY <3>2, <1>0 DEF SpawnGateway
    <3>3. CASE ~EndExisting(a) /\ ~SpawnGateway(a)
      BY <2>2, <3>3 DEF Starting, LookAtPidFile, RegisterKnown, ProbeHttp, ProbePort, Adopt, ProbeAdopted,
         RememberChild, Poll, CheckReady, VerifyBridge, Registers, RegisterFails, ProbePortWith, ReadyIf,
         OnlyMoves, SameProcesses, processes
    <3>4. QED
      BY <3>1, <3>2, <3>3
  <2>3. CASE Stopping(a)
    <3>1. CASE Terminate(a)
      BY <3>1, <1>0 DEF Terminate, At, Signalled
    <3>2. CASE AwaitEnd(a)
      BY <3>2, <1>0 DEF AwaitEnd, At
    <3>3. CASE ClearStopped(a)
      BY <3>3 DEF ClearStopped, SameProcesses, processes
    <3>4. QED
      BY <2>3, <3>1, <3>2, <3>3 DEF Stopping
  <2>4. QED
    BY <1>1, <2>1, <2>2, <2>3 DEF CommandStep
<1>2. ~Settle
  BY <1>0 DEF Settle
<1>3. ~Environment
  BY <1>0 DEF Environment, ProcessEvent, Upgrade, UserSelects, SandboxDeleted, KillCommand, Reboot,
     Gateways, processes
<1>4. QED
  BY <1>1, <1>2, <1>3 DEF GateNext

(* Only gateways are signalled: another process is, at most, if it took    *)
(* the pid between the check of its identity and the signal.               *)
THEOREM OnlyGatewaysSignalled == GateSpec => StrangersAreSpared
<1> DEFINE act == \A p \in Pids : gate[p] = "other" /\ gate'[p] = "free" =>
              \E a \in Actors : /\ cmd[a].pc \in {"terminate", "wait"} /\ cmd[a].pid = p
                                /\ ~hist[a].same
<1>1. GateTypeOK /\ TargetIInv /\ [GateNext]_gateVars => [act]_gateVars
  BY Victims DEF TargetIInv
<1>2. GateSpec => []GateTypeOK
  BY GateTypeCorrect
<1>3. GateSpec => []TargetIInv
  BY <1>2, TargetInit, TargetStep, PTL DEF GateSpec
<1>4. QED
  BY <1>1, <1>2, <1>3, PTL DEF GateSpec, StrangersAreSpared

(***************************************************************************)
(* The gateway a start delivers.                                           *)
(***************************************************************************)
LEMMA LoneStep == GateTypeOK /\ LoneListener /\ [GateNext]_gateVars => LoneListener'
<1> SUFFICES ASSUME GateTypeOK, LoneListener, [GateNext]_gateVars PROVE LoneListener'
  OBVIOUS
<1>0. gate \in [Pids -> {"free", "other", "boot", "up", "end"}]
  BY DEF GateTypeOK
<1>1. ASSUME Listeners' \subseteq Listeners PROVE LoneListener'
  BY <1>1 DEF LoneListener
<1>2. ASSUME gate' = gate PROVE LoneListener'
  BY <1>1, <1>2 DEF Listeners
<1>3. ASSUME NEW a \in Actors, CommandStep(a) PROVE LoneListener'
  <2>0. cmd[a].pid \in Pids \cup {NoPid}
    BY DEF GateTypeOK, GateCommands
  <2>1. CASE Begin(a) \/ Connecting(a) \/ Onboarding(a)
    BY <1>2, <2>1, Quiet
  <2>2. CASE Starting(a)
    <3>1. CASE EndExisting(a)
      BY <1>0, <1>1, <3>1 DEF EndExisting, Gateways, Signalled, Listeners
    <3>2. CASE SpawnGateway(a)
      BY <1>0, <1>1, <3>2 DEF SpawnGateway, Listeners
    <3>3. CASE ~EndExisting(a) /\ ~SpawnGateway(a)
      BY <1>2, <2>2, <3>3 DEF Starting, LookAtPidFile, RegisterKnown, ProbeHttp, ProbePort, Adopt,
         ProbeAdopted, RememberChild, Poll, CheckReady, VerifyBridge, Registers, RegisterFails, ProbePortWith,
         ReadyIf, OnlyMoves, SameProcesses, processes
    <3>4. QED
      BY <3>1, <3>2, <3>3
  <2>3. CASE Stopping(a)
    <3>1. CASE Terminate(a)
      BY <1>0, <1>1, <1>2, <3>1 DEF Terminate, Signalled, Listeners
    <3>2. CASE AwaitEnd(a)
      BY <1>0, <1>1, <3>2 DEF AwaitEnd, Listeners
    <3>3. CASE ClearStopped(a)
      BY <1>2, <3>3 DEF ClearStopped, SameProcesses, processes
    <3>4. QED
      BY <2>3, <3>1, <3>2, <3>3 DEF Stopping
  <2>4. QED
    BY <1>3, <2>1, <2>2, <2>3 DEF CommandStep
<1>4. CASE Settle
  <2>1. CASE \E p \in Pids : gate[p] = "boot"
                             /\ gate' = [gate EXCEPT ![p] = IF Listeners = {} THEN "up" ELSE "free"]
    BY <1>0, <1>1, <2>1 DEF LoneListener, Listeners
  <2>2. CASE \E p \in Pids : gate[p] = "end" /\ gate' = [gate EXCEPT ![p] = "free"]
    BY <1>0, <1>1, <2>2 DEF Listeners
  <2>3. QED
    BY <1>4, <2>1, <2>2 DEF Settle
<1>5. CASE Environment
  <2>1. CASE ProcessEvent
    BY <1>0, <1>1, <2>1 DEF ProcessEvent, Listeners
  <2>2. CASE Reboot
    BY <1>0, <1>1, <2>2 DEF Reboot, Listeners
  <2>3. QED
    BY <1>2, <1>5, <2>1, <2>2
       DEF Environment, Upgrade, UserSelects, SandboxDeleted, KillCommand, processes
<1>6. CASE UNCHANGED gateVars
  BY <1>2, <1>6 DEF gateVars, processes
<1>7. QED
  BY <1>3, <1>4, <1>5, <1>6 DEF GateNext

LEMMA Kinds ==
  ASSUME GateTypeOK
  PROVE  /\ Listeners \subseteq Gateways /\ Gateways \subseteq Pids
         /\ Unsettled = {} => Gateways = Listeners /\ \A p \in Gateways : gate[p] = "up"
  BY DEF Gateways, Listeners, Unsettled

(* An undisturbed start or stop, one step on.                              *)
LEMMA Same ==
  ASSUME gate' = gate
  PROVE  Gateways' = Gateways /\ Listeners' = Listeners /\ Unsettled' = Unsettled
  BY DEF Gateways, Listeners, Unsettled

(* A start begins with nothing unsettled.                                  *)
LEMMA StartEnters ==
  ASSUME GateTypeOK, StartIInv, NEW a \in Actors, Begin(a) \/ Connecting(a) \/ Onboarding(a),
         hist'[a] = Done(a), hist'[a].alone, ~blind
  PROVE  StartKnows(a)'
<1>1. gate' = gate
  BY Quiet
<1>2. cmd[a].pc \notin StartPc \cup StopPc
  BY Places DEF ConnectPc, OnboardPc, StartPc, StopPc
<1>3. ~hist[a].alone
  BY <1>2 DEF StartIInv, StartKnows
<1>4. cmd'[a].pc = "look" /\ Unsettled = {}
  BY <1>3, Doings
<1>5. QED
  BY <1>1, <1>4, Same DEF StartKnows, StartPc

(* A step of the start keeps what it knows.                                *)
LEMMA StartContinues ==
  ASSUME GateTypeOK, LoneListener, NEW a \in Actors, StartKnows(a), Starting(a), ~blind,
         cmd'[a].pc \in StartPc \cup StopPc
  PROVE  StartKnows(a)'
<1> USE DEF At
<1>0. /\ gate \in [Pids -> {"free", "other", "boot", "up", "end"}]
      /\ pidFile \in Pids \cup {NoPid}
      /\ cmd[a].pid \in Pids \cup {NoPid}
  BY DEF GateTypeOK, GateCommands
<1>f. ASSUME gate' = gate, old' = old
      PROVE  Gateways' = Gateways /\ Listeners' = Listeners /\ Unsettled' = Unsettled
  BY <1>f, Same
<1>1. CASE LookAtPidFile(a)
  <2>1. gate' = gate /\ old' = old /\ Unsettled = {}
    BY <1>1 DEF LookAtPidFile, SameProcesses, processes, StartKnows
  <2>2. CASE StopThen(a, pidFile, "port") /\ pidFile \in Gateways
    <3>1. \A q \in Gateways : q = pidFile
      BY <2>1, <2>2, Kinds DEF LoneListener
    <3>2. QED
      BY <1>f, <2>1, <2>2, <3>1, Stops, Kinds DEF StartKnows, StopPc
  <2>3. CASE Move(a, "register") /\ pidFile \in Gateways \ old /\ pidFile' = pidFile
    BY <1>f, <2>1, <2>3, Moves, Kinds DEF StartKnows, StartPc
  <2>4. CASE Move(a, "port")
    BY <1>f, <2>1, <2>4, Moves DEF StartKnows, StartPc
  <2>5. QED
    BY <1>1, <2>2, <2>3, <2>4 DEF LookAtPidFile
<1>2. CASE RegisterKnown(a)
  <2>1. gate' = gate /\ old' = old /\ pidFile' = pidFile /\ Unsettled = {} /\ pidFile \in Listeners \ old
    BY <1>2 DEF RegisterKnown, Registers, RegisterFails, SameProcesses, processes, StartKnows
  <2>2. cmd'[a].pc \in {"http", "port"}
    BY <1>2, RegisterMoves DEF RegisterKnown
  <2>3. QED
    BY <1>f, <2>1, <2>2 DEF StartKnows, StartPc
<1>3. CASE ProbeHttp(a)
  <2>1. gate' = gate /\ old' = old /\ pidFile' = pidFile /\ Unsettled = {} /\ pidFile \in Listeners \ old
    BY <1>3 DEF ProbeHttp, OnlyMoves, SameProcesses, processes, StartKnows
  <2>2. cmd'[a].pc \in {"started", "port"}
    BY <1>3, Moves DEF ProbeHttp
  <2>3. QED
    BY <1>f, <2>1, <2>2 DEF StartKnows, StartPc
<1>4. CASE ProbePort(a)
  <2>1. gate' = gate /\ old' = old /\ Unsettled = {}
    BY <1>4 DEF ProbePort, ProbePortWith, SameProcesses, processes, StartKnows
  <2>2. Found = Listeners
    BY DEF Found
  <2>3. ASSUME Found = {}, pidFile' = pidFile, Become(a, [cmd[a] EXCEPT !.pc = "existing", !.pid = NoPid])
        PROVE  StartKnows(a)'
    <3>1. cmd'[a].pc = "existing"
      BY <2>3, Puts
    <3>2. Gateways = {}
      BY <2>1, <2>2, <2>3, Kinds
    <3>3. QED
      BY <1>f, <2>1, <3>1, <3>2 DEF StartKnows, StartPc
  <2>4. ASSUME NEW p \in Found, pidFile' = p, p \in old, StopThen(a, p, "existing")
        PROVE  StartKnows(a)'
    <3>1. \A q \in Gateways : q = p
      BY <2>1, <2>2, <2>4, Kinds DEF LoneListener
    <3>2. QED
      BY <1>f, <2>1, <2>2, <2>4, <3>1, Stops, Kinds DEF StartKnows, StopPc
  <2>5. ASSUME NEW p \in Found, pidFile' = p, p \notin old,
               Become(a, [cmd[a] EXCEPT !.pc = "adopt", !.pid = p])
        PROVE  StartKnows(a)'
    <3>1. cmd'[a].pc = "adopt"
      BY <2>5, Puts
    <3>2. QED
      BY <1>f, <2>1, <2>2, <2>5, <3>1 DEF StartKnows, StartPc
  <2>6. QED
    BY <1>4, <2>3, <2>4, <2>5 DEF ProbePort, ProbePortWith, Remember
<1>5. CASE Adopt(a)
  <2>1. gate' = gate /\ old' = old /\ pidFile' = pidFile /\ Unsettled = {} /\ pidFile \in Listeners \ old
    BY <1>5 DEF Adopt, Registers, RegisterFails, SameProcesses, processes, StartKnows
  <2>2. cmd'[a].pc \in {"adopted", "existing"}
    BY <1>5, RegisterMoves DEF Adopt
  <2>3. Gateways \subseteq {pidFile}
    BY <2>1, Kinds DEF LoneListener
  <2>4. QED
    BY <1>f, <2>1, <2>2, <2>3 DEF StartKnows, StartPc
<1>6. CASE ProbeAdopted(a)
  <2>1. gate' = gate /\ old' = old /\ pidFile' = pidFile /\ Unsettled = {} /\ pidFile \in Listeners \ old
    BY <1>6 DEF ProbeAdopted, OnlyMoves, SameProcesses, processes, StartKnows
  <2>2. cmd'[a].pc \in {"started", "existing"}
    BY <1>6, Moves DEF ProbeAdopted
  <2>3. Gateways \subseteq {pidFile}
    BY <2>1, Kinds DEF LoneListener
  <2>4. QED
    BY <1>f, <2>1, <2>2, <2>3 DEF StartKnows, StartPc
<1>7. CASE EndExisting(a)
  <2>1. Unsettled = {} /\ Gateways \subseteq {pidFile}
    BY <1>7 DEF EndExisting, StartKnows
  <2>2. cmd'[a].pc = "spawn"
    <3>1. Become(a, [cmd[a] EXCEPT !.pc = "spawn", !.pid = NoPid])
      BY <1>7 DEF EndExisting
    <3>2. QED
      BY <3>1, Puts
  <2>3. \A q \in Pids : gate'[q] \in {"boot", "up", "end"} => gate'[q] = "end"
    <3>1. CASE Gateways = {}
      <4>1. gate' = gate
        BY <1>7, <3>1 DEF EndExisting
      <4>2. QED
        BY <3>1, <4>1 DEF Gateways
    <3>2. CASE Gateways # {}
      <4>1. pidFile \in Gateways /\ pidFile \in Pids /\ pidFile # NoPid
        BY <2>1, <3>2, GateNames DEF Gateways
      <4>2. gate' = Signalled(pidFile)
        BY <1>7, <4>1 DEF EndExisting
      <4>3. gate[pidFile] = "up"
        BY <2>1, <4>1, Kinds
      <4>4. \A q \in Pids : q # pidFile => gate[q] \notin {"boot", "up", "end"}
        BY <2>1 DEF Gateways
      <4>5. QED
        BY <1>0, <4>1, <4>2, <4>3, <4>4 DEF Signalled
    <3>3. QED
      BY <3>1, <3>2
  <2>4. QED
    BY <2>2, <2>3 DEF StartKnows, StartPc, Gateways
<1>8. CASE SpawnGateway(a)
  <2>1. PICK p \in Pids : /\ gate[p] = "free" /\ gate' = [gate EXCEPT ![p] = "boot"] /\ old' = old \ {p}
                          /\ Become(a, [cmd[a] EXCEPT !.pc = "remember", !.pid = p])
    BY <1>8 DEF SpawnGateway
  <2>2. cmd'[a].pc = "remember" /\ cmd'[a].pid = p
    BY <2>1, Puts
  <2>3. \A q \in Gateways : gate[q] = "end"
    BY <1>8 DEF SpawnGateway, StartKnows
  <2>4. \A q \in Gateways' : q = p \/ gate'[q] = "end"
    BY <1>0, <2>1, <2>3 DEF Gateways
  <2>5. QED
    BY <2>1, <2>2, <2>4 DEF StartKnows, StartPc
<1>9. CASE RememberChild(a)
  <2>1. gate' = gate /\ old' = old /\ pidFile' = cmd[a].pid
    BY <1>9 DEF RememberChild, Remember, SameProcesses, processes
  <2>2. cmd'[a].pc = "poll" /\ cmd'[a].pid = cmd[a].pid
    BY <1>9, Moves DEF RememberChild
  <2>3. cmd[a].pid \in Pids \ old /\ \A q \in Gateways : q = cmd[a].pid \/ gate[q] = "end"
    BY <1>9 DEF RememberChild, StartKnows
  <2>4. QED
    BY <1>f, <2>1, <2>2, <2>3 DEF StartKnows, StartPc
<1>10. ASSUME gate' = gate, old' = old, pidFile' = pidFile, cmd[a].pc \in {"poll", "ready"},
              cmd'[a].pc \in {"poll", "ready", "started"}, cmd'[a].pid = cmd[a].pid
       PROVE  StartKnows(a)'
  <2>1. pidFile = cmd[a].pid /\ cmd[a].pid \in Pids \ old
        /\ \A q \in Gateways : q = cmd[a].pid \/ gate[q] = "end"
    BY <1>10 DEF StartKnows
  <2>2. QED
    BY <1>f, <1>10, <2>1 DEF StartKnows, StartPc
<1>11. ASSUME StartOver(a) PROVE FALSE
  BY <1>11, Overs DEF StartPc, StopPc
<1>12. CASE Poll(a)
  BY <1>10, <1>11, <1>12, RegisterMoves DEF Poll, Registers, RegisterFails, SameProcesses, processes
<1>13. CASE CheckReady(a)
  BY <1>10, <1>11, <1>13, Moves DEF CheckReady, ReadyIf, OnlyMoves, SameProcesses, processes
<1>14. CASE VerifyBridge(a)
  BY <1>11, <1>14 DEF VerifyBridge
<1>15. QED
  BY <1>1, <1>2, <1>3, <1>4, <1>5, <1>6, <1>7, <1>8, <1>9, <1>12, <1>13, <1>14 DEF Starting

(* A step of a stop within it does.                                        *)
LEMMA StartStops ==
  ASSUME GateTypeOK, NEW a \in Actors, StartKnows(a), Stopping(a),
         cmd'[a].pc \in StartPc \cup StopPc
  PROVE  StartKnows(a)'
<1> DEFINE p == cmd[a].pid
<1>0. gate \in [Pids -> {"free", "other", "boot", "up", "end"}]
  BY DEF GateTypeOK
<1>1. cmd[a].pc \in {"terminate", "wait", "clear"}
  BY DEF Stopping, Terminate, AwaitEnd, ClearStopped, At
<1>2. cmd[a].then \in {"port", "existing"} /\ p \in Pids /\ Gateways \subseteq {p}
  BY <1>1 DEF StartKnows
<1>3. CASE Terminate(a)
  <2>1. CASE gate[p] = "free"
    <3>1. Gateways = {} /\ gate' = gate
      BY <1>2, <1>3, <2>1 DEF Gateways, Terminate
    <3>2. cmd'[a].pc = "clear" /\ cmd'[a].then = cmd[a].then /\ cmd'[a].pid = p
      BY <1>3, <2>1, Moves DEF Terminate
    <3>3. QED
      BY <1>2, <3>1, <3>2, Same DEF StartKnows, StopPc
  <2>2. CASE gate[p] # "free"
    <3>1. gate' = Signalled(p)
      BY <1>3, <2>2 DEF Terminate
    <3>2. cmd'[a].pc = "wait" /\ cmd'[a].then = cmd[a].then /\ cmd'[a].pid = p
      BY <1>3, <2>2, Moves DEF Terminate
    <3>3. Gateways' \subseteq {p}
      BY <1>0, <1>2, <3>1 DEF Gateways, Signalled
    <3>4. QED
      BY <1>2, <3>2, <3>3 DEF StartKnows, StopPc
  <2>3. QED
    BY <2>1, <2>2
<1>4. CASE AwaitEnd(a)
  <2>1. cmd'[a].pc = "clear" /\ cmd'[a].then = cmd[a].then /\ cmd'[a].pid = p
    BY <1>4, Moves DEF AwaitEnd
  <2>2. Gateways' = {}
    BY <1>0, <1>2, <1>4 DEF AwaitEnd, Gateways
  <2>3. QED
    BY <1>2, <2>1, <2>2 DEF StartKnows, StopPc
<1>5. CASE ClearStopped(a)
  <2>1. cmd'[a].pc \in {"port", "existing"}
    BY <1>2, <1>5, Clears
  <2>2. Gateways = {} /\ gate' = gate
    BY <1>5 DEF ClearStopped, At, StartKnows, SameProcesses, processes
  <2>3. Unsettled = {}
    BY <2>2 DEF Gateways, Unsettled
  <2>4. QED
    BY <2>1, <2>2, <2>3, Same DEF StartKnows, StartPc
<1>6. QED
  BY <1>3, <1>4, <1>5 DEF Stopping

(* So does a process that settles.                                         *)
LEMMA StartSettles ==
  ASSUME GateTypeOK, NEW a \in Actors, StartKnows(a), Settle
  PROVE  StartKnows(a)'
<1>0. gate \in [Pids -> {"free", "other", "boot", "up", "end"}]
  BY DEF GateTypeOK
<1>1. /\ cmd' = cmd /\ old' = old /\ pidFile' = pidFile
      /\ \A q \in Pids : gate'[q] = gate[q] \/ (gate[q] = "boot" /\ gate'[q] \in {"up", "free"})
                         \/ (gate[q] = "end" /\ gate'[q] = "free")
  BY <1>0 DEF Settle
<1>2. Unsettled # {}
  BY DEF Settle, Unsettled
<1>3. Gateways' \subseteq Gateways
  BY <1>1 DEF Gateways
<1>4. \A q \in Gateways' : gate[q] = "end" => gate'[q] = "end"
  BY <1>1 DEF Gateways
<1>5. QED
  BY <1>1, <1>2, <1>3, <1>4 DEF StartKnows

LEMMA StartsOn ==
  ASSUME GateTypeOK, NEW b \in Actors, Starting(b) \/ Stopping(b)
  PROVE  cmd'[b].pc # "look"
<1>1. CASE Stopping(b)
  BY <1>1, StoppingLeads
<1>2. CASE Starting(b)
  <2>1. CASE LookAtPidFile(b)
    BY <2>1, Stops, Moves DEF LookAtPidFile
  <2>2. CASE RegisterKnown(b)
    BY <2>2, RegisterMoves DEF RegisterKnown
  <2>3. CASE ProbeHttp(b)
    BY <2>3, Moves DEF ProbeHttp
  <2>4. CASE ProbePort(b)
    <3>1. cmd'[b].pc \in {"existing", "terminate", "adopt"}
      BY <2>4, Stops, Puts DEF ProbePort, ProbePortWith
    <3>2. QED
      BY <3>1
  <2>5. CASE Adopt(b)
    BY <2>5, RegisterMoves DEF Adopt
  <2>6. CASE ProbeAdopted(b)
    BY <2>6, Moves DEF ProbeAdopted
  <2>7. CASE EndExisting(b)
    <3>1. cmd'[b].pc = "spawn"
      BY <2>7, Puts DEF EndExisting
    <3>2. QED
      BY <3>1
  <2>8. CASE SpawnGateway(b)
    <3>1. cmd'[b].pc = "remember"
      BY <2>8, Puts DEF SpawnGateway
    <3>2. QED
      BY <3>1
  <2>9. CASE RememberChild(b)
    BY <2>9, Moves DEF RememberChild
  <2>10. CASE Poll(b)
    BY <2>10, RegisterMoves, Overs DEF Poll
  <2>11. CASE CheckReady(b)
    BY <2>11, Moves, Overs DEF CheckReady, ReadyIf
  <2>12. CASE VerifyBridge(b)
    BY <2>12, Overs DEF VerifyBridge
  <2> QED
    BY <1>2, <2>1, <2>2, <2>3, <2>4, <2>5, <2>6, <2>7, <2>8, <2>9, <2>10, <2>11, <2>12 DEF Starting
<1>3. QED
  BY <1>1, <1>2

(* Every step keeps StartIInv.                                             *)
LEMMA StartStays ==
  GateTypeOK /\ LoneListener /\ StartIInv /\ [GateNext]_gateVars => StartIInv'
<1> SUFFICES ASSUME GateTypeOK, LoneListener, StartIInv, [GateNext]_gateVars PROVE StartIInv'
  OBVIOUS
<1> SUFFICES ASSUME NEW b \in Actors, hist'[b].alone, ~blind' PROVE StartKnows(b)'
  BY DEF StartIInv
<1>1. ASSUME NEW a \in Actors, CommandStep(a),
             hist' = [c \in Actors |-> IF c = a THEN Done(c) ELSE Witnessed(c)]
      PROVE  StartKnows(b)'
  <2>1. a = b /\ hist'[b] = Done(b)
    BY <1>1, Witnesses
  <2>2. ~blind
    BY <1>1, CommandWorld
  <2>3. cmd'[b].pc \in StartPc \cup StopPc
    BY <2>1, Doings
  <2>4. CASE Begin(b) \/ Connecting(b) \/ Onboarding(b)
    BY <2>1, <2>2, <2>4, StartEnters
  <2>5. CASE Starting(b) \/ Stopping(b)
    <3>1. cmd'[b].pc # "look" \/ cmd[b].pc = "look"
      BY <2>5, StartsOn
    <3>2. hist[b].alone
      BY <2>1, <3>1, Doings
    <3>3. StartKnows(b)
      BY <2>2, <3>2 DEF StartIInv
    <3>4. QED
      BY <2>2, <2>3, <2>5, <3>3, StartContinues, StartStops
  <2>6. QED
    BY <1>1, <2>1, <2>4, <2>5 DEF CommandStep
<1>2. CASE Settle /\ hist' = [c \in Actors |-> Unsettles(c)]
  <2>1. hist[b].alone /\ ~blind
    BY <1>2, Witnesses, Outside
  <2>2. QED
    BY <1>2, <2>1, StartSettles DEF StartIInv
<1>3. CASE Environment /\ hist' = [c \in Actors |-> Witnessed(c)]
  BY <1>3, Witnesses
<1>4. CASE UNCHANGED gateVars
  BY <1>4 DEF gateVars, processes, StartIInv, StartKnows, Gateways, Listeners, Unsettled
<1>5. QED
  BY <1>1, <1>2, <1>3, <1>4 DEF GateNext

LEMMA StartInit == GateInit => LoneListener /\ StartIInv
<1>1. GateInit => LoneListener
  BY DEF GateInit, LoneListener, Listeners
<1>2. GateInit => StartIInv
  BY DEF GateInit, StartIInv
<1>3. QED
  BY <1>1, <1>2

(* One process listens, and an undisturbed start knows which.              *)
THEOREM StartHolds == GateSpec => [](GateTypeOK /\ LoneListener /\ StartIInv)
<1>1. GateSpec => []GateTypeOK
  BY GateTypeCorrect
<1>2. GateSpec => []LoneListener
  BY <1>1, StartInit, LoneStep, PTL DEF GateSpec
<1>3. GateSpec => []StartIInv
  BY <1>1, <1>2, StartInit, StartStays, PTL DEF GateSpec
<1>4. QED
  BY <1>1, <1>2, <1>3, PTL

(* An undisturbed start that reports success leaves a current gateway on   *)
(* the port, with its pid in the pid file.                                 *)
THEOREM SuccessDelivers == GateSpec => StartDelivers
<1> DEFINE act == \A a \in Actors :
                    /\ ~At(a, "started") /\ cmd'[a].pc = "started"
                    /\ hist[a].alone /\ ~blind /\ \A p \in Pids : gate[p] # "end"
                    => pidFile \in Listeners \ old
<1>1. GateTypeOK /\ LoneListener /\ StartIInv /\ [GateNext]_gateVars => [act]_gateVars
  <2> SUFFICES ASSUME GateTypeOK, StartIInv, GateNext, NEW a \in Actors,
                      ~At(a, "started"), cmd'[a].pc = "started", hist[a].alone, ~blind,
                      \A p \in Pids : gate[p] # "end"
               PROVE  pidFile \in Listeners \ old
    OBVIOUS
  <2>1. CommandStep(a)
    BY OthersStay, Outside DEF GateNext, At
  <2>2. StartKnows(a)
    BY DEF StartIInv
  <2>3. cmd[a].pc \in {"http", "adopted"} \/ (cmd[a].pc = "ready" /\ Listeners # {})
    BY <2>1, Beginnings
  <2>4. CASE cmd[a].pc \in {"http", "adopted"}
    BY <2>2, <2>4 DEF StartKnows
  <2>5. CASE cmd[a].pc = "ready" /\ Listeners # {}
    <3>1. pidFile = cmd[a].pid /\ cmd[a].pid \in Pids \ old
          /\ \A q \in Gateways : q = cmd[a].pid \/ gate[q] = "end"
      BY <2>2, <2>5 DEF StartKnows
    <3>2. PICK q \in Listeners : TRUE
      BY <2>5
    <3>3. q \in Gateways /\ q \in Pids
      BY <3>2, Kinds
    <3>4. QED
      BY <3>1, <3>2, <3>3
  <2>6. QED
    BY <2>3, <2>4, <2>5
<1>2. QED
  BY <1>1, StartHolds, PTL DEF GateSpec, StartDelivers

(***************************************************************************)
(* Onboard and Gateway side by side.                                       *)
(***************************************************************************)
(* What the run checks are behaviours of startGateway and its neighbours,  *)
(* and of onboard and its machine: putting them side by side adds none.    *)
THEOREM SideBySide == SideSpec => Spec /\ GateSpec
<1>1. SideInit => Init /\ GateInit
  BY DEF SideInit
<1>2. [SideNext]_sideVars => [Next]_vars /\ [GateNext]_gateVars
  BY DEF SideNext, sideVars, Onboards, Gates
<1>3. QED
  BY <1>1, <1>2, PTL DEF SideSpec, Spec, GateSpec

(* So everything that run checks holds for every value of the constants:   *)
(* the types of the session, the entry, the pid file and the commands, and *)
(* what onboarding and the gateway's start and removal promise.            *)
THEOREM SideCorrect ==
  SideSpec => /\ [](SideTypeOK /\ EntryDescribesSandbox)
              /\ DeliveredIsConfigured /\ RemovedWasGone /\ StartDelivers /\ StrangersAreSpared
<1>1. SideTypeOK <=> TypeOK /\ GateTypeOK
  BY DEF SideTypeOK
<1>2. QED
  BY <1>1, SideBySide, OnboardingTypeCorrect, GateTypeCorrect, EntryCorrect, DeliverCorrect,
     GoneWhenRemoved, SuccessDelivers, OnlyGatewaysSignalled, PTL
=============================================================================
