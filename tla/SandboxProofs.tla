---------------------------- MODULE SandboxProofs ----------------------------
(* Theorems about Create and about Snapshot, what makes a sandbox and what *)
(* saves it, for every number of sandboxes, commands, files and failures.  *)
EXTENDS Create, Snapshot, TLAPS

(***************************************************************************)
(* The inductive invariant.                                                *)
(***************************************************************************)
MakeType == [pc : MakePc, gpu : BOOLEAN, vm : BOOLEAN, skip : BOOLEAN, latest : BOOLEAN,
             restore : BOOLEAN, told : BOOLEAN, undeleted : BOOLEAN]
PatchType == [at : PatchAt, by : {"nobody", "poll", "close", "main"}, done : BOOLEAN,
              failed : BOOLEAN, wait : BOOLEAN, deaf : BOOLEAN]
StreamType == [child : {"none", "running", "ended", "failed", "killed"}, created : BOOLEAN,
               seen : BOOLEAN, settled : BOOLEAN, status : {0, 1}]
GateType == [state : {"none", "starting", "ready"}, files : BOOLEAN, new : BOOLEAN]
ContType == [first : {"none", "running", "stopped"}, aside : BOOLEAN,
             gpu : {"none", "running", "broken"}]

(* A patch runs inside the stream, or after it and before anything else;   *)
(* the close handler patches only when the command has failed.             *)
PatchIn ==
  patch.at # "idle" => /\ patch.by # "nobody" /\ make.gpu
                       /\ make.pc \in {"stream", "ensure"}
                       /\ patch.by = "close" => stream.child = "failed"
                       /\ patch.by = "main" => make.pc = "ensure"
                       /\ patch.at = "wait" => patch.by = "main"

(* Past these steps the old sandbox is gone or about to be: what the user  *)
(* did not give up is in a backup.                                         *)
Recreating == {"delete", "unlist", "build", "stream", "ensure", "supervise", "ready", "verify",
               "forward", "register", "restore"}
FilesIn ==
  /\ gate.state = "none" => gate.files = FALSE
  /\ wanted => gate.files = TRUE \/ backup = TRUE
  /\ wanted /\ (make.skip = TRUE \/ make.pc \in Recreating) => backup = TRUE

(* What the steps towards the registration have found out, and what can no *)
(* longer change: the command that could make a sandbox has ended, and a   *)
(* container breaks only while it is being patched.                        *)
Final == {"verify", "forward", "register"}
Judged == Final \cup {"supervise", "ready"}
NewIn ==
  /\ make.pc \in Judged \cup {"unlist", "build", "stream", "ensure"}
       => gate.state = "none" \/ gate.new = TRUE \/ make.undeleted = TRUE
  /\ make.pc \in Final \cup {"restore"} => gate.state # "none"
EndedIn ==
  /\ stream.settled => stream.child # "running"
  /\ make.pc \in Judged \cup {"ensure"} => stream.settled
PatchedIn ==
  /\ make.pc \notin Judged \cup {"restore", "done", "exit"} => (patch.done => patch.wait)
  /\ make.pc \in Judged /\ make.gpu => patch.done
  /\ make.pc = "supervise" /\ make.gpu => patch.wait \/ Reachable
  /\ make.pc \in Final \cup {"ready"} /\ make.gpu => Reachable

MakeIInv == MakeTypeOK /\ PatchIn /\ FilesIn /\ NewIn /\ EndedIn /\ PatchedIn

(***************************************************************************)
(* What each variable is changed by, and its type after.                   *)
(***************************************************************************)
LEMMA MakeStep ==
  ASSUME MakeIInv, MakeNext
  PROVE  /\ make' \in MakeType
         /\ MakeBegin \/ (make'.gpu = make.gpu /\ make'.skip = make.skip)
<1> DEFINE Kept == make' \in MakeType /\ make'.gpu = make.gpu /\ make'.skip = make.skip
<1>0. make \in MakeType
  BY DEF MakeIInv, MakeTypeOK, MakeType
<1>1. ASSUME NEW pc \in MakePc, MakeTo(pc) PROVE Kept
  BY <1>0, <1>1 DEF MakeTo, MakeType
<1>2. ASSUME NEW told \in BOOLEAN, MakeExit(told) PROVE Kept
  BY <1>0, <1>2 DEF MakeExit, MakeType, MakePc
<1>3. CASE UNCHANGED make
  BY <1>0, <1>3
<1>4. CASE MakeBegin
  BY <1>4 DEF MakeBegin, NoMake, MakeType, MakePc
<1>5. CASE PruneStale
  <2>1. \/ MakeTo("decide")
        \/ make' = [make EXCEPT !.pc = "build", !.restore = listed /\ make.latest /\ backup]
    BY <1>5 DEF PruneStale
  <2>2. CASE make' = [make EXCEPT !.pc = "build", !.restore = listed /\ make.latest /\ backup]
    BY <1>0, <2>2 DEF MakeType, MakePc
  <2> QED BY <1>1, <2>1, <2>2 DEF MakePc
<1>6. CASE DecideReuse
  BY <1>1, <1>2, <1>6 DEF DecideReuse, MakePc
<1>7. CASE ReuseSandbox \/ UnlistOld \/ EnsureApplied \/ WaitForSupervisor \/ VerifyGpu
           \/ AwaitReady \/ ForwardDashboard \/ RegisterNew \/ StartCreate \/ JudgeStream
  BY <1>1, <1>2, <1>3, <1>7 DEF ReuseSandbox, UnlistOld, EnsureApplied, WaitForSupervisor, VerifyGpu,
     AwaitReady, ForwardDashboard, RegisterNew, StartCreate, JudgeStream, MakePc
<1>8. CASE BackupFirst
  <2>1. \/ make' = [make EXCEPT !.pc = "delete", !.restore = TRUE]
        \/ MakeExit(TRUE)
    BY <1>8 DEF BackupFirst
  <2>2. CASE make' = [make EXCEPT !.pc = "delete", !.restore = TRUE]
    BY <1>0, <2>2 DEF MakeType, MakePc
  <2> QED BY <1>2, <2>1, <2>2
<1>9. CASE DeleteOld
  <2>1. \/ MakeTo("unlist")
        \/ make' = [make EXCEPT !.pc = "unlist", !.undeleted = TRUE]
    BY <1>9 DEF DeleteOld
  <2>2. CASE make' = [make EXCEPT !.pc = "unlist", !.undeleted = TRUE]
    BY <1>0, <2>2 DEF MakeType, MakePc
  <2> QED BY <1>1, <2>1, <2>2 DEF MakePc
<1>10. CASE RestoreFiles
  <2>1. \/ MakeTo("done")
        \/ make' = [make EXCEPT !.pc = "done", !.told = TRUE]
    BY <1>10 DEF RestoreFiles
  <2>2. CASE make' = [make EXCEPT !.pc = "done", !.told = TRUE]
    BY <1>0, <2>2 DEF MakeType, MakePc
  <2> QED BY <1>1, <2>1, <2>2 DEF MakePc
<1>11. CASE MakeDies
  BY <1>0, <1>11 DEF MakeDies, MakeType, MakePc
<1>12. CASE PatchNext
  <2>1. UNCHANGED make \/ MakeTo("supervise") \/ MakeExit(TRUE)
    <3>1. patch.at # "idle" => patch.by \in {"poll", "close", "main"}
      BY DEF MakeIInv, MakeTypeOK, PatchIn
    <3>2. patch.at # "idle" /\ PatchFails => UNCHANGED make \/ MakeExit(TRUE)
      BY <3>1 DEF PatchFails
    <3> QED BY <1>12, <3>2 DEF PatchNext, InspectContainer, StopOld, RenameOld, RunClone,
        IdentifyClone, DropOld, AwaitSupervisor
  <2> QED BY <1>1, <1>2, <1>3, <2>1 DEF MakePc
<1>13. CASE StreamNext
  BY <1>3, <1>13 DEF StreamNext, PollReady, PollPatch, CloseChecks, CloseEnds
<1>14. CASE OutsideNext
  BY <1>3, <1>14 DEF OutsideNext, ChildCreates, ChildPrints, ChildEnds, GatewayReports,
     GatewayNotices, GpuContainerBreaks
<1> QED
  BY <1>4, <1>5, <1>6, <1>7, <1>8, <1>9, <1>10, <1>11, <1>12, <1>13, <1>14
  DEF MakeNext, MakeSteps

LEMMA StreamStep ==
  ASSUME MakeIInv, MakeNext
  PROVE  stream' \in StreamType
<1>0. stream \in StreamType
  BY DEF MakeIInv, MakeTypeOK, StreamType
<1>1. ASSUME NEW s \in StreamType, NEW status \in {0, 1}, stream' = Settle(s, status)
      PROVE  stream' \in StreamType
  BY <1>1 DEF Settle, StreamType
<1>2. CASE UNCHANGED stream
  BY <1>0, <1>2
<1>3. CASE MakeBegin \/ StartCreate \/ ChildCreates \/ ChildPrints \/ ChildEnds \/ MakeDies
  <2>1. CASE stream' = NoStream
    BY <2>1 DEF NoStream, StreamType
  <2>2. CASE stream' = [NoStream EXCEPT !.child = "running", !.seen = ~make.vm]
    BY <2>2 DEF NoStream, StreamType
  <2>3. ASSUME NEW child \in {"ended", "failed", "killed"}, stream' = [stream EXCEPT !.child = child]
        PROVE  stream' \in StreamType
    BY <1>0, <2>3 DEF StreamType
  <2>4. CASE ChildCreates \/ ChildPrints
    BY <1>0, <2>4 DEF ChildCreates, ChildPrints, StreamType
  <2>5. CASE MakeBegin \/ StartCreate
    BY <1>2, <2>1, <2>2, <2>5 DEF MakeBegin, StartCreate
  <2>6. CASE ChildEnds
    BY <2>3, <2>6 DEF ChildEnds
  <2>7. CASE MakeDies
    <3>1. stream' = [stream EXCEPT !.child = "killed"] \/ stream' = [stream EXCEPT !.child = stream.child]
      BY <2>7 DEF MakeDies
    <3> QED BY <1>0, <3>1 DEF StreamType
  <2> QED BY <1>3, <2>4, <2>5, <2>6, <2>7
<1>4. [stream EXCEPT !.child = "killed"] \in StreamType
  BY <1>0 DEF StreamType
<1>5. CASE StreamNext
  BY <1>0, <1>1, <1>2, <1>4, <1>5 DEF StreamNext, PollReady, PollPatch, CloseChecks, CloseEnds
<1>6. CASE PatchNext
  <2>1. patch.at # "idle" => patch.by \in {"poll", "close", "main"}
    BY DEF MakeIInv, MakeTypeOK, PatchIn
  <2>2. ASSUME patch.at # "idle", PatchFails PROVE stream' \in StreamType
    BY <1>0, <1>1, <1>2, <1>4, <2>1, <2>2 DEF PatchFails
  <2>3. CASE DropOld
    BY <1>0, <1>1, <1>2, <2>3 DEF DropOld
  <2>4. CASE AwaitSupervisor \/ StopOld
    BY <1>2, <2>4 DEF AwaitSupervisor, StopOld
  <2> QED BY <1>2, <1>6, <2>2, <2>3, <2>4 DEF PatchNext, InspectContainer, RenameOld, RunClone,
      IdentifyClone
<1>7. CASE MakeSteps
  BY <1>2, <1>3, <1>7 DEF MakeSteps, Calm, PruneStale, DecideReuse, ReuseSandbox, BackupFirst,
     DeleteOld, UnlistOld, JudgeStream, EnsureApplied, WaitForSupervisor, AwaitReady, VerifyGpu,
     ForwardDashboard, RegisterNew, RestoreFiles
<1>8. CASE GatewayReports \/ GatewayNotices \/ GpuContainerBreaks
  BY <1>2, <1>8 DEF GatewayReports, GatewayNotices, GpuContainerBreaks, Calm
<1> QED BY <1>3, <1>5, <1>6, <1>7, <1>8 DEF MakeNext, OutsideNext

LEMMA PatchStep ==
  ASSUME MakeIInv, MakeNext
  PROVE  patch' \in PatchType
<1>0. patch \in PatchType
  BY DEF MakeIInv, MakeTypeOK, PatchType
<1>1. ASSUME NEW at \in PatchAt, PatchTo(at) PROVE patch' \in PatchType
  BY <1>0, <1>1 DEF PatchTo, PatchType
<1>2. ASSUME NEW by \in {"poll", "close", "main"}, StartPatch(by) PROVE patch' \in PatchType
  BY <1>0, <1>2 DEF StartPatch, PatchType, PatchAt
<1>3. CASE UNCHANGED patch
  BY <1>0, <1>3
<1>4. ASSUME PatchFails PROVE patch' \in PatchType
  <2>1. patch' = [patch EXCEPT !.at = "idle", !.failed = TRUE]
    BY <1>4 DEF PatchFails
  <2> QED BY <1>0, <2>1 DEF PatchType, PatchAt
<1>5. CASE MakeBegin \/ MakeDies
  <2>1. patch' = NoPatch \/ patch' = [patch EXCEPT !.at = "idle"]
    BY <1>5 DEF MakeBegin, MakeDies
  <2>2. NoPatch \in PatchType
    BY DEF NoPatch, PatchType, PatchAt
  <2>3. [patch EXCEPT !.at = "idle"] \in PatchType
    BY <1>0 DEF PatchType, PatchAt
  <2> QED BY <2>1, <2>2, <2>3
<1>6. CASE StreamNext
  BY <1>2, <1>3, <1>6 DEF StreamNext, PollReady, PollPatch, CloseChecks, CloseEnds
<1>7. CASE InspectContainer \/ RenameOld \/ RunClone \/ IdentifyClone
  BY <1>1, <1>4, <1>7 DEF InspectContainer, RenameOld, RunClone, IdentifyClone, PatchAt
<1>8. CASE StopOld
  <2>1. PatchTo("rename") \/ patch' = [patch EXCEPT !.at = "rename", !.deaf = TRUE]
    BY <1>8 DEF StopOld
  <2>2. CASE patch' = [patch EXCEPT !.at = "rename", !.deaf = TRUE]
    BY <1>0, <2>2 DEF PatchType, PatchAt
  <2> QED BY <1>1, <2>1, <2>2 DEF PatchAt
<1>9. CASE DropOld
  <2>1. PatchTo("wait") \/ patch' = [patch EXCEPT !.at = "idle", !.done = TRUE, !.wait = TRUE]
    BY <1>9 DEF DropOld
  <2>2. CASE patch' = [patch EXCEPT !.at = "idle", !.done = TRUE, !.wait = TRUE]
    BY <1>0, <2>2 DEF PatchType, PatchAt
  <2> QED BY <1>1, <2>1, <2>2 DEF PatchAt
<1>10. CASE AwaitSupervisor
  <2>1. \/ patch' = [patch EXCEPT !.at = "idle", !.done = TRUE]
        \/ patch' = [patch EXCEPT !.at = "idle", !.failed = TRUE]
    BY <1>10 DEF AwaitSupervisor
  <2>2. CASE patch' = [patch EXCEPT !.at = "idle", !.done = TRUE]
    BY <1>0, <2>2 DEF PatchType, PatchAt
  <2>3. CASE patch' = [patch EXCEPT !.at = "idle", !.failed = TRUE]
    BY <1>0, <2>3 DEF PatchType, PatchAt
  <2> QED BY <2>1, <2>2, <2>3
<1>11. CASE MakeSteps
  BY <1>2, <1>3, <1>11 DEF MakeSteps, Calm, PruneStale, DecideReuse, ReuseSandbox, BackupFirst,
     DeleteOld, UnlistOld, StartCreate, JudgeStream, EnsureApplied, WaitForSupervisor, AwaitReady,
     VerifyGpu, ForwardDashboard, RegisterNew, RestoreFiles
<1>12. CASE OutsideNext
  BY <1>3, <1>12 DEF OutsideNext, ChildCreates, ChildPrints, ChildEnds, GatewayReports,
     GatewayNotices, GpuContainerBreaks, Calm
<1> QED
  BY <1>5, <1>6, <1>7, <1>8, <1>9, <1>10, <1>11, <1>12 DEF MakeNext, PatchNext

LEMMA PlaceStep ==
  ASSUME MakeIInv, MakeNext
  PROVE  gate' \in GateType /\ cont' \in ContType
<1>0. gate \in GateType /\ cont \in ContType
  BY DEF MakeIInv, MakeTypeOK, GateType, ContType
<1>1. NoSandbox \in GateType /\ NoCont \in ContType
  BY DEF NoSandbox, NoCont, GateType, ContType
<1>2. CASE UNCHANGED outside
  BY <1>0, <1>2 DEF outside
<1>3. ASSUME NEW x \in {"starting", "ready"}, gate' = [gate EXCEPT !.state = x]
      PROVE  gate' \in GateType
  BY <1>0, <1>3 DEF GateType
<1>4. ASSUME NEW b \in BOOLEAN, gate' = [gate EXCEPT !.new = b]
      PROVE  gate' \in GateType
  BY <1>0, <1>4 DEF GateType
<1>5. CASE RestoreFiles
  <2>1. gate' = gate \/ gate' = [gate EXCEPT !.files = gate.files \/ (make.restore /\ backup)]
    BY <1>5 DEF RestoreFiles
  <2>2. (gate.files \/ (make.restore /\ backup)) \in BOOLEAN
    OBVIOUS
  <2>3. ASSUME NEW b \in BOOLEAN, gate' = [gate EXCEPT !.files = b] PROVE gate' \in GateType
    BY <1>0, <2>3 DEF GateType
  <2>4. gate' \in GateType /\ cont' = cont
    BY <1>0, <1>5, <2>1, <2>2, <2>3 DEF RestoreFiles
  <2> QED BY <1>0, <2>4
<1>6. CASE MakeBegin \/ GatewayReports \/ GatewayNotices
  BY <1>0, <1>3, <1>4, <1>6 DEF MakeBegin, GatewayReports, GatewayNotices
<1>7. ASSUME NEW x \in {"none", "running", "stopped"}, cont' = [cont EXCEPT !.first = x]
      PROVE  cont' \in ContType
  BY <1>0, <1>7 DEF ContType
<1>8. ASSUME NEW x \in {"running", "broken"}, cont' = [cont EXCEPT !.gpu = x]
      PROVE  cont' \in ContType
  BY <1>0, <1>8 DEF ContType
<1>9. ASSUME NEW b \in BOOLEAN, cont' = [cont EXCEPT !.aside = b]
      PROVE  cont' \in ContType
  BY <1>0, <1>9 DEF ContType
<1>10. ASSUME NEW b \in BOOLEAN, cont' = [cont EXCEPT !.first = "none", !.aside = b]
       PROVE  cont' \in ContType
  BY <1>0, <1>10 DEF ContType
<1>11. CASE PatchNext
  <2>1. gate' = gate
    BY <1>11 DEF PatchNext, InspectContainer, StopOld, RenameOld, RunClone, IdentifyClone,
       DropOld, AwaitSupervisor, outside
  <2>2. cont' \in ContType
    BY <1>0, <1>7, <1>8, <1>9, <1>10, <1>11 DEF PatchNext, InspectContainer, StopOld, RenameOld,
       RunClone, IdentifyClone, DropOld, AwaitSupervisor, outside
  <2> QED BY <1>0, <2>1, <2>2
<1>12. CASE ChildCreates
  <2>1. [state |-> "starting", files |-> FALSE, new |-> TRUE] \in GateType
    BY DEF GateType
  <2>2. [NoCont EXCEPT !.first = "running"] \in ContType
    BY DEF NoCont, ContType
  <2> QED BY <1>12, <2>1, <2>2 DEF ChildCreates
<1>13. CASE GpuContainerBreaks
  BY <1>0, <1>8, <1>13 DEF GpuContainerBreaks
<1>14. CASE DeleteOld
  <2>1. Aged \in ContType
    BY <1>0 DEF Aged, NoCont, ContType
  <2> QED BY <1>0, <1>1, <1>14, <2>1 DEF DeleteOld
<1>15. CASE AwaitReady \/ ForwardDashboard
  BY <1>0, <1>1, <1>2, <1>15 DEF AwaitReady, ForwardDashboard
<1>16. CASE MakeSteps
  BY <1>2, <1>5, <1>14, <1>15, <1>16 DEF MakeSteps, PruneStale, DecideReuse, ReuseSandbox,
     BackupFirst, UnlistOld, StartCreate, JudgeStream, EnsureApplied, WaitForSupervisor,
     VerifyGpu, RegisterNew, outside
<1>17. CASE StreamNext \/ ChildPrints \/ ChildEnds \/ MakeDies
  BY <1>2, <1>17 DEF StreamNext, PollReady, PollPatch, CloseChecks, CloseEnds, ChildPrints,
     ChildEnds, MakeDies
<1> QED
  BY <1>6, <1>11, <1>12, <1>13, <1>16, <1>17 DEF MakeNext, OutsideNext

LEMMA FlagsStep ==
  ASSUME MakeIInv, MakeNext
  PROVE  /\ {listed', backup', wanted'} \subseteq BOOLEAN
         /\ makes' \in 0 .. MaxMakes /\ makeFaults' \in 0 .. MaxMakeFaults
<1>0. /\ {listed, backup, wanted} \subseteq BOOLEAN
      /\ makes \in 0 .. MaxMakes /\ makeFaults \in 0 .. MaxMakeFaults
  BY DEF MakeIInv, MakeTypeOK
<1>1. {listed', backup', wanted'} \subseteq BOOLEAN
  <2>1. CASE UNCHANGED <<listed, backup, wanted>>
    BY <1>0, <2>1
  <2>2. CASE MakeBegin
    BY <1>0, <2>2 DEF MakeBegin
  <2>3. CASE PruneStale \/ UnlistOld \/ RegisterNew
    BY <1>0, <2>3 DEF PruneStale, UnlistOld, RegisterNew
  <2>4. CASE BackupFirst
    BY <1>0, <2>4 DEF BackupFirst
  <2>5. CASE MakeSteps
    BY <2>1, <2>3, <2>4, <2>5 DEF MakeSteps, DecideReuse, ReuseSandbox, DeleteOld, StartCreate,
       JudgeStream, EnsureApplied, WaitForSupervisor, AwaitReady, VerifyGpu, ForwardDashboard,
       RestoreFiles
  <2>6. CASE StreamNext \/ PatchNext \/ OutsideNext \/ MakeDies
    BY <2>1, <2>6 DEF StreamNext, PollReady, PollPatch, CloseChecks, CloseEnds, PatchNext,
       InspectContainer, StopOld, RenameOld, RunClone, IdentifyClone, DropOld, AwaitSupervisor,
       OutsideNext, ChildCreates, ChildPrints, ChildEnds, GatewayReports, GatewayNotices,
       GpuContainerBreaks, MakeDies
  <2> QED BY <2>2, <2>5, <2>6 DEF MakeNext
<1>2. makes' \in 0 .. MaxMakes /\ makeFaults' \in 0 .. MaxMakeFaults
  <2>1. CASE Well
    BY <1>0, <2>1 DEF Well
  <2>2. CASE Badly
    BY <1>0, <2>2, MakeBounds DEF Badly
  <2>3. CASE MakeBegin
    BY <1>0, <2>3, MakeBounds DEF MakeBegin
  <2>4. Well \/ Badly \/ MakeBegin
    <3>1. MakeSteps => Well \/ Badly
      BY DEF MakeSteps, PruneStale, DecideReuse, ReuseSandbox, BackupFirst, DeleteOld, UnlistOld,
         StartCreate, JudgeStream, EnsureApplied, WaitForSupervisor, AwaitReady, VerifyGpu,
         ForwardDashboard, RegisterNew, RestoreFiles
    <3>2. StreamNext \/ PatchNext => Well \/ Badly
      BY DEF StreamNext, PollReady, PollPatch, CloseChecks, CloseEnds, PatchNext,
         InspectContainer, StopOld, RenameOld, RunClone, IdentifyClone, DropOld, AwaitSupervisor
    <3>3. OutsideNext \/ MakeDies => Well \/ Badly
      BY DEF OutsideNext, ChildCreates, ChildPrints, ChildEnds, GatewayReports, GatewayNotices,
         GpuContainerBreaks, MakeDies
    <3> QED BY <3>1, <3>2, <3>3 DEF MakeNext
  <2> QED BY <2>1, <2>2, <2>3, <2>4
<1> QED BY <1>1, <1>2

(***************************************************************************)
(* The parts of the invariant.                                             *)
(***************************************************************************)
(* What starts a patch, and what a step of it leaves alone.                *)
LEMMA PatchInStep ==
  ASSUME MakeIInv, MakeNext
  PROVE  PatchIn'
<1>0. patch \in PatchType /\ make \in MakeType
  BY DEF MakeIInv, MakeTypeOK, PatchType, MakeType
<1>1. CASE patch'.at = "idle"
  BY <1>1 DEF PatchIn
<1>2. CASE PollPatch
  <2>1. /\ make.gpu /\ make' = make /\ make.pc = "stream"
        /\ patch' = [patch EXCEPT !.at = "inspect", !.by = "poll"]
    BY <1>2 DEF PollPatch, Streaming, MakeAt, PatchDue, StartPatch
  <2>2. patch'.by = "poll" /\ patch'.at = "inspect"
    BY <1>0, <2>1 DEF PatchType
  <2> QED BY <2>1, <2>2 DEF PatchIn
<1>3. CASE CloseChecks /\ patch'.at # "idle"
  <2>1. /\ make.gpu /\ make' = make /\ make.pc = "stream"
        /\ stream' = stream /\ stream.child = "failed"
        /\ patch' = [patch EXCEPT !.at = "inspect", !.by = "close"]
    BY <1>3 DEF CloseChecks, Streaming, MakeAt, PatchDue, StartPatch
  <2>2. patch'.by = "close" /\ patch'.at = "inspect"
    BY <1>0, <2>1 DEF PatchType
  <2> QED BY <2>1, <2>2 DEF PatchIn
<1>4. CASE EnsureApplied /\ patch'.at # "idle"
  <2>1. /\ make.gpu /\ make' = make /\ make.pc = "ensure"
        /\ patch' = [patch EXCEPT !.at = "inspect", !.by = "main"]
    BY <1>4 DEF EnsureApplied, MakeAt, StartPatch
  <2>2. patch'.by = "main" /\ patch'.at = "inspect"
    BY <1>0, <2>1 DEF PatchType
  <2> QED BY <2>1, <2>2 DEF PatchIn
<1>5. CASE /\ patch.at # "idle" /\ patch'.by = patch.by /\ make' = make
           /\ stream.child = "failed" => stream'.child = "failed"
           /\ patch'.at = "wait" => patch.by = "main"
  BY <1>5 DEF PatchIn, MakeIInv
<1>6. CASE PatchNext /\ patch'.at # "idle"
  <2>1. /\ patch.at # "idle" /\ make' = make /\ stream' = stream
        /\ (\E at \in PatchAt : PatchTo(at))
           \/ patch' = [patch EXCEPT !.at = "rename", !.deaf = TRUE]
    <3>1. patch'.at # "idle" => ~PatchFails
      BY <1>0 DEF PatchFails, PatchType
    <3>2. patch.at # "idle"
      BY <1>6 DEF PatchNext, InspectContainer, StopOld, RenameOld, RunClone, IdentifyClone,
         DropOld, AwaitSupervisor
    <3>3. CASE InspectContainer \/ RenameOld \/ RunClone \/ IdentifyClone
      BY <1>6, <3>1, <3>2, <3>3 DEF InspectContainer, RenameOld, RunClone, IdentifyClone, PatchAt
    <3>4. CASE StopOld
      BY <3>2, <3>4 DEF StopOld, PatchAt
    <3>5. CASE DropOld
      BY <1>0, <1>6, <3>2, <3>5 DEF DropOld, PatchAt, PatchType
    <3>6. ~AwaitSupervisor
      BY <1>0, <1>6 DEF AwaitSupervisor, PatchType
    <3> QED BY <1>6, <3>3, <3>4, <3>5, <3>6 DEF PatchNext
  <2>2. patch'.by = patch.by
    BY <1>0, <2>1 DEF PatchTo, PatchType
  <2>3. patch'.at = "wait" => patch.by = "main"
    <3>1. ASSUME NEW at \in PatchAt \ {"wait"}, PatchTo(at) PROVE patch'.at # "wait"
      BY <1>0, <3>1 DEF PatchTo, PatchType
    <3>2. ASSUME patch' = [patch EXCEPT !.at = "rename", !.deaf = TRUE] PROVE patch'.at # "wait"
      BY <1>0, <3>2 DEF PatchType
    <3>3. ASSUME patch'.at # "idle" PROVE ~PatchFails
      BY <1>0, <3>3 DEF PatchFails, PatchType
    <3>4. CASE InspectContainer \/ RenameOld \/ RunClone \/ IdentifyClone
      BY <1>6, <3>1, <3>3, <3>4 DEF InspectContainer, RenameOld, RunClone, IdentifyClone, PatchAt
    <3>5. CASE StopOld
      BY <3>1, <3>2, <3>5 DEF StopOld, PatchAt
    <3>6. CASE DropOld
      <4>1. patch.by = "main" \/ patch' = [patch EXCEPT !.at = "idle", !.done = TRUE, !.wait = TRUE]
        BY <3>6 DEF DropOld
      <4>2. ASSUME patch' = [patch EXCEPT !.at = "idle", !.done = TRUE, !.wait = TRUE]
            PROVE  patch'.at # "wait"
        BY <1>0, <4>2 DEF PatchType
      <4> QED BY <4>1, <4>2
    <3>7. CASE AwaitSupervisor
      <4>1. ASSUME patch' = [patch EXCEPT !.at = "idle", !.done = TRUE] PROVE patch'.at # "wait"
        BY <1>0, <4>1 DEF PatchType
      <4>2. ASSUME patch' = [patch EXCEPT !.at = "idle", !.failed = TRUE] PROVE patch'.at # "wait"
        BY <1>0, <4>2 DEF PatchType
      <4> QED BY <3>7, <4>1, <4>2 DEF AwaitSupervisor
    <3> QED BY <1>6, <3>4, <3>5, <3>6, <3>7 DEF PatchNext
  <2> QED BY <1>5, <2>1, <2>2, <2>3
<1>7. MakeBegin \/ MakeDies => patch'.at = "idle"
  <2>1. MakeBegin => patch'.at = "idle"
    BY DEF MakeBegin, NoPatch
  <2>2. ASSUME patch' = [patch EXCEPT !.at = "idle"] PROVE patch'.at = "idle"
    BY <1>0, <2>2 DEF PatchType
  <2> QED BY <2>1, <2>2 DEF MakeDies
<1>8. CASE UNCHANGED patch /\ patch.at # "idle"
  <2>1. ~MakeSteps /\ ~StreamNext
    BY <1>8 DEF MakeSteps, MakeAt, PruneStale, DecideReuse, ReuseSandbox, BackupFirst, DeleteOld,
       UnlistOld, StartCreate, JudgeStream, EnsureApplied, WaitForSupervisor, AwaitReady,
       VerifyGpu, ForwardDashboard, RegisterNew, RestoreFiles, StreamNext, PollReady, PollPatch,
       CloseChecks, CloseEnds, Streaming
  <2>2. OutsideNext \/ patch'.at = "idle" \/ PatchNext
    BY <1>7, <2>1 DEF MakeNext
  <2>3. CASE OutsideNext
    <3>1. make' = make
      BY <2>3 DEF OutsideNext, ChildCreates, ChildPrints, ChildEnds, GatewayReports,
         GatewayNotices, GpuContainerBreaks
    <3>2. stream.child = "failed" => stream'.child = "failed"
      BY <2>3 DEF OutsideNext, ChildCreates, ChildPrints, ChildEnds, GatewayReports,
         GatewayNotices, GpuContainerBreaks, Calm, MakeIInv, MakeTypeOK
    <3>3. patch'.at = "wait" => patch.by = "main"
      BY <1>8 DEF MakeIInv, PatchIn
    <3> QED BY <1>5, <1>8, <3>1, <3>2, <3>3
  <2> QED BY <1>1, <1>6, <2>2, <2>3
<1>9. MakeSteps \/ StreamNext \/ OutsideNext
        => UNCHANGED patch \/ PollPatch \/ CloseChecks \/ EnsureApplied
  BY DEF MakeSteps, Calm, PruneStale, DecideReuse, ReuseSandbox, BackupFirst, DeleteOld,
     UnlistOld, StartCreate, JudgeStream, WaitForSupervisor, AwaitReady, VerifyGpu,
     ForwardDashboard, RegisterNew, RestoreFiles, StreamNext, PollReady, CloseEnds, OutsideNext,
     ChildCreates, ChildPrints, ChildEnds, GatewayReports, GatewayNotices, GpuContainerBreaks
<1> QED BY <1>1, <1>2, <1>3, <1>4, <1>6, <1>8, <1>7, <1>9 DEF MakeNext

(* No action that takes the files away comes before the backup.            *)
LEMMA FilesInStep ==
  ASSUME MakeIInv, MakeNext
  PROVE  FilesIn'
<1> USE DEF FilesIn, Recreating
<1>0. /\ gate \in GateType /\ make \in MakeType /\ FilesIn
      /\ {backup, wanted} \subseteq BOOLEAN
  BY DEF MakeIInv, MakeTypeOK, GateType, MakeType
<1>1. CASE MakeBegin
  <2>1. /\ gate'.state = gate.state /\ gate'.files = gate.files /\ backup' = backup
        /\ wanted' = (wanted /\ ~(make'.skip /\ ~backup)) /\ make'.pc = "prune"
    BY <1>0, <1>1 DEF MakeBegin, NoMake, GateType
  <2> QED BY <1>0, <2>1
<1>2. ASSUME gate' = gate, backup' = backup, wanted' = wanted, make'.skip = make.skip,
             make'.pc \in Recreating => make.pc \in Recreating \/ make.skip \/ gate.state = "none"
      PROVE  FilesIn'
  BY <1>0, <1>2
<1>3. ~MakeBegin => make'.skip = make.skip
  BY MakeStep
<1>4. ASSUME gate' = NoSandbox, backup' = backup, wanted' = wanted, wanted => backup
      PROVE  FilesIn'
  BY <1>4 DEF NoSandbox
<1>5. ASSUME NEW pc \in MakePc, MakeTo(pc) PROVE make'.pc = pc
  BY <1>0, <1>5 DEF MakeTo, MakeType
<1>6. ASSUME NEW told \in BOOLEAN, MakeExit(told) PROVE make'.pc = "exit"
  BY <1>0, <1>6 DEF MakeExit, MakeType
<1>7. CASE PruneStale
  <2>1. gate.state = "none" \/ MakeTo("decide")
    BY <1>7 DEF PruneStale
  <2>2. make'.pc \in Recreating => gate.state = "none"
    BY <1>5, <2>1 DEF MakePc
  <2> QED BY <1>2, <1>3, <1>7, <2>2 DEF PruneStale, outside, MakeBegin, MakeAt
<1>8. CASE DecideReuse
  <2>1. make'.pc \in Recreating => make.skip
    BY <1>5, <1>6, <1>8 DEF DecideReuse, MakePc
  <2> QED BY <1>2, <1>3, <1>8, <2>1 DEF DecideReuse, outside, MakeBegin, MakeAt
<1>9. CASE BackupFirst
  <2>1. gate' = gate /\ wanted' = wanted
    BY <1>9 DEF BackupFirst, outside
  <2>2. CASE backup' = (backup \/ gate.files)
    BY <1>0, <2>1, <2>2
  <2>3. CASE backup' = backup /\ MakeExit(TRUE)
    BY <1>0, <1>2, <1>3, <1>6, <1>9, <2>1, <2>3 DEF MakeBegin, BackupFirst, MakeAt
  <2> QED BY <1>9, <2>2, <2>3 DEF BackupFirst
<1>10. CASE make.pc \in Recreating /\ ~MakeBegin /\ UNCHANGED <<gate, backup, wanted>>
  BY <1>2, <1>3, <1>10
<1>11. CASE DeleteOld
  BY <1>0, <1>4, <1>10, <1>11 DEF DeleteOld, MakeAt, MakeBegin
<1>12. CASE AwaitReady \/ ForwardDashboard
  BY <1>0, <1>4, <1>10, <1>12 DEF AwaitReady, ForwardDashboard, MakeAt, MakeBegin, outside
<1>13. CASE RestoreFiles
  <2>1. /\ gate'.state = gate.state /\ backup' = backup /\ wanted' = wanted
        /\ make.pc = "restore"
    BY <1>0, <1>13 DEF RestoreFiles, MakeAt, GateType
  <2>2. gate'.state = "none" => gate'.files = FALSE
    BY <2>1 DEF MakeIInv, NewIn
  <2> QED BY <1>0, <2>1, <2>2
<1>14. CASE ReuseSandbox
  <2>1. make'.pc = "done"
    BY <1>5, <1>14 DEF ReuseSandbox, MakePc
  <2> QED BY <1>2, <1>3, <1>14, <2>1 DEF ReuseSandbox, MakeBegin, MakeAt, outside
<1>15. CASE UnlistOld \/ StartCreate \/ JudgeStream \/ EnsureApplied \/ WaitForSupervisor
            \/ VerifyGpu \/ RegisterNew
  BY <1>10, <1>15 DEF UnlistOld, StartCreate, JudgeStream, EnsureApplied, WaitForSupervisor,
     VerifyGpu, RegisterNew, MakeAt, MakeBegin, outside
<1>16. CASE MakeDies
  <2>1. make'.pc = "exit"
    <3>1. make' = [make EXCEPT !.pc = "exit"]
      BY <1>16 DEF MakeDies
    <3> QED BY <1>0, <3>1 DEF MakeType
  <2> QED BY <1>2, <1>3, <1>16, <2>1 DEF MakeDies, MakeBegin, outside
<1>17. CASE StreamNext \/ PatchNext
  <2>1. make.pc \in Recreating
    BY <1>17 DEF StreamNext, PollReady, PollPatch, CloseChecks, CloseEnds, Streaming, MakeAt,
       PatchNext, InspectContainer, StopOld, RenameOld, RunClone, IdentifyClone, DropOld,
       AwaitSupervisor, MakeIInv, PatchIn
  <2> QED BY <1>10, <1>17, <2>1 DEF StreamNext, PollReady, PollPatch, CloseChecks, CloseEnds,
      PatchNext, InspectContainer, StopOld, RenameOld, RunClone, IdentifyClone, DropOld,
      AwaitSupervisor, outside, MakeBegin
<1>18. CASE ChildCreates
  BY <1>0, <1>18 DEF ChildCreates
<1>19. CASE ChildPrints \/ ChildEnds \/ GpuContainerBreaks
  BY <1>2, <1>19 DEF ChildPrints, ChildEnds, GpuContainerBreaks, outside
<1>20. CASE GatewayReports \/ GatewayNotices
  <2>1. /\ gate'.files = gate.files /\ gate'.state # "none" /\ gate.state # "none"
        /\ backup' = backup /\ wanted' = wanted /\ make' = make
    BY <1>0, <1>20 DEF GatewayReports, GatewayNotices, GateType
  <2> QED BY <1>0, <2>1
<1> QED
  BY <1>1, <1>7, <1>8, <1>9, <1>11, <1>12, <1>13, <1>14, <1>15, <1>16, <1>17, <1>18, <1>19,
     <1>20 DEF MakeNext, MakeSteps, OutsideNext

(* The sandbox at the gateway when the registration comes.                 *)
LEMMA NewInStep ==
  ASSUME MakeIInv, MakeNext
  PROVE  NewIn'
<1> USE DEF NewIn, Judged, Final
<1>0. /\ gate \in GateType /\ make \in MakeType /\ NewIn
  BY DEF MakeIInv, MakeTypeOK, GateType, MakeType
<1>1. ASSUME NEW pc \in MakePc, MakeTo(pc)
      PROVE  make'.pc = pc /\ make'.undeleted = make.undeleted
  BY <1>0, <1>1 DEF MakeTo, MakeType
<1>2. ASSUME NEW told \in BOOLEAN, MakeExit(told) PROVE make'.pc = "exit"
  BY <1>0, <1>2 DEF MakeExit, MakeType
<1>3. CASE make'.pc \in {"idle", "prune", "decide", "reuse", "backup", "delete", "done", "exit"}
  BY <1>3
<1>4. CASE MakeBegin
  BY <1>3, <1>4 DEF MakeBegin, NoMake
<1>5. CASE PruneStale
  <2>1. CASE MakeTo("decide")
    BY <1>1, <1>3, <2>1 DEF MakePc
  <2>2. CASE /\ gate.state = "none"
             /\ make' = [make EXCEPT !.pc = "build", !.restore = listed /\ make.latest /\ backup]
    <3>1. make'.pc = "build" /\ gate' = gate
      BY <1>0, <1>5, <2>2 DEF MakeType, PruneStale, outside
    <3> QED BY <2>2, <3>1
  <2> QED BY <1>5, <2>1, <2>2 DEF PruneStale
<1>6. CASE DecideReuse \/ ReuseSandbox
  BY <1>1, <1>2, <1>3, <1>6 DEF DecideReuse, ReuseSandbox, MakePc
<1>7. CASE BackupFirst
  <2>1. CASE make' = [make EXCEPT !.pc = "delete", !.restore = TRUE]
    BY <1>0, <1>3, <2>1 DEF MakeType
  <2> QED BY <1>2, <1>3, <1>7, <2>1 DEF BackupFirst
<1>8. CASE DeleteOld
  <2>1. CASE MakeTo("unlist") /\ gate' = NoSandbox
    BY <1>1, <2>1 DEF NoSandbox, MakePc
  <2>2. CASE make' = [make EXCEPT !.pc = "unlist", !.undeleted = TRUE]
    <3>1. make'.pc = "unlist" /\ make'.undeleted = TRUE
      BY <1>0, <2>2 DEF MakeType
    <3> QED BY <3>1
  <2> QED BY <1>8, <2>1, <2>2 DEF DeleteOld
<1>9. ASSUME UNCHANGED gate, NEW pc \in MakePc, MakeTo(pc),
             pc \notin Final \cup {"restore"},
             make.pc \in Judged \cup {"unlist", "build", "stream", "ensure"}
      PROVE  NewIn'
  BY <1>0, <1>1, <1>9
<1>10. CASE UnlistOld \/ StartCreate \/ JudgeStream \/ EnsureApplied \/ WaitForSupervisor
  <2>1. CASE UNCHANGED <<gate, make>>
    BY <1>0, <2>1
  <2> QED BY <1>2, <1>3, <1>9, <1>10, <2>1 DEF UnlistOld, StartCreate, JudgeStream, EnsureApplied,
      WaitForSupervisor, MakeAt, MakePc, outside
<1>11. ASSUME gate' = gate, gate.state # "none", make.pc \in Final \cup {"ready"},
              NEW pc \in Final \cup {"restore"}, MakeTo(pc)
       PROVE  NewIn'
  BY <1>0, <1>1, <1>11 DEF MakePc
<1>12. CASE AwaitReady \/ VerifyGpu \/ ForwardDashboard \/ RegisterNew
  BY <1>0, <1>2, <1>3, <1>11, <1>12 DEF AwaitReady, VerifyGpu, ForwardDashboard, RegisterNew,
     MakeAt, Answers, outside
<1>13. CASE RestoreFiles
  <2>1. CASE make' = [make EXCEPT !.pc = "done", !.told = TRUE]
    BY <1>0, <1>3, <2>1 DEF MakeType
  <2> QED BY <1>1, <1>3, <1>13, <2>1 DEF RestoreFiles, MakePc
<1>14. CASE MakeDies
  <2>1. CASE make' = [make EXCEPT !.pc = "exit"]
    BY <1>0, <1>3, <2>1 DEF MakeType
  <2> QED BY <1>14, <2>1 DEF MakeDies
<1>15. CASE UNCHANGED <<gate, make>>
  BY <1>0, <1>15
<1>16. CASE StreamNext \/ ChildPrints \/ ChildEnds \/ GpuContainerBreaks
  BY <1>15, <1>16 DEF StreamNext, PollReady, PollPatch, CloseChecks, CloseEnds, ChildPrints,
     ChildEnds, GpuContainerBreaks, outside
<1>17. CASE PatchNext
  <2>1. patch.at # "idle" => patch.by \in {"poll", "close", "main"} /\ make.pc \in {"stream", "ensure"}
    BY DEF MakeIInv, MakeTypeOK, PatchIn
  <2>2. patch.at # "idle" /\ PatchFails => UNCHANGED make \/ MakeExit(TRUE)
    BY <2>1 DEF PatchFails
  <2>3. /\ patch.at # "idle" /\ gate' = gate
        /\ UNCHANGED make \/ MakeExit(TRUE) \/ MakeTo("supervise")
    BY <1>17, <2>2 DEF PatchNext, InspectContainer, StopOld, RenameOld, RunClone, IdentifyClone,
       DropOld, AwaitSupervisor, outside
  <2> QED BY <1>2, <1>3, <1>9, <1>15, <2>1, <2>3 DEF MakePc
<1>18. CASE ChildCreates
  BY <1>18 DEF ChildCreates
<1>19. CASE GatewayReports \/ GatewayNotices
  <2>1. gate'.new = gate.new /\ gate'.state # "none" /\ gate.state # "none" /\ make' = make
    BY <1>0, <1>19 DEF GatewayReports, GatewayNotices, GateType
  <2> QED BY <1>0, <2>1
<1> QED
  BY <1>4, <1>5, <1>6, <1>7, <1>8, <1>10, <1>12, <1>13, <1>14, <1>16, <1>17, <1>18, <1>19
  DEF MakeNext, MakeSteps, OutsideNext

(* A stream that is settled has ended its command, and only such a stream  *)
(* is judged.                                                              *)
LEMMA EndedInStep ==
  ASSUME MakeIInv, MakeNext
  PROVE  EndedIn'
<1> USE DEF EndedIn, Judged, Final
<1>0. /\ make \in MakeType /\ patch \in PatchType /\ stream \in StreamType /\ EndedIn /\ PatchIn
  BY DEF MakeIInv, MakeTypeOK, MakeType, PatchType, StreamType
<1>1. ASSUME NEW pc \in MakePc, MakeTo(pc) PROVE make'.pc = pc
  BY <1>0, <1>1 DEF MakeTo, MakeType
<1>2. ASSUME NEW told \in BOOLEAN, MakeExit(told) PROVE make'.pc = "exit"
  BY <1>0, <1>2 DEF MakeExit, MakeType
<1>3. ASSUME stream' = stream, make'.pc \in Judged \cup {"ensure"} => stream.settled
      PROVE  EndedIn'
  BY <1>0, <1>3
<1>4. CASE stream' = stream /\ make'.pc \notin Judged \cup {"ensure"}
  BY <1>3, <1>4
<1>5. CASE MakeBegin
  BY <1>5 DEF MakeBegin, NoMake, NoStream
<1>6. CASE PruneStale
  <2>1. CASE MakeTo("decide")
    BY <1>1, <1>4, <1>6, <2>1 DEF MakePc, PruneStale, Calm
  <2>2. CASE make' = [make EXCEPT !.pc = "build", !.restore = listed /\ make.latest /\ backup]
    <3>1. make'.pc = "build"
      BY <1>0, <2>2 DEF MakeType
    <3> QED BY <1>4, <1>6, <3>1 DEF PruneStale, Calm
  <2> QED BY <1>6, <2>1, <2>2 DEF PruneStale
<1>7. CASE DecideReuse \/ ReuseSandbox \/ UnlistOld
  BY <1>1, <1>2, <1>4, <1>7 DEF DecideReuse, ReuseSandbox, UnlistOld, MakePc, Calm
<1>8. CASE BackupFirst
  <2>1. CASE make' = [make EXCEPT !.pc = "delete", !.restore = TRUE]
    <3>1. make'.pc = "delete"
      BY <1>0, <2>1 DEF MakeType
    <3> QED BY <1>4, <1>8, <3>1 DEF BackupFirst, Calm
  <2> QED BY <1>2, <1>4, <1>8, <2>1 DEF BackupFirst, Calm
<1>9. CASE DeleteOld
  <2>1. CASE make' = [make EXCEPT !.pc = "unlist", !.undeleted = TRUE]
    <3>1. make'.pc = "unlist"
      BY <1>0, <2>1 DEF MakeType
    <3> QED BY <1>4, <1>9, <3>1 DEF DeleteOld, Calm
  <2> QED BY <1>1, <1>4, <1>9, <2>1 DEF DeleteOld, MakePc, Calm
<1>10. CASE StartCreate
  <2>1. CASE MakeExit(TRUE) /\ stream' = stream
    BY <1>2, <1>4, <2>1
  <2>2. CASE MakeTo("stream") /\ stream' = [NoStream EXCEPT !.child = "running", !.seen = ~make.vm]
    <3>1. make'.pc = "stream" /\ stream'.settled = FALSE
      BY <1>1, <2>2 DEF NoStream, MakePc
    <3> QED BY <3>1
  <2> QED BY <1>10, <2>1, <2>2 DEF StartCreate
<1>11. CASE stream.settled /\ stream' = stream
  BY <1>3, <1>11
<1>12. CASE JudgeStream
  BY <1>11, <1>12 DEF JudgeStream, Calm
<1>13. CASE \/ EnsureApplied \/ WaitForSupervisor \/ AwaitReady \/ VerifyGpu \/ ForwardDashboard
            \/ RegisterNew
  BY <1>0, <1>11, <1>13 DEF EnsureApplied, WaitForSupervisor, AwaitReady, VerifyGpu,
     ForwardDashboard, RegisterNew, MakeAt, Calm
<1>14. CASE RestoreFiles
  <2>1. CASE make' = [make EXCEPT !.pc = "done", !.told = TRUE]
    <3>1. make'.pc = "done"
      BY <1>0, <2>1 DEF MakeType
    <3> QED BY <1>4, <1>14, <3>1 DEF RestoreFiles, Calm
  <2> QED BY <1>1, <1>4, <1>14, <2>1 DEF RestoreFiles, MakePc, Calm
<1>15. ASSUME NEW x \in {"killed", "ended", "failed"}, stream' = [stream EXCEPT !.child = x],
              make' = make \/ make'.pc = "exit"
       PROVE  EndedIn'
  <2>1. stream'.settled = stream.settled /\ stream'.child # "running"
    BY <1>0, <1>15 DEF StreamType
  <2> QED BY <1>0, <1>15, <2>1
<1>16. CASE MakeDies
  <2>1. make'.pc = "exit"
    <3>1. CASE make' = [make EXCEPT !.pc = "exit"]
      BY <1>0, <3>1 DEF MakeType
    <3> QED BY <1>16, <3>1 DEF MakeDies
  <2>2. stream' = [stream EXCEPT !.child = "killed"]
        \/ stream' = [stream EXCEPT !.child = stream.child]
    BY <1>16 DEF MakeDies
  <2>3. CASE stream' = [stream EXCEPT !.child = stream.child]
    BY <1>0, <1>4, <2>1, <2>3 DEF StreamType
  <2> QED BY <1>15, <2>1, <2>2, <2>3
<1>17. ASSUME NEW s \in StreamType, NEW status \in {0, 1}, stream' = Settle(s, status),
              s.child # "running"
       PROVE  EndedIn'
  <2>1. stream'.settled = TRUE /\ stream'.child # "running"
    BY <1>17 DEF Settle, StreamType
  <2> QED BY <2>1
<1>18. /\ [stream EXCEPT !.child = "killed"] \in StreamType
       /\ [stream EXCEPT !.child = "killed"].child # "running"
  BY <1>0 DEF StreamType
<1>19. CASE stream' = stream /\ make' = make
  BY <1>0, <1>19
<1>20. CASE StreamNext
  BY <1>0, <1>17, <1>18, <1>19, <1>20 DEF StreamNext, PollReady, PollPatch, CloseChecks, CloseEnds
<1>21. CASE PatchNext
  <2>1. patch.at # "idle" => /\ patch.by \in {"poll", "close", "main"}
                             /\ make.pc \in {"stream", "ensure"}
                             /\ patch.by = "close" => stream.child = "failed"
    BY <1>0 DEF PatchIn, PatchType
  <2>2. ASSUME patch.at # "idle", PatchFails PROVE EndedIn'
    BY <1>0, <1>2, <1>4, <1>17, <1>18, <2>1, <2>2 DEF PatchFails
  <2>3. CASE DropOld
    BY <1>0, <1>17, <1>19, <2>1, <2>3 DEF DropOld
  <2>4. CASE AwaitSupervisor
    <3>1. stream' = stream /\ (MakeTo("supervise") \/ MakeExit(TRUE))
      BY <2>4 DEF AwaitSupervisor
    <3>2. MakeTo("supervise") => stream.settled
      BY <1>0, <2>4 DEF AwaitSupervisor, PatchIn
    <3> QED BY <1>2, <1>4, <1>11, <3>1, <3>2
  <2> QED BY <1>19, <1>21, <2>2, <2>3, <2>4 DEF PatchNext, InspectContainer, StopOld, RenameOld,
      RunClone, IdentifyClone
<1>22. CASE ChildCreates \/ ChildPrints
  <2>1. /\ stream'.settled = stream.settled /\ stream'.child = stream.child /\ make' = make
    BY <1>0, <1>22 DEF ChildCreates, ChildPrints, StreamType
  <2> QED BY <1>0, <2>1
<1>23. CASE ChildEnds
  BY <1>15, <1>23 DEF ChildEnds
<1>24. CASE GatewayReports \/ GatewayNotices \/ GpuContainerBreaks
  BY <1>19, <1>24 DEF GatewayReports, GatewayNotices, GpuContainerBreaks, Calm
<1> QED
  BY <1>5, <1>6, <1>7, <1>8, <1>9, <1>10, <1>12, <1>13, <1>14, <1>16, <1>20, <1>21, <1>22, <1>23,
     <1>24 DEF MakeNext, MakeSteps, OutsideNext

(* A sandbox with a GPU is patched and reached before it is registered,    *)
(* and nothing breaks its container after.                                 *)
LEMMA PatchedInStep ==
  ASSUME MakeIInv, MakeNext
  PROVE  PatchedIn'
<1> USE DEF PatchedIn, Judged, Final
<1>0. make \in MakeType /\ patch \in PatchType /\ PatchedIn /\ PatchIn /\ EndedIn /\ NewIn
  BY DEF MakeIInv, MakeTypeOK, MakeType, PatchType
<1>1. ASSUME NEW pc \in MakePc, MakeTo(pc) PROVE make'.pc = pc /\ make'.gpu = make.gpu
  BY <1>0, <1>1 DEF MakeTo, MakeType
<1>2. ASSUME NEW told \in BOOLEAN, MakeExit(told) PROVE make'.pc = "exit"
  BY <1>0, <1>2 DEF MakeExit, MakeType
<1>3. CASE make'.pc \in {"restore", "done", "exit"}
  BY <1>3
<1>4. CASE /\ patch'.done = patch.done /\ patch'.wait = patch.wait
           /\ make.pc \notin Judged \cup {"restore", "done", "exit"}
           /\ make'.pc \notin Judged \cup {"restore", "done", "exit"}
  BY <1>0, <1>4
<1>5. CASE MakeBegin
  BY <1>5 DEF MakeBegin, NoMake, NoPatch
<1>6. CASE PruneStale
  <2>1. CASE MakeTo("decide")
    BY <1>1, <1>4, <1>6, <2>1 DEF MakePc, PruneStale, Calm, MakeAt
  <2>2. CASE make' = [make EXCEPT !.pc = "build", !.restore = listed /\ make.latest /\ backup]
    <3>1. make'.pc = "build"
      BY <1>0, <2>2 DEF MakeType
    <3> QED BY <1>4, <1>6, <3>1 DEF PruneStale, Calm, MakeAt
  <2> QED BY <1>6, <2>1, <2>2 DEF PruneStale
<1>7. CASE DecideReuse \/ ReuseSandbox \/ UnlistOld \/ StartCreate
  BY <1>1, <1>2, <1>3, <1>4, <1>7
  DEF DecideReuse, ReuseSandbox, UnlistOld, StartCreate, MakePc, Calm, MakeAt
<1>8. CASE BackupFirst
  <2>1. CASE make' = [make EXCEPT !.pc = "delete", !.restore = TRUE]
    <3>1. make'.pc = "delete"
      BY <1>0, <2>1 DEF MakeType
    <3> QED BY <1>4, <1>8, <3>1 DEF BackupFirst, Calm, MakeAt
  <2> QED BY <1>2, <1>3, <1>8, <2>1 DEF BackupFirst
<1>9. CASE DeleteOld
  <2>1. CASE make' = [make EXCEPT !.pc = "unlist", !.undeleted = TRUE]
    <3>1. make'.pc = "unlist"
      BY <1>0, <2>1 DEF MakeType
    <3> QED BY <1>4, <1>9, <3>1 DEF DeleteOld, Calm, MakeAt
  <2> QED BY <1>1, <1>4, <1>9, <2>1 DEF DeleteOld, MakePc, Calm, MakeAt
<1>10. CASE JudgeStream
  BY <1>1, <1>2, <1>3, <1>4, <1>10 DEF JudgeStream, MakePc, Calm, MakeAt
<1>11. ASSUME make'.gpu = make.gpu, patch' = patch, cont' = cont,
              \/ make'.pc = make.pc
              \/ make.pc = "ensure" /\ make'.pc = "supervise" /\ (make.gpu => patch.done)
              \/ /\ make.pc = "supervise" /\ make'.pc = "ready"
                 /\ patch.wait => Reachable
              \/ make.pc \in Final \cup {"ready"} /\ make'.pc \in Final
       PROVE  PatchedIn'
  <2>1. Reachable' = Reachable
    BY <1>11 DEF Reachable
  <2> QED BY <1>0, <1>11, <2>1
<1>12. CASE EnsureApplied
  <2>1. CASE MakeTo("supervise") /\ patch' = patch /\ (make.gpu => patch.done)
    BY <1>1, <1>11, <1>12, <2>1 DEF EnsureApplied, MakeAt, MakePc, outside
  <2>2. CASE StartPatch("main") /\ make' = make
    <3>1. patch'.done = patch.done /\ patch'.wait = patch.wait
      BY <1>0, <2>2 DEF StartPatch, PatchType
    <3> QED BY <1>4, <1>12, <2>2, <3>1 DEF EnsureApplied, MakeAt
  <2> QED BY <1>0, <1>12, <2>1, <2>2 DEF EnsureApplied
<1>13. CASE WaitForSupervisor
  BY <1>1, <1>2, <1>3, <1>11, <1>13 DEF WaitForSupervisor, MakeAt, MakePc, Calm, outside
<1>14. CASE AwaitReady \/ VerifyGpu \/ ForwardDashboard \/ RegisterNew
  BY <1>1, <1>2, <1>3, <1>11, <1>14 DEF AwaitReady, VerifyGpu, ForwardDashboard, RegisterNew,
     MakeAt, MakePc, Calm, outside
<1>15. CASE RestoreFiles
  <2>1. CASE make' = [make EXCEPT !.pc = "done", !.told = TRUE]
    BY <1>0, <1>3, <2>1 DEF MakeType
  <2> QED BY <1>1, <1>3, <1>15, <2>1 DEF RestoreFiles, MakePc
<1>16. CASE MakeDies
  <2>1. CASE make' = [make EXCEPT !.pc = "exit"]
    BY <1>0, <1>3, <2>1 DEF MakeType
  <2> QED BY <1>16, <2>1 DEF MakeDies
<1>17. ASSUME NEW by \in {"poll", "close"}, StartPatch(by), make' = make, make.pc = "stream"
       PROVE  PatchedIn'
  <2>1. patch'.done = patch.done /\ patch'.wait = patch.wait
    BY <1>0, <1>17 DEF StartPatch, PatchType
  <2> QED BY <1>4, <1>17, <2>1
<1>18. CASE StreamNext
  BY <1>11, <1>17, <1>18 DEF StreamNext, PollReady, PollPatch, CloseChecks, CloseEnds, Streaming,
     MakeAt, outside
<1>19. CASE PatchNext
  <2>1. /\ patch.at # "idle" => /\ patch.by \in {"poll", "close", "main"}
                                /\ make.pc \in {"stream", "ensure"} /\ make.gpu
        /\ patch.at = "wait" => patch.by = "main"
    BY <1>0 DEF PatchIn, PatchType
  <2>2. ASSUME patch.at # "idle", make' = make,
               \/ \E at \in PatchAt : PatchTo(at)
               \/ patch' = [patch EXCEPT !.at = "rename", !.deaf = TRUE]
               \/ patch' = [patch EXCEPT !.at = "idle", !.failed = TRUE]
        PROVE  PatchedIn'
    <3>1. patch'.done = patch.done /\ patch'.wait = patch.wait
      BY <1>0, <2>2 DEF PatchTo, PatchType
    <3> QED BY <1>4, <2>1, <2>2, <3>1
  <2>3. ASSUME patch.at # "idle", PatchFails PROVE PatchedIn'
    BY <1>2, <1>3, <2>1, <2>2, <2>3 DEF PatchFails
  <2>4. CASE InspectContainer \/ RenameOld \/ RunClone \/ IdentifyClone \/ StopOld
    BY <2>2, <2>3, <2>4 DEF InspectContainer, RenameOld, RunClone, IdentifyClone, StopOld, PatchAt
  <2>5. CASE DropOld
    <3>1. CASE patch' = [patch EXCEPT !.at = "idle", !.done = TRUE, !.wait = TRUE]
      <4>1. patch'.wait = TRUE
        BY <1>0, <3>1 DEF PatchType
      <4> QED BY <2>1, <2>5, <4>1 DEF DropOld
    <3> QED BY <2>2, <2>5, <3>1 DEF DropOld, PatchAt
  <2>6. CASE AwaitSupervisor
    <3>1. CASE /\ Reachable /\ MakeTo("supervise") /\ cont' = cont
               /\ patch' = [patch EXCEPT !.at = "idle", !.done = TRUE]
      <4>1. Reachable' /\ patch'.done = TRUE
        BY <1>0, <3>1 DEF Reachable, PatchType
      <4> QED BY <1>1, <3>1, <4>1 DEF MakePc
    <3> QED BY <1>2, <1>3, <2>6, <3>1 DEF AwaitSupervisor, outside
  <2> QED BY <1>19, <2>4, <2>5, <2>6 DEF PatchNext
<1>20. CASE UNCHANGED <<make, patch, cont>>
  BY <1>11, <1>20
<1>21. CASE UNCHANGED <<make, patch>> /\ make.pc \notin Judged
  BY <1>0, <1>21
<1>22. CASE ChildPrints \/ ChildEnds \/ GatewayReports \/ GatewayNotices
  BY <1>20, <1>22 DEF ChildPrints, ChildEnds, GatewayReports, GatewayNotices, Calm, outside
<1>23. CASE ChildCreates
  <2>1. make.pc \notin Judged
    BY <1>0, <1>23 DEF ChildCreates, EndedIn
  <2> QED BY <1>21, <1>23, <2>1 DEF ChildCreates
<1>24. CASE GpuContainerBreaks
  <2>1. make.pc \notin Judged
    BY <1>0, <1>24 DEF GpuContainerBreaks, PatchIn
  <2> QED BY <1>21, <1>24, <2>1 DEF GpuContainerBreaks, Calm
<1> QED
  BY <1>5, <1>6, <1>7, <1>8, <1>9, <1>10, <1>12, <1>13, <1>14, <1>15, <1>16, <1>18, <1>19, <1>22,
     <1>23, <1>24 DEF MakeNext, MakeSteps, OutsideNext

-----------------------------------------------------------------------------
LEMMA MakeInitial == MakeInit => MakeIInv
<1> SUFFICES ASSUME MakeInit PROVE MakeIInv
  OBVIOUS
<1> USE DEF MakeInit, NoMake, NoStream, NoPatch
<1> DEFINE Founded == /\ gate \in GateType /\ cont \in ContType /\ FilesIn
                    /\ {listed, backup, wanted} \subseteq BOOLEAN
<1>1. ASSUME gate = NoSandbox /\ cont = NoCont /\ backup \in BOOLEAN /\ wanted = backup
             /\ listed = backup
      PROVE  Founded
  <2>1. gate \in GateType /\ cont \in ContType /\ {listed, backup, wanted} \subseteq BOOLEAN
    BY <1>1 DEF GateType, ContType, NoSandbox, NoCont
  <2>2. FilesIn
    BY <1>1 DEF FilesIn, Recreating, NoSandbox
  <2> QED BY <2>1, <2>2
<1>2. ASSUME /\ gate = [state |-> "ready", files |-> TRUE, new |-> FALSE]
             /\ cont = [NoCont EXCEPT !.first = "running"]
             /\ backup = FALSE /\ wanted = TRUE /\ listed = TRUE
      PROVE  Founded
  <2>1. gate \in GateType /\ cont \in ContType /\ {listed, backup, wanted} \subseteq BOOLEAN
    BY <1>2 DEF GateType, ContType, NoCont
  <2>2. FilesIn
    BY <1>2 DEF FilesIn, Recreating
  <2> QED BY <2>1, <2>2
<1>3. Founded
  <2>1. NoSandbox.files = FALSE
    BY DEF NoSandbox
  <2>2. CASE gate = NoSandbox /\ cont = NoCont /\ backup \in BOOLEAN
    <3>1. wanted = backup /\ listed = backup
      BY <2>1, <2>2
    <3> QED BY <1>1, <2>2, <3>1
  <2>3. CASE /\ gate = [state |-> "ready", files |-> TRUE, new |-> FALSE]
             /\ cont = [NoCont EXCEPT !.first = "running"] /\ backup = FALSE
    <3>1. gate.files = TRUE
      BY <2>3
    <3>2. wanted = TRUE /\ listed = TRUE
      BY <2>3, <3>1
    <3> QED BY <1>2, <2>3, <3>2
  <2> QED BY <2>2, <2>3
<1>4. MakeTypeOK
  <2>1. make \in MakeType /\ stream \in StreamType /\ patch \in PatchType
    BY DEF MakeType, MakePc, StreamType, PatchType, PatchAt
  <2>2. gate \in GateType /\ cont \in ContType /\ {listed, backup, wanted} \subseteq BOOLEAN
    BY <1>3
  <2>3. makes \in 0 .. MaxMakes /\ makeFaults \in 0 .. MaxMakeFaults /\ patch.at = "idle"
    BY MakeBounds
  <2> QED BY <2>1, <2>2, <2>3
      DEF MakeTypeOK, MakeType, StreamType, PatchType, GateType, ContType
<1>5. PatchIn /\ NewIn /\ EndedIn /\ PatchedIn
  BY DEF PatchIn, NewIn, EndedIn, PatchedIn, Judged, Final
<1> QED BY <1>4, <1>5, <1>3 DEF MakeIInv

LEMMA MakeStays == MakeIInv /\ [MakeNext]_makeVars => MakeIInv'
<1>1. ASSUME MakeIInv, UNCHANGED makeVars PROVE MakeIInv'
  BY <1>1 DEF makeVars, MakeIInv, MakeTypeOK, PatchIn, FilesIn, NewIn, EndedIn, PatchedIn, Reachable
<1>2. ASSUME MakeIInv, MakeNext PROVE MakeIInv'
  <2>1. MakeTypeOK'
    <3>1. patch'.at # "idle" => make'.gpu
      BY <1>2, PatchInStep DEF PatchIn
    <3> QED BY <1>2, <3>1, MakeStep, StreamStep, PatchStep, PlaceStep, FlagsStep
        DEF MakeTypeOK, MakeType, StreamType, PatchType, GateType, ContType
  <2> QED BY <1>2, <2>1, PatchInStep, FilesInStep, NewInStep, EndedInStep, PatchedInStep
      DEF MakeIInv
<1> QED BY <1>1, <1>2

(* Whatever fails or dies while a sandbox is made or remade (onboard.ts,   *)
(* create-stream.ts, docker-gpu-patch.ts), each step of createSandbox      *)
(* finds the gateway, the container and the backup as it relies on.        *)
THEOREM MakeInvariant == MakeSpec => []MakeIInv
  BY MakeInitial, MakeStays, PTL DEF MakeSpec

(* The state of createSandbox, its stream and its patch has its type.      *)
THEOREM MakeTypeCorrect == MakeSpec => []MakeTypeOK
<1>1. MakeIInv => MakeTypeOK
  BY DEF MakeIInv
<1> QED BY <1>1, MakeInvariant, PTL

(* The user's files are in the sandbox or in a backup until the user gives *)
(* them up, at every point of a recreation (backupSandboxBeforeRecreate,   *)
(* onboard.ts).                                                            *)
THEOREM FilesCorrect == MakeSpec => []FilesAreKept
<1>1. MakeIInv => FilesAreKept
  BY DEF MakeIInv, FilesIn, FilesAreKept
<1> QED BY <1>1, MakeInvariant, PTL

(* What createSandbox registers is there, is new unless the old one could  *)
(* not be deleted, and with a GPU is patched and reachable.                *)
THEOREM RegisterCorrect == MakeSpec => RegisteredIsReal
<1>1. ASSUME MakeIInv, MakeNext, ~listed /\ listed'
      PROVE  /\ gate.state # "none" /\ (gate.new \/ make.undeleted)
             /\ make.gpu => patch.done /\ Reachable
  <2>1. RegisterNew
    BY <1>1 DEF MakeNext, MakeBegin, MakeSteps, PruneStale, DecideReuse, ReuseSandbox, BackupFirst,
       DeleteOld, UnlistOld, StartCreate, JudgeStream, EnsureApplied, WaitForSupervisor,
       AwaitReady, VerifyGpu, ForwardDashboard, RestoreFiles, StreamNext, PollReady, PollPatch,
       CloseChecks, CloseEnds, PatchNext, InspectContainer, StopOld, RenameOld, RunClone,
       IdentifyClone, DropOld, AwaitSupervisor, OutsideNext, ChildCreates, ChildPrints,
       ChildEnds, GatewayReports, GatewayNotices, GpuContainerBreaks, MakeDies
  <2> QED BY <1>1, <2>1 DEF RegisterNew, MakeAt, MakeIInv, NewIn, PatchedIn, Judged, Final
<1>2. MakeIInv /\ [MakeNext]_makeVars
        => [ ~listed /\ listed' => /\ gate.state # "none" /\ (gate.new \/ make.undeleted)
                                   /\ make.gpu => patch.done /\ Reachable ]_makeVars
  BY <1>1
<1> QED BY <1>2, MakeInvariant, PTL DEF MakeSpec, RegisteredIsReal

-----------------------------------------------------------------------------
(***************************************************************************)
(* What the end of a recreation owes, and the containers of the GPU patch. *)
(***************************************************************************)

(* A restore is owed only to a recreation, and nothing makes a new sandbox *)
(* behind its back.                                                        *)
Early == {"prune", "decide", "reuse", "backup"}
RestoreIn ==
  /\ make.pc \in Early => make.restore = FALSE
  /\ make.pc \in Early \cup {"delete", "unlist", "build", "restore", "done"}
       => stream.child # "running"
  /\ make.pc = "done" /\ make.restore = TRUE /\ make.told = FALSE /\ backup = TRUE
       => gate.files = TRUE

(* The containers, along the steps of the patch.                           *)
Unpatched == {"inspect", "stop", "rename", "clone"}
ContIn ==
  /\ gate.state = "none" => cont.first = "none" /\ cont.gpu = "none"
  /\ gate.new = TRUE => HasCont
  /\ make.pc \in Early \cup {"delete", "unlist", "build"}
       => patch.at = "idle" /\ patch.done = FALSE /\ patch.failed = FALSE
  /\ make.pc \in {"unlist", "build"} => cont.gpu = "none"
  /\ make.pc \in {"stream", "ensure"} /\ patch.done = FALSE /\ patch.failed = FALSE
       /\ patch.at \in Unpatched \cup {"idle"} => cont.gpu = "none"
  /\ patch.at \in Unpatched => patch.done = FALSE /\ patch.failed = FALSE
  /\ patch.at \in {"stop", "rename", "clone"} => cont.first # "none"
  /\ make.pc = "ensure" => patch.failed = FALSE /\ (patch.at # "idle" => patch.by = "main")
  /\ patch.at \in {"identify", "drop", "wait"} => cont.gpu # "none"
  /\ patch.at \in {"rename", "clone"} /\ patch.deaf = FALSE => cont.first # "running"
  /\ (patch.at \in {"identify", "drop", "wait"} \/ patch.done = TRUE \/ patch.failed = TRUE)
       /\ cont.gpu = "running" /\ patch.deaf = FALSE => cont.first # "running"

(* Where each step leads createSandbox.                                    *)
LEMMA MakeLeads ==
  ASSUME MakeIInv
  PROVE  /\ MakeBegin => make'.pc = "prune" /\ make'.restore = FALSE
         /\ PruneStale => \/ make'.pc = "decide" /\ make'.restore = make.restore
                          \/ make'.pc = "build"
         /\ DecideReuse => /\ make'.pc \in {"reuse", "delete", "backup", "exit"}
                           /\ make'.restore = make.restore
         /\ ReuseSandbox => make'.pc = "done" /\ make'.restore = make.restore
         /\ BackupFirst => make'.pc \in {"delete", "exit"}
         /\ DeleteOld => make'.pc = "unlist"
         /\ UnlistOld => make'.pc = "build"
         /\ StartCreate => make'.pc \in {"stream", "exit"}
         /\ JudgeStream => make'.pc \in {"ensure", "exit"}
         /\ EnsureApplied => make'.pc \in {"ensure", "supervise"}
         /\ WaitForSupervisor => make'.pc \in {"ready", "exit"}
         /\ AwaitReady => make'.pc \in {"verify", "exit"}
         /\ VerifyGpu => make'.pc \in {"forward", "exit"}
         /\ ForwardDashboard => make'.pc \in {"register", "exit"}
         /\ RegisterNew => make'.pc = "restore"
         /\ RestoreFiles => /\ make'.pc = "done" /\ make'.restore = make.restore
                            /\ make'.told = make.told \/ make'.told = TRUE
         /\ MakeDies => make'.pc = "exit"
         /\ PatchNext => make'.pc \in {make.pc, "supervise", "exit"} /\ make.pc \in {"stream", "ensure"}
<1>0. make \in MakeType
  BY DEF MakeIInv, MakeTypeOK, MakeType
<1>1. ASSUME NEW pc \in MakePc, MakeTo(pc)
      PROVE  make'.pc = pc /\ make'.restore = make.restore /\ make'.told = make.told
  BY <1>0, <1>1 DEF MakeTo, MakeType
<1>2. ASSUME NEW told \in BOOLEAN, MakeExit(told)
      PROVE  make'.pc = "exit" /\ make'.restore = make.restore
  BY <1>0, <1>2 DEF MakeExit, MakeType
<1>3. MakeBegin => make'.pc = "prune" /\ make'.restore = FALSE
  BY DEF MakeBegin, NoMake
<1>4. PruneStale => \/ make'.pc = "decide" /\ make'.restore = make.restore
                    \/ make'.pc = "build"
  <2>1. CASE make' = [make EXCEPT !.pc = "build", !.restore = listed /\ make.latest /\ backup]
    BY <1>0, <2>1 DEF MakeType
  <2> QED BY <1>1, <2>1 DEF PruneStale, MakePc
<1>5. DecideReuse => /\ make'.pc \in {"reuse", "delete", "backup", "exit"}
                     /\ make'.restore = make.restore
  BY <1>1, <1>2 DEF DecideReuse, MakePc
<1>6. ReuseSandbox => make'.pc = "done" /\ make'.restore = make.restore
  BY <1>1 DEF ReuseSandbox, MakePc
<1>7. BackupFirst => make'.pc \in {"delete", "exit"}
  <2>1. CASE make' = [make EXCEPT !.pc = "delete", !.restore = TRUE]
    BY <1>0, <2>1 DEF MakeType
  <2> QED BY <1>2, <2>1 DEF BackupFirst
<1>8. DeleteOld => make'.pc = "unlist"
  <2>1. CASE make' = [make EXCEPT !.pc = "unlist", !.undeleted = TRUE]
    BY <1>0, <2>1 DEF MakeType
  <2> QED BY <1>1, <2>1 DEF DeleteOld, MakePc
<1>9. /\ UnlistOld => make'.pc = "build"
      /\ StartCreate => make'.pc \in {"stream", "exit"}
      /\ JudgeStream => make'.pc \in {"ensure", "exit"}
      /\ WaitForSupervisor => make'.pc \in {"ready", "exit"}
      /\ AwaitReady => make'.pc \in {"verify", "exit"}
      /\ VerifyGpu => make'.pc \in {"forward", "exit"}
      /\ ForwardDashboard => make'.pc \in {"register", "exit"}
      /\ RegisterNew => make'.pc = "restore"
  BY <1>1, <1>2 DEF UnlistOld, StartCreate, JudgeStream, WaitForSupervisor, AwaitReady, VerifyGpu,
     ForwardDashboard, RegisterNew, MakePc
<1>10. EnsureApplied => make'.pc \in {"ensure", "supervise"}
  BY <1>1 DEF EnsureApplied, MakeAt, MakePc
<1>11. RestoreFiles => /\ make'.pc = "done" /\ make'.restore = make.restore
                       /\ make'.told = make.told \/ make'.told = TRUE
  <2>1. CASE make' = [make EXCEPT !.pc = "done", !.told = TRUE]
    BY <1>0, <2>1 DEF MakeType
  <2> QED BY <1>1, <2>1 DEF RestoreFiles, MakePc
<1>12. MakeDies => make'.pc = "exit"
  <2>1. CASE make' = [make EXCEPT !.pc = "exit"]
    BY <1>0, <2>1 DEF MakeType
  <2> QED BY <2>1 DEF MakeDies
<1>13. PatchNext => make'.pc \in {make.pc, "supervise", "exit"} /\ make.pc \in {"stream", "ensure"}
  <2>1. patch.at # "idle" => /\ patch.by \in {"poll", "close", "main"}
                             /\ make.pc \in {"stream", "ensure"}
    BY DEF PatchIn, PatchType, MakeIInv, MakeTypeOK
  <2>2. patch.at # "idle" /\ PatchFails => make'.pc \in {make.pc, "exit"}
    BY <1>2, <2>1 DEF PatchFails
  <2>3. AwaitSupervisor => make'.pc \in {"supervise", "exit"}
    BY <1>1, <1>2 DEF AwaitSupervisor, MakePc
  <2> QED BY <2>1, <2>2, <2>3 DEF PatchNext, InspectContainer, StopOld, RenameOld, RunClone,
      IdentifyClone, DropOld, AwaitSupervisor
<1> QED BY <1>3, <1>4, <1>5, <1>6, <1>7, <1>8, <1>9, <1>10, <1>11, <1>12, <1>13

LEMMA RestoreInStep ==
  ASSUME MakeIInv, RestoreIn, MakeNext
  PROVE  RestoreIn'
<1> USE DEF RestoreIn, Early
<1>0. /\ make \in MakeType /\ gate \in GateType /\ stream \in StreamType
      /\ {backup, listed} \subseteq BOOLEAN /\ RestoreIn
  BY DEF MakeIInv, MakeTypeOK, MakeType, GateType, StreamType
<1> DEFINE Idle == {"prune", "decide", "reuse", "backup", "delete", "unlist", "build", "restore", "done"}
<1>1. ASSUME make'.pc \notin Idle PROVE RestoreIn'
  BY <1>1
<1>2. ASSUME make' = make, gate'.files = gate.files, backup' = backup,
             stream' = stream \/ make.pc \in {"stream", "ensure"} \/ stream'.child = stream.child
      PROVE  RestoreIn'
  BY <1>0, <1>2
<1>3. CASE MakeBegin
  BY <1>3, MakeLeads DEF MakeBegin, NoStream
<1>4. CASE PruneStale \/ DecideReuse \/ ReuseSandbox \/ BackupFirst \/ DeleteOld \/ UnlistOld
  BY <1>0, <1>4, MakeLeads DEF PruneStale, DecideReuse, ReuseSandbox, BackupFirst, DeleteOld,
     UnlistOld, MakeAt, Calm
<1>5. CASE \/ StartCreate \/ JudgeStream \/ EnsureApplied \/ WaitForSupervisor \/ AwaitReady
           \/ VerifyGpu \/ ForwardDashboard \/ MakeDies
  BY <1>1, <1>5, MakeLeads
<1>6. CASE RegisterNew
  BY <1>6, MakeLeads DEF RegisterNew, MakeAt, Calm, MakeIInv, EndedIn, Judged, Final
<1>7. CASE RestoreFiles
  <2>1. make'.told = FALSE /\ make.restore = TRUE /\ backup = TRUE => gate'.files = TRUE
    <3>1. CASE gate' = [gate EXCEPT !.files = @ \/ (make.restore /\ backup)]
      BY <1>0, <3>1 DEF GateType
    <3>2. CASE make' = [make EXCEPT !.pc = "done", !.told = TRUE]
      BY <1>0, <3>2 DEF MakeType
    <3> QED BY <1>7, <3>1, <3>2 DEF RestoreFiles
  <2> QED BY <1>0, <1>7, <2>1, MakeLeads DEF RestoreFiles, MakeAt, Calm
<1>8. CASE PatchNext
  BY <1>1, <1>8, MakeLeads
<1>9. CASE StreamNext
  BY <1>2, <1>9 DEF StreamNext, PollReady, PollPatch, CloseChecks, CloseEnds, Streaming, MakeAt, outside
<1>10. CASE ChildCreates
  <2>1. make.pc \notin Idle
    BY <1>0, <1>10 DEF ChildCreates
  <2> QED BY <1>1, <1>10, <2>1 DEF ChildCreates
<1>11. CASE ChildPrints
  <2>1. stream'.child = stream.child
    BY <1>0, <1>11 DEF ChildPrints, StreamType
  <2> QED BY <1>2, <1>11, <2>1 DEF ChildPrints, outside
<1>12. CASE ChildEnds
  <2>1. make.pc \notin Idle
    BY <1>0, <1>12 DEF ChildEnds
  <2> QED BY <1>1, <1>12, <2>1 DEF ChildEnds
<1>13. CASE GatewayReports \/ GatewayNotices
  <2>1. gate'.files = gate.files
    BY <1>0, <1>13 DEF GatewayReports, GatewayNotices, GateType
  <2> QED BY <1>2, <1>13, <2>1 DEF GatewayReports, GatewayNotices, Calm
<1>14. CASE GpuContainerBreaks
  BY <1>2, <1>14 DEF GpuContainerBreaks, Calm
<1> QED
  BY <1>3, <1>4, <1>5, <1>6, <1>7, <1>8, <1>9, <1>10, <1>11, <1>12, <1>13, <1>14
  DEF MakeNext, MakeSteps, OutsideNext

LEMMA ContInStep ==
  ASSUME MakeIInv, ContIn, MakeNext
  PROVE  ContIn'
<1> USE DEF ContIn, Early, Unpatched, HasCont
<1>0. /\ make \in MakeType /\ gate \in GateType /\ cont \in ContType /\ patch \in PatchType
      /\ make' \in MakeType /\ gate' \in GateType /\ cont' \in ContType /\ patch' \in PatchType
      /\ ContIn /\ PatchIn
  BY MakeStep, PatchStep, PlaceStep DEF MakeIInv, MakeTypeOK, MakeType, GateType, ContType, PatchType
<1> DEFINE Before == Early \cup {"delete", "unlist", "build"}
           During == {"stream", "ensure"}
<1>1. ASSUME UNCHANGED <<gate, cont, patch>>,
             make'.pc \in Before \cup During => make.pc = make'.pc
      PROVE  ContIn'
  BY <1>0, <1>1
<1>2. CASE MakeBegin
  <2>1. gate'.new = FALSE /\ gate'.state = gate.state
    BY <1>0, <1>2 DEF MakeBegin, GateType
  <2> QED BY <1>0, <1>2, <2>1, MakeLeads DEF MakeBegin, NoPatch
<1>2a. MakeExit(TRUE) => make'.pc = "exit"
  BY <1>0 DEF MakeExit, MakeType
<1>3. CASE PruneStale \/ DecideReuse \/ BackupFirst
  <2>1. /\ UNCHANGED <<gate, cont, patch>> /\ make.pc \in Early
        /\ make'.pc \in Early \cup {"delete", "build", "exit"}
    BY <1>3, MakeLeads DEF PruneStale, DecideReuse, BackupFirst, MakeAt, Calm, outside
  <2>2. make'.pc = "build" => gate.state = "none"
    BY <1>0, <1>3, MakeLeads DEF PruneStale, MakeTo, MakeType
  <2> QED BY <1>0, <2>1, <2>2
<1>4. CASE DeleteOld
  <2>1. (gate' = NoSandbox /\ cont' = NoCont) \/ (gate' = gate /\ cont' = Aged)
    BY <1>4 DEF DeleteOld
  <2>2. CASE gate' = NoSandbox /\ cont' = NoCont
    BY <1>0, <1>4, <2>2, MakeLeads DEF DeleteOld, NoSandbox, NoCont, Calm, MakeAt
  <2>3. CASE gate' = gate /\ cont' = Aged
    <3>1. /\ cont'.gpu = "none"
          /\ cont.first = "none" /\ cont.gpu = "none" => cont'.first = "none"
          /\ HasCont => HasCont'
      BY <1>0, <2>3 DEF Aged, NoCont, ContType
    <3> QED BY <1>0, <1>4, <2>3, <3>1, MakeLeads DEF DeleteOld, Calm, MakeAt
  <2> QED BY <2>1, <2>2, <2>3
<1>5. CASE UnlistOld \/ StartCreate
  <2>1. /\ UNCHANGED <<gate, cont, patch>> /\ make.pc \in {"unlist", "build"}
        /\ make'.pc \in {"build", "stream", "exit"}
    BY <1>5, MakeLeads DEF UnlistOld, StartCreate, MakeAt, Calm, outside
  <2> QED BY <1>0, <2>1
<1>6. CASE ReuseSandbox \/ WaitForSupervisor \/ VerifyGpu \/ RegisterNew
  BY <1>1, <1>6, MakeLeads DEF ReuseSandbox, WaitForSupervisor, VerifyGpu, RegisterNew, Calm, outside
<1>7. CASE JudgeStream
  <2>1. /\ UNCHANGED <<gate, cont, patch>> /\ make.pc = "stream" /\ patch.at = "idle"
        /\ make'.pc \in {"ensure", "exit"}
    BY <1>7, MakeLeads DEF JudgeStream, MakeAt, Calm, outside
  <2>2. make'.pc = "ensure" => patch.failed = FALSE
    BY <1>0, <1>2a, <1>7 DEF JudgeStream, PatchType
  <2> QED BY <1>0, <2>1, <2>2
<1>8. CASE EnsureApplied
  <2>1. CASE make' = make /\ StartPatch("main") /\ ~patch.done /\ patch.at = "idle" /\ make.pc = "ensure"
    <3>1. /\ patch'.at = "inspect" /\ patch'.done = FALSE /\ patch'.failed = patch.failed
          /\ patch'.deaf = patch.deaf /\ patch'.by = "main" /\ patch.done = FALSE
          /\ UNCHANGED <<gate, cont>>
      BY <1>0, <1>8, <2>1 DEF StartPatch, PatchType, EnsureApplied, outside
    <3> QED BY <1>0, <2>1, <3>1
  <2>2. CASE MakeTo("supervise") /\ UNCHANGED patch
    <3>1. make'.pc = "supervise"
      BY <1>0, <2>2 DEF MakeTo, MakeType
    <3> QED BY <1>1, <1>8, <2>2, <3>1 DEF EnsureApplied, outside
  <2> QED BY <1>8, <2>1, <2>2 DEF EnsureApplied, MakeAt
<1>9. CASE AwaitReady \/ ForwardDashboard
  <2>1. /\ (gate' = NoSandbox /\ cont' = NoCont) \/ UNCHANGED <<gate, cont>>
        /\ patch' = patch /\ patch.at = "idle" /\ make'.pc \in {"verify", "register", "exit"}
    BY <1>9, MakeLeads DEF AwaitReady, ForwardDashboard, Calm, outside, MakeAt
  <2>2. CASE gate' = NoSandbox /\ cont' = NoCont
    BY <1>0, <2>1, <2>2 DEF NoSandbox, NoCont
  <2> QED BY <1>1, <2>1, <2>2
<1>10. CASE RestoreFiles
  <2>1. gate'.new = gate.new /\ gate'.state = gate.state /\ make'.pc = "done" /\ UNCHANGED <<cont, patch>>
    BY <1>0, <1>10, MakeLeads DEF RestoreFiles, GateType, Calm
  <2> QED BY <1>0, <2>1
<1>11. CASE MakeDies
  <2>1. /\ patch'.at = "idle" /\ patch'.done = patch.done /\ patch'.failed = patch.failed
        /\ patch'.deaf = patch.deaf /\ UNCHANGED <<gate, cont>> /\ make'.pc = "exit"
    BY <1>0, <1>11, MakeLeads DEF MakeDies, PatchType, outside
  <2> QED BY <1>0, <2>1
<1>12. CASE StreamNext
  <2>1. /\ UNCHANGED <<gate, cont, make>> /\ make.pc = "stream" /\ patch.at = "idle"
        /\ patch' = patch \/ (PatchDue /\ (StartPatch("poll") \/ StartPatch("close")))
    BY <1>12 DEF StreamNext, PollReady, PollPatch, CloseChecks, CloseEnds, Streaming, MakeAt, outside
  <2>2. ASSUME NEW by \in {"poll", "close"}, StartPatch(by), PatchDue PROVE ContIn'
    <3>1. /\ patch'.at = "inspect" /\ patch.done = FALSE /\ patch.failed = FALSE
          /\ patch'.done = FALSE /\ patch'.failed = FALSE
          /\ patch'.deaf = patch.deaf
      BY <1>0, <2>2 DEF StartPatch, PatchType, PatchDue
    <3> QED BY <1>0, <2>1, <3>1
  <2> QED BY <1>1, <2>1, <2>2
<1>13. CASE ChildCreates
  <2>1. /\ gate.state = "none" /\ gate'.state = "starting" /\ cont'.first = "running"
        /\ cont'.gpu = "none" /\ make' = make /\ patch' = patch
        /\ cont.first = "none" /\ cont.gpu = "none"
    BY <1>0, <1>13 DEF ChildCreates, NoCont
  <2> QED BY <1>0, <2>1
<1>14. CASE ChildPrints \/ ChildEnds
  BY <1>1, <1>14 DEF ChildPrints, ChildEnds, outside
<1>15. CASE GatewayReports \/ GatewayNotices
  <2>1. gate'.new = gate.new /\ gate'.state # "none" /\ gate.state # "none" /\ UNCHANGED <<cont, patch, make>>
    BY <1>0, <1>15 DEF GatewayReports, GatewayNotices, GateType, Calm
  <2> QED BY <1>0, <2>1
<1>16. CASE GpuContainerBreaks
  <2>1. /\ cont.gpu = "running" /\ cont'.gpu = "broken" /\ cont'.first = cont.first
        /\ UNCHANGED <<gate, patch, make>>
    BY <1>0, <1>16 DEF GpuContainerBreaks, ContType, Calm
  <2> QED BY <1>0, <2>1
<1>17. CASE PatchNext
  <2>1. /\ patch.at # "idle" /\ make.pc \in During /\ gate' = gate
        /\ make'.pc \in {make.pc, "supervise", "exit"} /\ patch.by \in {"poll", "close", "main"}
        /\ make.pc = "ensure" => patch.by = "main"
    BY <1>0, <1>17, MakeLeads DEF PatchNext, InspectContainer, StopOld, RenameOld, RunClone,
       IdentifyClone, DropOld, AwaitSupervisor, outside, PatchIn, PatchType
  <2>2. ASSUME NEW at \in PatchAt, PatchTo(at)
        PROVE  /\ patch'.at = at /\ patch'.done = patch.done /\ patch'.failed = patch.failed
               /\ patch'.deaf = patch.deaf /\ patch'.by = patch.by
    BY <1>0, <2>2 DEF PatchTo, PatchType
  <2>3. PatchFails => /\ patch'.at = "idle" /\ patch'.done = patch.done /\ patch'.failed = TRUE
                      /\ patch'.deaf = patch.deaf /\ make'.pc # "ensure"
    BY <1>0, <1>2a, <2>1 DEF PatchFails, PatchType
  <2>4. CASE InspectContainer
    BY <1>0, <2>1, <2>2, <2>3, <2>4 DEF InspectContainer, PatchAt, outside
  <2>5. CASE StopOld
    <3>1. CASE cont' = [cont EXCEPT !.first = "stopped"] /\ PatchTo("rename")
      <4>1. cont'.first = "stopped" /\ cont'.gpu = cont.gpu
        BY <1>0, <3>1 DEF ContType
      <4> QED BY <1>0, <2>1, <2>2, <2>5, <3>1, <4>1 DEF StopOld, PatchAt
    <3>2. CASE patch' = [patch EXCEPT !.at = "rename", !.deaf = TRUE] /\ UNCHANGED cont
      <4>1. /\ patch'.at = "rename" /\ patch'.deaf = TRUE /\ patch'.done = patch.done
            /\ patch'.failed = patch.failed /\ patch'.by = patch.by
        BY <1>0, <3>2 DEF PatchType
      <4> QED BY <1>0, <2>1, <2>5, <3>2, <4>1 DEF StopOld
    <3> QED BY <2>5, <3>1, <3>2 DEF StopOld
  <2>6. CASE RenameOld
    <3>1. cont'.first = cont.first /\ cont'.gpu = cont.gpu
      BY <1>0, <2>6 DEF RenameOld, ContType
    <3> QED BY <1>0, <2>1, <2>2, <2>3, <2>6, <3>1 DEF RenameOld, PatchAt
  <2>7. CASE RunClone
    <3>1. CASE cont' = [cont EXCEPT !.gpu = "running"] /\ PatchTo("identify")
      <4>1. cont'.first = cont.first /\ cont'.gpu = "running"
        BY <1>0, <3>1 DEF ContType
      <4> QED BY <1>0, <2>1, <2>2, <2>7, <3>1, <4>1 DEF RunClone, PatchAt
    <3> QED BY <1>0, <2>1, <2>3, <2>7, <3>1 DEF RunClone
  <2>8. CASE IdentifyClone
    BY <1>0, <2>1, <2>2, <2>3, <2>8 DEF IdentifyClone, PatchAt, outside
  <2>9. CASE DropOld
    <3>1. cont'.gpu = cont.gpu /\ cont'.first \in {cont.first, "none"}
      BY <1>0, <2>9 DEF DropOld, ContType
    <3>2. /\ patch'.at \in {"wait", "idle"} /\ patch'.failed = patch.failed
          /\ patch'.deaf = patch.deaf /\ patch'.by = patch.by
          /\ patch'.at = "wait" => patch'.done = patch.done
          /\ patch'.at = "idle" => patch'.done = TRUE
      <4>1. CASE PatchTo("wait")
        BY <2>2, <4>1 DEF PatchAt
      <4>2. CASE patch' = [patch EXCEPT !.at = "idle", !.done = TRUE, !.wait = TRUE]
        BY <1>0, <4>2 DEF PatchType
      <4> QED BY <2>9, <4>1, <4>2 DEF DropOld
    <3> QED BY <1>0, <2>1, <2>9, <3>1, <3>2 DEF DropOld
  <2>10. CASE AwaitSupervisor
    <3>1. /\ patch'.at = "idle" /\ patch'.deaf = patch.deaf
          /\ patch'.done = TRUE \/ patch'.failed = TRUE
          /\ make'.pc # "ensure"
      <4>1. make'.pc # "ensure"
        BY <1>0, <1>2a, <2>10 DEF AwaitSupervisor, MakeTo, MakeType
      <4>2. CASE patch' = [patch EXCEPT !.at = "idle", !.done = TRUE]
        BY <1>0, <4>1, <4>2 DEF PatchType
      <4>3. CASE patch' = [patch EXCEPT !.at = "idle", !.failed = TRUE]
        BY <1>0, <4>1, <4>3 DEF PatchType
      <4> QED BY <2>10, <4>2, <4>3 DEF AwaitSupervisor
    <3> QED BY <1>0, <2>1, <2>10, <3>1 DEF AwaitSupervisor, outside
  <2> QED BY <1>17, <2>4, <2>5, <2>6, <2>7, <2>8, <2>9, <2>10 DEF PatchNext
<1> QED
  BY <1>2, <1>3, <1>4, <1>5, <1>6, <1>7, <1>8, <1>9, <1>10, <1>11, <1>12, <1>13, <1>14, <1>15,
     <1>16, <1>17 DEF MakeNext, MakeSteps, OutsideNext

LEMMA TailInvariant == MakeSpec => [](RestoreIn /\ ContIn)
<1>1. MakeInit => RestoreIn /\ ContIn
  <2> SUFFICES ASSUME MakeInit PROVE RestoreIn /\ ContIn
    OBVIOUS
  <2>1. gate.new = FALSE /\ (gate.state = "none" => cont = NoCont) /\ cont.gpu = "none"
    BY DEF MakeInit, NoSandbox, NoCont
  <2> QED BY <2>1 DEF MakeInit, NoMake, NoStream, NoPatch, NoCont, RestoreIn, ContIn, Early, Unpatched
<1>2. ASSUME MakeIInv, RestoreIn /\ ContIn, [MakeNext]_makeVars
      PROVE  (RestoreIn /\ ContIn)'
  <2>1. CASE UNCHANGED makeVars
    BY <1>2, <2>1 DEF makeVars, RestoreIn, ContIn, HasCont
  <2> QED BY <1>2, <2>1, RestoreInStep, ContInStep
<1> QED BY <1>1, <1>2, MakeInvariant, PTL DEF MakeSpec

(* An onboarding that backed up the user's files ends with them in the     *)
(* sandbox, or has said that they are not (the restore at the end of       *)
(* createSandbox, onboard.ts).                                             *)
THEOREM BackupComesBack == MakeSpec => []BackedUpIsRestored
<1>1. MakeIInv /\ RestoreIn => BackedUpIsRestored
  <2> SUFFICES ASSUME MakeIInv, RestoreIn, make.pc = "done", make.restore, ~make.told, backup
               PROVE  gate.files
    BY DEF BackedUpIsRestored
  <2>1. make \in MakeType /\ gate \in GateType /\ backup \in BOOLEAN
    BY DEF MakeIInv, MakeTypeOK, MakeType, GateType
  <2> QED BY <2>1 DEF RestoreIn, MakeType, GateType
<1> QED BY <1>1, MakeInvariant, TailInvariant, PTL

(* Whatever becomes of the GPU patch there is a container to look at, and  *)
(* never two that run, unless docker would not stop the first              *)
(* (recreateOpenShellDockerSandboxWithGpu, docker-gpu-patch.ts).           *)
THEOREM PatchKeepsOne == MakeSpec => []PatchLeavesOne
<1>1. MakeIInv /\ ContIn => PatchLeavesOne
  <2> SUFFICES ASSUME MakeIInv, ContIn, patch.at # "idle" \/ patch.failed \/ patch.done
               PROVE  /\ gate.new /\ make.pc # "exit" => HasCont
                      /\ cont.gpu = "running" /\ ~patch.deaf => cont.first # "running"
    BY DEF PatchLeavesOne
  <2>1. /\ make \in MakeType /\ gate \in GateType /\ patch \in PatchType /\ PatchIn
        /\ patch.at # "idle" => patch.at \in Unpatched \cup {"identify", "drop", "wait"}
        /\ patch.at # "idle" => make.pc \in {"stream", "ensure"}
    BY DEF MakeIInv, MakeTypeOK, MakeType, GateType, PatchType, PatchAt, PatchIn, Unpatched
  <2>2. gate.new => HasCont
    BY <2>1 DEF ContIn, GateType
  <2>3. cont.gpu = "running" /\ ~patch.deaf => cont.first # "running"
    BY <2>1 DEF ContIn, PatchType, Unpatched
  <2> QED BY <2>2, <2>3
<1> QED BY <1>1, MakeInvariant, TailInvariant, PTL

-----------------------------------------------------------------------------
(***************************************************************************)
(* Snapshots: the inductive invariant.                                     *)
(***************************************************************************)
SnapRec == [of : Boxes, tag : Tags \union {NoTag}, dir : SUBSET Files, kept : BOOLEAN,
            db : Data \union {Empty}, file : BOOLEAN, presets : SUBSET Offered, listed : BOOLEAN,
            whole : BOOLEAN, dirThen : SUBSET Files]
DiskRec == [live : BOOLEAN, dir : SUBSET Files, db : Data \union {Empty}]
RowRec  == [listed : BOOLEAN, presets : SUBSET Offered]

(* A command that ended, a creation and a restore, among n snapshots.      *)
EndedJob == [at : {"idle", "done", "failed", "refused"}]
CreateAt == {"dirs", "file", "manifest"}
CreateJob(n) == [at : CreateAt, snap : 1 .. n, ok : BOOLEAN]
RestoreAt == {"delete", "clone", "clean", "extract", "refile", "presets", "done"}
RestoreJob(n) ==
  [at : RestoreAt, box : Boxes, to : Boxes, snap : 1 .. n, ok : BOOLEAN, alone : BOOLEAN,
   del : SUBSET Offered, add : SUBSET Offered, warned : BOOLEAN]
JobRec(n) == EndedJob \union CreateJob(n) \union RestoreJob(n)

WorldIn ==
  /\ disk \in [Boxes -> DiskRec] /\ row \in [Boxes -> RowRec] /\ rules \in [Boxes -> SUBSET Offered]
  /\ restored \in [Boxes -> 0 .. Len(snaps)] /\ overlap \in BOOLEAN /\ apart \subseteq Boxes
  /\ cut \subseteq Boxes
CountIn ==
  /\ snapCmds \in 0 .. MaxSnapCmds /\ edits \in 0 .. MaxEdits /\ snapFaults \in 0 .. MaxSnapFaults
(* A directory that was backed up is that of the sandbox, but for the      *)
(* credentials that were taken out of it.                                  *)
Same(s) == s.kept = TRUE => s.dir \ Credentials = s.dirThen \ Credentials
SnapIn ==
  /\ snaps \in Seq(SnapRec)
  /\ \A s \in 1 .. Len(snaps) :
       /\ Same(snaps[s])
       /\ snaps[s].whole = TRUE => snaps[s].listed = TRUE /\ snaps[s].kept = TRUE
JobIn == job \in [SnapJobs -> JobRec(Len(snaps))]

(* A snapshot is filled by one creation, and not listed before it is done. *)
FillIn ==
  /\ \A j \in SnapJobs : job[j].at \in CreateAt =>
       /\ SnapOf(j).listed = FALSE
       /\ job[j].at = "dirs" => SnapOf(j).kept = FALSE
       /\ job[j].at # "dirs" /\ job[j].ok = TRUE => SnapOf(j).kept = TRUE
  /\ \A i, j \in SnapJobs : job[i].at \in CreateAt /\ job[j].at \in CreateAt
       /\ job[i].snap = job[j].snap => i = j

(* Creations one after another: each is the last, with a name of its own.  *)
TurnIn ==
  overlap = FALSE =>
    /\ \A i, j \in SnapJobs : job[i].at \in CreateAt /\ job[j].at \in CreateAt => i = j
    /\ \A j \in SnapJobs : job[j].at \in CreateAt =>
         /\ job[j].snap = Len(snaps)
         /\ SnapOf(j).tag # NoTag =>
              \A s \in 1 .. Len(snaps) : snaps[s].of = SnapOf(j).of /\ snaps[s].listed = TRUE
                => snaps[s].tag # SnapOf(j).tag

NamesIn ==
  overlap = FALSE => \A s, t \in 1 .. Len(snaps) :
    snaps[s].listed = TRUE /\ snaps[t].listed = TRUE /\ snaps[s].of = snaps[t].of
      /\ snaps[s].tag = snaps[t].tag => s = t \/ snaps[s].tag = NoTag

(* Entry, policy and sandbox; what a restore knows that nobody disturbed.  *)
Synced(b) ==
  /\ disk[b].live = row[b].listed
  /\ disk[b].live = FALSE => row[b].presets = {} /\ rules[b] = {}
  /\ b \notin apart => rules[b] = row[b].presets
PutBack(j) ==
  LET c == job[j] IN
  /\ SnapOf(j).listed = TRUE
  /\ c.at = "extract" => SnapOf(j).kept = TRUE
  /\ c.at = "extract" /\ c.alone = TRUE => disk[c.to].dir = {}
  /\ c.at = "refile" /\ c.alone = TRUE /\ c.ok = TRUE /\ SnapOf(j).kept = TRUE
       => disk[c.to].dir = SnapOf(j).dir
  /\ c.at \in {"presets", "done"} /\ c.alone = TRUE /\ c.warned = FALSE /\ c.to \notin apart
       => (rules[c.to] \ c.del) \union c.add = SnapOf(j).presets
  /\ c.at = "done" => c.del = {} /\ c.add = {}
Held(b) ==
  restored[b] # 0 =>
    /\ snaps[restored[b]].listed = TRUE
    /\ snaps[restored[b]].kept = TRUE => disk[b].dir = snaps[restored[b]].dir
    /\ snaps[restored[b]].file = TRUE => disk[b].db = IF b \in cut THEN Empty ELSE snaps[restored[b]].db

SyncIn    == \A b \in Boxes : Synced(b)
PutBackIn == \A j \in SnapJobs : "to" \in DOMAIN job[j] => PutBack(j)
HeldIn    == \A b \in Boxes : Held(b)

SnapIInv == /\ WorldIn /\ CountIn /\ SnapIn /\ JobIn /\ FillIn /\ TurnIn
            /\ NamesIn /\ SyncIn /\ PutBackIn /\ HeldIn

-----------------------------------------------------------------------------
LEMMA SnapTypes ==
  ASSUME SnapIInv
  PROVE  /\ snaps \in Seq(SnapRec) /\ Len(snaps) \in Nat /\ DOMAIN snaps = 1 .. Len(snaps)
         /\ \A s \in 1 .. Len(snaps) : snaps[s] \in SnapRec
         /\ disk \in [Boxes -> DiskRec] /\ row \in [Boxes -> RowRec]
         /\ rules \in [Boxes -> SUBSET Offered] /\ apart \subseteq Boxes /\ cut \subseteq Boxes
         /\ restored \in [Boxes -> 0 .. Len(snaps)] /\ overlap \in BOOLEAN
         /\ job \in [SnapJobs -> JobRec(Len(snaps))]
<1>1. snaps \in Seq(SnapRec)
  BY DEF SnapIInv, SnapIn
<1>2. Len(snaps) \in Nat /\ DOMAIN snaps = 1 .. Len(snaps) /\ \A s \in 1 .. Len(snaps) : snaps[s] \in SnapRec
  BY <1>1
<1> QED BY <1>1, <1>2 DEF SnapIInv, WorldIn, JobIn

LEMMA SnapKept ==
  ASSUME SnapIInv, NEW s \in 1 .. Len(snaps)
  PROVE  /\ snaps[s] \in SnapRec
         /\ Same(snaps[s])
         /\ snaps[s].whole = TRUE => snaps[s].listed = TRUE
         /\ snaps[s].whole = TRUE => snaps[s].kept = TRUE
<1>1. snaps[s] \in SnapRec
  BY SnapTypes
<1>2. /\ Same(snaps[s])
      /\ snaps[s].whole = TRUE => snaps[s].listed = TRUE /\ snaps[s].kept = TRUE
  BY DEF SnapIInv, SnapIn
<1> QED BY <1>1, <1>2

(* What kind of command a program counter belongs to.                      *)
LEMMA JobKinds ==
  ASSUME SnapIInv, NEW j \in SnapJobs
  PROVE  /\ job[j].at \in CreateAt => job[j] \in CreateJob(Len(snaps)) /\ "to" \notin DOMAIN job[j]
         /\ job[j].at \in RestoreAt \ {"done"} => job[j] \in RestoreJob(Len(snaps))
         /\ "to" \in DOMAIN job[j] => job[j] \in RestoreJob(Len(snaps))
         /\ job[j] \in RestoreJob(Len(snaps)) => "to" \in DOMAIN job[j]
<1>1. job[j] \in EndedJob \/ job[j] \in CreateJob(Len(snaps)) \/ job[j] \in RestoreJob(Len(snaps))
  BY SnapTypes DEF JobRec
<1> QED BY <1>1 DEF EndedJob, CreateJob, RestoreJob, CreateAt, RestoreAt

(* A step of a creation: it fills its own snapshot and touches no other.   *)
Fills(j) ==
  LET n == job[j].snap IN
  /\ job[j].at \in CreateAt /\ UNCHANGED <<disk, row, rules, restored, overlap, apart, cut>>
  /\ snaps' \in Seq(SnapRec) /\ Len(snaps') = Len(snaps)
  /\ \A s \in 1 .. Len(snaps) : s # n => snaps'[s] = snaps[s]
  /\ snaps'[n].of = snaps[n].of /\ snaps'[n].tag = snaps[n].tag
  /\ Same(snaps'[n])
  /\ snaps'[n].whole = TRUE => snaps'[n].listed = TRUE /\ snaps'[n].kept = TRUE
  /\ job' \in [SnapJobs -> JobRec(Len(snaps))]
  /\ \A i \in SnapJobs : i # j => job'[i] = job[i]
  /\ \/ job'[j] \in EndedJob
     \/ /\ job'[j] \in CreateJob(Len(snaps)) /\ job'[j].snap = n /\ job'[j].at # "dirs"
        /\ snaps'[n].listed = FALSE /\ (job'[j].ok = TRUE => snaps'[n].kept = TRUE)

(* The snapshot of a creation can be replaced.                             *)
LEMMA RecordFills ==
  ASSUME SnapIInv, NEW j \in SnapJobs, job[j].at \in CreateAt, NEW s \in SnapRec, Record(j, s)
  PROVE  /\ snaps' \in Seq(SnapRec) /\ Len(snaps') = Len(snaps)
         /\ \A t \in 1 .. Len(snaps) : t # job[j].snap => snaps'[t] = snaps[t]
         /\ snaps'[job[j].snap] = s
<1>1. job[j].snap \in 1 .. Len(snaps)
  BY JobKinds DEF CreateJob
<1> QED BY <1>1, SnapTypes DEF Record

LEMMA DirsFills ==
  ASSUME SnapIInv, NEW j \in SnapJobs, BackupDirs(j)
  PROVE  Fills(j)
<1>0. /\ job[j] \in CreateJob(Len(snaps)) /\ job[j].at = "dirs" /\ job[j].snap \in 1 .. Len(snaps)
      /\ SnapOf(j) \in SnapRec /\ SnapOf(j).listed = FALSE /\ SnapOf(j).kept = FALSE
      /\ SnapOf(j).whole = FALSE
  <2>1. job[j].at = "dirs" /\ job[j].at \in CreateAt
    BY DEF BackupDirs, JobAt, CreateAt
  <2>2. job[j] \in CreateJob(Len(snaps)) /\ job[j].snap \in 1 .. Len(snaps)
    BY <2>1, JobKinds DEF CreateJob
  <2>3. SnapOf(j) \in SnapRec /\ SnapOf(j).listed = FALSE /\ SnapOf(j).kept = FALSE
    BY <2>1, <2>2, SnapTypes DEF SnapOf, SnapIInv, FillIn
  <2> QED BY <2>1, <2>2, <2>3, SnapKept DEF SnapOf, SnapRec
<1>1. UNCHANGED <<disk, row, rules, restored, overlap, apart, cut>>
  BY DEF BackupDirs, Reads, outsideSnap, KeepHistory
<1>2. SnapOf(j).of \in Boxes /\ disk[SnapOf(j).of].dir \in SUBSET Files
  BY <1>0, SnapTypes DEF SnapRec, DiskRec
<1>3. ASSUME NEW x \in BOOLEAN, NEW got \in SUBSET Files, NEW then \in SUBSET Files,
             NEW s, s = [SnapOf(j) EXCEPT !.dir = got, !.kept = x, !.dirThen = then],
             Record(j, s), x = TRUE => got = then,
             NEW ok \in BOOLEAN, job' = [job EXCEPT ![j].at = "file", ![j].ok = ok],
             ok = TRUE => x = TRUE
      PROVE  Fills(j)
  <2>1. /\ s \in SnapRec /\ s.of = SnapOf(j).of /\ s.tag = SnapOf(j).tag /\ s.listed = FALSE
        /\ s.whole = FALSE /\ s.kept = x /\ s.dir = got /\ s.dirThen = then
    BY <1>0, <1>3 DEF SnapRec
  <2>2. job' \in [SnapJobs -> JobRec(Len(snaps))] /\ job'[j] \in CreateJob(Len(snaps))
        /\ job'[j].snap = job[j].snap /\ job'[j].at = "file" /\ job'[j].ok = ok
        /\ \A i \in SnapJobs : i # j => job'[i] = job[i]
    BY <1>0, <1>3, SnapTypes DEF CreateJob, CreateAt, JobRec
  <2>3. /\ snaps' \in Seq(SnapRec) /\ Len(snaps') = Len(snaps) /\ snaps'[job[j].snap] = s
        /\ \A t \in 1 .. Len(snaps) : t # job[j].snap => snaps'[t] = snaps[t]
    BY <1>0, <1>3, <2>1, RecordFills DEF CreateAt
  <2> QED BY <1>0, <1>1, <1>3, <2>1, <2>2, <2>3 DEF Fills, CreateAt, SnapOf, Same
<1>4. ASSUME Ends(j, "failed"), UNCHANGED snaps PROVE Fills(j)
  <2>1. /\ job' \in [SnapJobs -> JobRec(Len(snaps))] /\ job'[j] \in EndedJob
        /\ \A i \in SnapJobs : i # j => job'[i] = job[i]
    BY <1>4, SnapTypes DEF Ends, EndedJob, JobRec
  <2> QED BY <1>0, <1>1, <1>4, <2>1, SnapTypes DEF Fills, CreateAt, SnapOf, Same
<1>5. CASE \E got \in SUBSET disk[SnapOf(j).of].dir :
              /\ Record(j, [SnapOf(j) EXCEPT !.dir = got, !.dirThen = disk[SnapOf(j).of].dir])
              /\ job' = [job EXCEPT ![j].at = "file", ![j].ok = FALSE]
  <2>1. PICK got \in SUBSET disk[SnapOf(j).of].dir :
              /\ Record(j, [SnapOf(j) EXCEPT !.dir = got, !.dirThen = disk[SnapOf(j).of].dir])
              /\ job' = [job EXCEPT ![j].at = "file", ![j].ok = FALSE]
    BY <1>5
  <2>2. [SnapOf(j) EXCEPT !.dir = got, !.dirThen = disk[SnapOf(j).of].dir]
          = [SnapOf(j) EXCEPT !.dir = got, !.kept = FALSE, !.dirThen = disk[SnapOf(j).of].dir]
    BY <1>0 DEF SnapRec
  <2> QED BY <1>2, <1>3, <2>1, <2>2
<1>6. CASE /\ Record(j, [SnapOf(j) EXCEPT !.dir = disk[SnapOf(j).of].dir, !.kept = TRUE,
                                          !.dirThen = disk[SnapOf(j).of].dir])
           /\ JobTo(j, "file")
  <2>1. job' = [job EXCEPT ![j].at = "file", ![j].ok = job[j].ok] /\ job[j].ok \in BOOLEAN
    BY <1>0, <1>6, SnapTypes DEF JobTo, CreateJob
  <2> QED BY <1>2, <1>3, <1>6, <2>1
<1> QED BY <1>4, <1>5, <1>6 DEF BackupDirs

LEMMA FileFills ==
  ASSUME SnapIInv, NEW j \in SnapJobs, BackupFile(j)
  PROVE  Fills(j)
<1>0. /\ job[j] \in CreateJob(Len(snaps)) /\ job[j].at = "file" /\ job[j].snap \in 1 .. Len(snaps)
      /\ SnapOf(j) \in SnapRec /\ SnapOf(j).listed = FALSE /\ SnapOf(j).whole = FALSE
      /\ job[j].ok = TRUE => SnapOf(j).kept = TRUE
      /\ Same(SnapOf(j))
  <2>1. job[j].at = "file" /\ job[j].at \in CreateAt
    BY DEF BackupFile, JobAt, CreateAt
  <2>2. job[j] \in CreateJob(Len(snaps)) /\ job[j].snap \in 1 .. Len(snaps)
    BY <2>1, JobKinds DEF CreateJob
  <2>3. SnapOf(j) \in SnapRec /\ SnapOf(j).listed = FALSE /\ (job[j].ok = TRUE => SnapOf(j).kept = TRUE)
    BY <2>1, <2>2, SnapTypes DEF SnapOf, SnapIInv, FillIn
  <2> QED BY <2>1, <2>2, <2>3, SnapKept DEF SnapOf, SnapRec
<1>1. UNCHANGED <<disk, row, rules, restored, overlap, apart, cut>>
  BY DEF BackupFile, Reads, outsideSnap, KeepHistory
<1>2. disk[SnapOf(j).of].db \in Data \union {Empty}
  BY <1>0, SnapTypes DEF SnapRec, DiskRec
<1>3. ASSUME NEW db \in Data \union {Empty}, NEW file \in BOOLEAN,
             Record(j, [SnapOf(j) EXCEPT !.db = db, !.file = file]), JobTo(j, "manifest")
      PROVE  Fills(j)
  <2> DEFINE s == [SnapOf(j) EXCEPT !.db = db, !.file = file]
  <2>1. /\ s \in SnapRec /\ s.of = SnapOf(j).of /\ s.tag = SnapOf(j).tag /\ s.listed = FALSE
        /\ s.whole = FALSE /\ s.kept = SnapOf(j).kept /\ s.dir = SnapOf(j).dir
        /\ s.dirThen = SnapOf(j).dirThen
    BY <1>0, <1>3 DEF SnapRec
  <2>2. job' \in [SnapJobs -> JobRec(Len(snaps))] /\ job'[j] \in CreateJob(Len(snaps))
        /\ job'[j].snap = job[j].snap /\ job'[j].at = "manifest" /\ job'[j].ok = job[j].ok
        /\ \A i \in SnapJobs : i # j => job'[i] = job[i]
    BY <1>0, <1>3, SnapTypes DEF CreateJob, CreateAt, JobRec, JobTo
  <2>3. /\ snaps' \in Seq(SnapRec) /\ Len(snaps') = Len(snaps) /\ snaps'[job[j].snap] = s
        /\ \A t \in 1 .. Len(snaps) : t # job[j].snap => snaps'[t] = snaps[t]
    BY <1>0, <1>3, <2>1, RecordFills DEF CreateAt
  <2> HIDE DEF s
  <2> QED BY <1>0, <1>1, <2>1, <2>2, <2>3 DEF Fills, CreateAt, SnapOf, Same
<1>4. CASE job' = [job EXCEPT ![j].at = "manifest", ![j].ok = FALSE] /\ UNCHANGED snaps
  <2>1. job' \in [SnapJobs -> JobRec(Len(snaps))] /\ job'[j] \in CreateJob(Len(snaps))
        /\ job'[j].snap = job[j].snap /\ job'[j].at = "manifest" /\ job'[j].ok = FALSE
        /\ \A i \in SnapJobs : i # j => job'[i] = job[i]
    BY <1>0, <1>4, SnapTypes DEF CreateJob, CreateAt, JobRec
  <2> QED BY <1>0, <1>1, <1>4, <2>1, SnapTypes DEF Fills, CreateAt, SnapOf, Same
<1>5. CASE Record(j, [SnapOf(j) EXCEPT !.db = disk[SnapOf(j).of].db,
                                       !.file = disk[SnapOf(j).of].db # Empty]) /\ JobTo(j, "manifest")
  <2>1. (disk[SnapOf(j).of].db # Empty) \in BOOLEAN
    OBVIOUS
  <2> QED BY <1>2, <1>3, <1>5, <2>1
<1>6. CASE Record(j, [SnapOf(j) EXCEPT !.db = Empty, !.file = TRUE]) /\ JobTo(j, "manifest")
  BY <1>3, <1>6
<1> QED BY <1>4, <1>5, <1>6 DEF BackupFile

LEMMA ManifestFills ==
  ASSUME SnapIInv, NEW j \in SnapJobs, WriteManifest(j)
  PROVE  Fills(j)
<1>0. /\ job[j] \in CreateJob(Len(snaps)) /\ job[j].at = "manifest" /\ job[j].snap \in 1 .. Len(snaps)
      /\ SnapOf(j) \in SnapRec /\ job[j].ok \in BOOLEAN
      /\ job[j].ok = TRUE => SnapOf(j).kept = TRUE
      /\ Same(SnapOf(j))
  <2>1. job[j].at = "manifest" /\ job[j].at \in CreateAt
    BY DEF WriteManifest, JobAt, CreateAt
  <2>2. job[j] \in CreateJob(Len(snaps)) /\ job[j].snap \in 1 .. Len(snaps) /\ job[j].ok \in BOOLEAN
    BY <2>1, JobKinds DEF CreateJob
  <2>3. SnapOf(j) \in SnapRec /\ (job[j].ok = TRUE => SnapOf(j).kept = TRUE)
    BY <2>1, <2>2, SnapTypes DEF SnapOf, SnapIInv, FillIn
  <2> QED BY <2>1, <2>2, <2>3, SnapKept DEF SnapOf
<1>1. UNCHANGED <<disk, row, rules, restored, overlap, apart, cut>>
  BY DEF WriteManifest, Reads, outsideSnap, KeepHistory
<1>2. /\ job' \in [SnapJobs -> JobRec(Len(snaps))] /\ job'[j] \in EndedJob
      /\ \A i \in SnapJobs : i # j => job'[i] = job[i]
  <2>1. PICK at \in {"done", "failed"} : Ends(j, at)
    BY <1>0 DEF WriteManifest
  <2> QED BY <2>1, SnapTypes DEF Ends, EndedJob, JobRec
<1>3. ASSUME NEW left \in SUBSET (SnapOf(j).dir \intersect Credentials),
             Record(j, [SnapOf(j) EXCEPT !.dir = (@ \ Credentials) \union left,
                                         !.listed = TRUE, !.whole = job[j].ok])
      PROVE  Fills(j)
  <2> DEFINE s == [SnapOf(j) EXCEPT !.dir = (@ \ Credentials) \union left,
                                    !.listed = TRUE, !.whole = job[j].ok]
  <2>1. /\ s \in SnapRec /\ s.of = SnapOf(j).of /\ s.tag = SnapOf(j).tag /\ s.listed = TRUE
        /\ s.whole = job[j].ok /\ s.kept = SnapOf(j).kept
        /\ s.dir = (SnapOf(j).dir \ Credentials) \union left
        /\ s.dirThen = SnapOf(j).dirThen
    BY <1>0, <1>3 DEF SnapRec
  <2>2. Same(s)
    BY <1>0, <1>3, <2>1 DEF Same
  <2> HIDE DEF s
  <2>3. /\ snaps' \in Seq(SnapRec) /\ Len(snaps') = Len(snaps) /\ snaps'[job[j].snap] = s
        /\ \A t \in 1 .. Len(snaps) : t # job[j].snap => snaps'[t] = snaps[t]
    BY <1>0, <1>3, <2>1, RecordFills DEF CreateAt, s
  <2> QED BY <1>0, <1>1, <1>2, <2>1, <2>2, <2>3 DEF Fills, CreateAt, SnapOf
<1>4. ASSUME UNCHANGED snaps PROVE Fills(j)
  <2>1. /\ Same(snaps[job[j].snap])
        /\ snaps[job[j].snap].whole = TRUE => snaps[job[j].snap].listed = TRUE /\ snaps[job[j].snap].kept = TRUE
    BY <1>0, SnapKept
  <2> QED BY <1>0, <1>1, <1>2, <1>4, <2>1, SnapTypes DEF Fills, CreateAt
<1> QED BY <1>3, <1>4 DEF WriteManifest, Sanitized

(* A creation that goes on, ends or dies.                                  *)
LEMMA DiesFills ==
  ASSUME SnapIInv, NEW j \in SnapJobs, JobDies(j), job[j].at \in CreateAt
  PROVE  Fills(j)
<1>1. job[j] \in CreateJob(Len(snaps)) /\ job[j].snap \in 1 .. Len(snaps)
  BY JobKinds DEF CreateJob
<1>2. /\ job' \in [SnapJobs -> JobRec(Len(snaps))] /\ job'[j] \in EndedJob
      /\ \A i \in SnapJobs : i # j => job'[i] = job[i]
  BY SnapTypes DEF JobDies, Ends, EndedJob, JobRec
<1>3. UNCHANGED <<disk, row, rules, restored, overlap, apart, cut, snaps>>
  BY DEF JobDies, Reads, outsideSnap, KeepHistory
<1>4. /\ Same(snaps[job[j].snap])
      /\ snaps[job[j].snap].whole = TRUE => snaps[job[j].snap].listed = TRUE /\ snaps[job[j].snap].kept = TRUE
  BY <1>1, SnapKept
<1>5. snaps' \in Seq(SnapRec) /\ Len(snaps') = Len(snaps) /\ \A s \in 1 .. Len(snaps) : snaps'[s] = snaps[s]
  BY <1>3, SnapTypes
<1> QED BY <1>1, <1>2, <1>3, <1>4, <1>5 DEF Fills

LEMMA FillsKeeps ==
  ASSUME SnapIInv, NEW j \in SnapJobs, Fills(j)
  PROVE  WorldIn' /\ SnapIn' /\ JobIn' /\ FillIn' /\ TurnIn' /\ NamesIn' /\ SyncIn' /\ PutBackIn' /\ HeldIn'
<1> DEFINE n == job[j].snap
<1>0. /\ job[j] \in CreateJob(Len(snaps)) /\ n \in 1 .. Len(snaps) /\ snaps[n].listed = FALSE
      /\ "to" \notin DOMAIN job[j]
  BY JobKinds DEF Fills, CreateJob, SnapIInv, FillIn, SnapOf
<1>1. SnapIn' /\ JobIn'
  <2>1. ASSUME NEW s \in 1 .. Len(snaps)
        PROVE  /\ Same(snaps'[s])
               /\ snaps'[s].whole = TRUE => snaps'[s].listed = TRUE /\ snaps'[s].kept = TRUE
    BY <2>1, SnapKept DEF Fills
  <2> QED BY <2>1 DEF Fills, SnapIn, JobIn
<1>2. /\ "to" \notin DOMAIN job'[j]
      /\ job[j].at \in CreateAt
      /\ \A i \in SnapJobs : i # j => job'[i] = job[i]
      /\ job'[j].at \in CreateAt => /\ job'[j].snap = n /\ snaps'[n].listed = FALSE /\ job'[j].at # "dirs"
                                    /\ job'[j].ok = TRUE => snaps'[n].kept = TRUE
  BY DEF Fills, EndedJob, CreateJob, CreateAt
<1>3. /\ Len(snaps') = Len(snaps) /\ snaps'[n].of = snaps[n].of /\ snaps'[n].tag = snaps[n].tag
      /\ \A s \in 1 .. Len(snaps) : s # n => snaps'[s] = snaps[s]
      /\ UNCHANGED <<disk, row, rules, restored, overlap, apart, cut>>
  BY DEF Fills
<1> HIDE DEF n
<1>4. FillIn'
  <2>1. ASSUME NEW i \in SnapJobs, i # j, job[i].at \in CreateAt
        PROVE  job[i].snap \in 1 .. Len(snaps) /\ job[i].snap # n
    BY <1>0, <1>2, <2>1, JobKinds DEF SnapIInv, FillIn, CreateJob, n
  <2>2. ASSUME NEW i \in SnapJobs, job'[i].at \in CreateAt
        PROVE  /\ SnapOf(i)'.listed = FALSE
               /\ job'[i].at = "dirs" => SnapOf(i)'.kept = FALSE
               /\ job'[i].at # "dirs" /\ job'[i].ok = TRUE => SnapOf(i)'.kept = TRUE
    <3>1. CASE i = j
      BY <1>2, <2>2, <3>1 DEF SnapOf
    <3>2. CASE i # j
      <4>1. job'[i] = job[i] /\ snaps'[job[i].snap] = snaps[job[i].snap]
        BY <1>2, <1>3, <2>1, <2>2, <3>2
      <4> QED BY <2>2, <4>1 DEF SnapIInv, FillIn, SnapOf
    <3> QED BY <3>1, <3>2
  <2>3. ASSUME NEW i \in SnapJobs, NEW k \in SnapJobs, job'[i].at \in CreateAt, job'[k].at \in CreateAt,
               job'[i].snap = job'[k].snap
        PROVE  i = k
    BY <1>2, <2>1, <2>3 DEF SnapIInv, FillIn
  <2> QED BY <2>2, <2>3 DEF FillIn
<1>5. TurnIn'
  <2> SUFFICES ASSUME overlap' = FALSE PROVE TurnIn'
    BY DEF TurnIn
  <2>1. /\ overlap = FALSE /\ n = Len(snaps)
        /\ \A i \in SnapJobs : job[i].at \in CreateAt => i = j
        /\ snaps[n].tag # NoTag => \A s \in 1 .. Len(snaps) : snaps[s].of = snaps[n].of /\ snaps[s].listed = TRUE
                                       => snaps[s].tag # snaps[n].tag
    BY <1>2, <1>3 DEF TurnIn, SnapIInv, SnapOf, n
  <2>2. \A i \in SnapJobs : job'[i].at \in CreateAt => i = j
    BY <1>2, <2>1
  <2>3. ASSUME job'[j].at \in CreateAt, NEW s \in 1 .. Len(snaps), snaps'[n].tag # NoTag,
               snaps'[s].of = snaps'[n].of, snaps'[s].listed = TRUE
        PROVE  snaps'[s].tag # snaps'[n].tag
    <3>1. s # n
      BY <1>2, <2>3
    <3> QED BY <1>3, <2>1, <2>3, <3>1
  <2>4. ASSUME NEW i \in SnapJobs, job'[i].at \in CreateAt PROVE i = j /\ job'[i].snap = n
    BY <1>2, <2>2, <2>4
  <2> QED BY <1>3, <2>1, <2>3, <2>4 DEF TurnIn, SnapOf
<1>6. SyncIn'
  BY <1>3 DEF SyncIn, SnapIInv, Synced
<1>7. PutBackIn'
  <2>1. ASSUME NEW i \in SnapJobs, "to" \in DOMAIN job'[i]
        PROVE  job'[i] = job[i] /\ snaps'[job[i].snap] = snaps[job[i].snap] /\ "to" \in DOMAIN job[i]
    <3>1. i # j /\ job'[i] = job[i] /\ "to" \in DOMAIN job[i]
      BY <1>2, <2>1
    <3>2. snaps[job[i].snap].listed = TRUE /\ job[i].snap \in 1 .. Len(snaps)
      BY <3>1, JobKinds DEF SnapIInv, PutBackIn, PutBack, RestoreJob, SnapOf
    <3> QED BY <1>0, <1>3, <3>1, <3>2
  <2>2. ASSUME NEW i \in SnapJobs, "to" \in DOMAIN job'[i]
        PROVE  PutBack(i)'
    <3>1. SnapOf(i)' = SnapOf(i) /\ job'[i] = job[i]
      BY <2>1, <2>2 DEF SnapOf
    <3>2. PutBack(i)
      BY <2>1, <2>2 DEF PutBackIn, SnapIInv
    <3> QED BY <1>3, <3>1, <3>2 DEF PutBack
  <2> QED BY <2>2 DEF PutBackIn
<1>8. HeldIn'
  <2>1. ASSUME NEW b \in Boxes, restored[b] # 0
        PROVE  snaps'[restored[b]] = snaps[restored[b]]
    <3>1. restored[b] \in 0 .. Len(snaps) /\ Len(snaps) \in Nat
      BY SnapTypes
    <3>2. restored[b] \in 1 .. Len(snaps)
      BY <2>1, <3>1
    <3>3. snaps[restored[b]].listed = TRUE
      BY <2>1 DEF SnapIInv, HeldIn, Held
    <3> QED BY <1>0, <1>3, <3>2, <3>3
  <2> QED BY <1>3, <2>1 DEF HeldIn, Held, SnapIInv
<1>9. NamesIn'
  <2> SUFFICES ASSUME overlap = FALSE, NEW s \in 1 .. Len(snaps), NEW t \in 1 .. Len(snaps),
                      snaps'[s].listed = TRUE, snaps'[t].listed = TRUE, snaps'[s].of = snaps'[t].of,
                      snaps'[s].tag = snaps'[t].tag, s # t, snaps'[s].tag # NoTag
               PROVE  FALSE
    BY <1>3 DEF NamesIn
  <2>1. snaps[n].tag # NoTag => \A u \in 1 .. Len(snaps) : snaps[u].of = snaps[n].of /\ snaps[u].listed = TRUE
                                       => snaps[u].tag # snaps[n].tag
    BY <1>2 DEF TurnIn, SnapIInv, SnapOf, n
  <2>2. CASE s = n \/ t = n
    BY <1>3, <2>1, <2>2
  <2>3. CASE s # n /\ t # n
    BY <1>3, <2>3 DEF NamesIn, SnapIInv
  <2> QED BY <2>2, <2>3
<1>10. WorldIn'
  BY <1>3 DEF SnapIInv, WorldIn
<1> QED BY <1>1, <1>4, <1>5, <1>6, <1>7, <1>8, <1>9, <1>10
-----------------------------------------------------------------------------
(* A step that changes sandbox b only: whoever restores into it is told,   *)
(* unless nothing of what he knows of it has changed.                      *)
Mutes(i) == "to" \in DOMAIN job[i] /\ job'[i] = [job[i] EXCEPT !.alone = FALSE]
Touches(b, K) ==
  /\ UNCHANGED <<snaps, overlap>>
  /\ disk' \in [Boxes -> DiskRec] /\ row' \in [Boxes -> RowRec] /\ rules' \in [Boxes -> SUBSET Offered]
  /\ restored' \in [Boxes -> 0 .. Len(snaps)] /\ apart \subseteq apart' /\ apart' \subseteq apart \union {b}
  /\ cut' \subseteq Boxes /\ \A x \in Boxes : x # b => (x \in cut' <=> x \in cut)
  /\ \A x \in Boxes : x # b => /\ disk'[x] = disk[x] /\ row'[x] = row[x]
                              /\ rules'[x] = rules[x] /\ restored'[x] = restored[x]
  /\ Synced(b)' /\ Held(b)'
  /\ job' \in [SnapJobs -> JobRec(Len(snaps))]
  /\ \A i \in SnapJobs \ K :
       \/ Mutes(i)
       \/ /\ job'[i] = job[i]
          /\ "to" \in DOMAIN job[i] /\ job[i].to = b
               => disk'[b] = disk[b] /\ (b \notin apart' => rules'[b] = rules[b])
  /\ \A j \in K : job'[j].at \notin CreateAt /\ ("to" \in DOMAIN job'[j] => PutBack(j)')

LEMMA MutedJob ==
  ASSUME SnapIInv, NEW i \in SnapJobs, Mutes(i)
  PROVE  /\ job'[i] \in RestoreJob(Len(snaps)) /\ job'[i].alone = FALSE /\ "to" \in DOMAIN job[i]
         /\ job'[i].at = job[i].at /\ job'[i].to = job[i].to /\ job'[i].snap = job[i].snap
         /\ job'[i].del = job[i].del /\ job'[i].add = job[i].add
<1>1. job[i] \in RestoreJob(Len(snaps))
  BY JobKinds DEF Mutes
<1> QED BY <1>1 DEF Mutes, RestoreJob

(* No creation moves.                                                      *)
LEMMA CreationsSame ==
  ASSUME SnapIInv, UNCHANGED <<snaps, overlap>>,
         \A i \in SnapJobs : job'[i].at \in CreateAt => job'[i] = job[i]
  PROVE  SnapIn' /\ FillIn' /\ TurnIn' /\ NamesIn'
<1>1. SnapIn' /\ NamesIn'
  BY DEF SnapIInv, SnapIn, NamesIn
<1>2. \A i \in SnapJobs : job'[i].at \in CreateAt => job'[i] = job[i] /\ SnapOf(i)' = SnapOf(i)
  BY DEF SnapOf
<1>3. FillIn'
  BY <1>2 DEF FillIn, SnapIInv
<1>4. TurnIn'
  BY <1>2 DEF TurnIn, SnapIInv
<1> QED BY <1>1, <1>3, <1>4

LEMMA TouchKeeps ==
  ASSUME SnapIInv, NEW b \in Boxes, NEW K \in SUBSET SnapJobs, Touches(b, K)
  PROVE  WorldIn' /\ SnapIn' /\ JobIn' /\ FillIn' /\ TurnIn' /\ NamesIn' /\ SyncIn' /\ PutBackIn' /\ HeldIn'
<1>1. /\ UNCHANGED <<snaps, overlap>> /\ apart \subseteq apart' /\ apart' \subseteq apart \union {b}
      /\ \A x \in Boxes : x # b => /\ disk'[x] = disk[x] /\ row'[x] = row[x]
                                  /\ rules'[x] = rules[x] /\ restored'[x] = restored[x]
      /\ \A x \in Boxes : x # b => (x \in cut' <=> x \in cut)
      /\ Synced(b)' /\ Held(b)'
  BY DEF Touches
<1>2. JobIn'
  BY DEF Touches, JobIn
<1>3. SnapIn' /\ FillIn' /\ TurnIn' /\ NamesIn'
  <2>1. ASSUME NEW i \in SnapJobs, job'[i].at \in CreateAt PROVE job'[i] = job[i]
    <3>1. i \notin K
      BY <2>1 DEF Touches
    <3>2. ~Mutes(i)
      BY <2>1, MutedJob, JobKinds DEF RestoreJob
    <3> QED BY <3>1, <3>2 DEF Touches
  <2> QED BY <1>1, <2>1, CreationsSame
<1>4. SyncIn'
  <2>1. ASSUME NEW x \in Boxes, x # b PROVE Synced(x)'
    <3>1. Synced(x)
      BY DEF SnapIInv, SyncIn
    <3> QED BY <1>1, <2>1, <3>1 DEF Synced
  <2> QED BY <1>1, <2>1 DEF SyncIn
<1>5. HeldIn'
  <2>1. ASSUME NEW x \in Boxes, x # b PROVE Held(x)'
    <3>1. Held(x)
      BY DEF SnapIInv, HeldIn
    <3> QED BY <1>1, <2>1, <3>1 DEF Held
  <2> QED BY <1>1, <2>1 DEF HeldIn
<1>6. PutBackIn'
  <2>1. ASSUME NEW i \in SnapJobs \ K, "to" \in DOMAIN job'[i] PROVE PutBack(i)'
    <3>1. /\ "to" \in DOMAIN job[i] /\ PutBack(i) /\ job[i] \in RestoreJob(Len(snaps)) /\ job[i].to \in Boxes
      BY <2>1, MutedJob, JobKinds DEF SnapIInv, PutBackIn, RestoreJob, Touches
    <3>2. CASE Mutes(i)
      <4>1. SnapOf(i)' = SnapOf(i) /\ job'[i].alone = FALSE
            /\ job'[i].at = job[i].at /\ job'[i].del = job[i].del /\ job'[i].add = job[i].add
        BY <1>1, <3>2, MutedJob DEF SnapOf
      <4> QED BY <3>1, <4>1 DEF PutBack
    <3>3. CASE job'[i] = job[i] /\ job[i].to # b
      <4>1. SnapOf(i)' = SnapOf(i) /\ disk'[job[i].to] = disk[job[i].to] /\ rules'[job[i].to] = rules[job[i].to]
        BY <1>1, <3>1, <3>3 DEF SnapOf
      <4> QED BY <1>1, <3>1, <3>3, <4>1 DEF PutBack
    <3>4. CASE job'[i] = job[i] /\ job[i].to = b
      <4>1. CASE disk'[b] = disk[b] /\ (b \notin apart' => rules'[b] = rules[b])
        <5>1. SnapOf(i)' = SnapOf(i)
          BY <1>1, <3>4 DEF SnapOf
        <5> QED BY <1>1, <3>1, <3>4, <4>1, <5>1 DEF PutBack
      <4> QED BY <3>1, <3>2, <3>4, <4>1 DEF Touches
    <3> QED BY <3>2, <3>3, <3>4 DEF Touches
  <2> QED BY <2>1 DEF Touches, PutBackIn
<1>7. WorldIn'
  BY DEF Touches, SnapIInv, WorldIn
<1> QED BY <1>2, <1>3, <1>4, <1>5, <1>6, <1>7
-----------------------------------------------------------------------------
(* The steps of a restore into its sandbox.                                *)

LEMMA ShakenJobs ==
  ASSUME SnapIInv, NEW j \in SnapJobs, NEW b \in Boxes, NEW r \in JobRec(Len(snaps)),
         job' = [Shaken(j, b) EXCEPT ![j] = r]
  PROVE  /\ job' \in [SnapJobs -> JobRec(Len(snaps))] /\ job'[j] = r
         /\ \A i \in SnapJobs \ {j} :
              Mutes(i) \/ (job'[i] = job[i] /\ ~("to" \in DOMAIN job[i] /\ job[i].to = b))
<1>1. ASSUME NEW i \in SnapJobs, i # j
      PROVE  /\ job'[i] \in JobRec(Len(snaps))
             /\ Mutes(i) \/ (job'[i] = job[i] /\ ~("to" \in DOMAIN job[i] /\ job[i].to = b))
  <2>1. job'[i] = IF job[i].at # "idle" /\ "to" \in DOMAIN job[i] /\ job[i].to = b
                  THEN [job[i] EXCEPT !.alone = FALSE] ELSE job[i]
    BY <1>1 DEF Shaken
  <2>2. "to" \in DOMAIN job[i] => job[i] \in RestoreJob(Len(snaps)) /\ job[i].at # "idle"
    BY JobKinds DEF RestoreJob, RestoreAt
  <2>3. CASE "to" \in DOMAIN job[i] /\ job[i].to = b
    <3>1. job'[i] = [job[i] EXCEPT !.alone = FALSE] /\ job[i] \in RestoreJob(Len(snaps))
      BY <2>1, <2>2, <2>3
    <3>2. Mutes(i)
      BY <2>3, <3>1 DEF Mutes
    <3> QED BY <3>2, MutedJob DEF JobRec
  <2>4. CASE ~("to" \in DOMAIN job[i] /\ job[i].to = b)
    BY <2>1, <2>4, SnapTypes
  <2> QED BY <2>3, <2>4
<1>2. job'[j] = r /\ job' = [i \in SnapJobs |-> job'[i]]
  BY DEF Shaken
<1> QED BY <1>1, <1>2

LEMMA OwnJob ==
  ASSUME SnapIInv, NEW j \in SnapJobs, NEW r \in JobRec(Len(snaps)), job' = [job EXCEPT ![j] = r]
  PROVE  /\ job' \in [SnapJobs -> JobRec(Len(snaps))] /\ job'[j] = r
         /\ \A i \in SnapJobs \ {j} : job'[i] = job[i]
BY SnapTypes

(* What a restore knows of itself.                                         *)
LEMMA RestoreKnows ==
  ASSUME SnapIInv, NEW j \in SnapJobs, job[j].at \in RestoreAt \ {"done"}
  PROVE  /\ job[j] \in RestoreJob(Len(snaps)) /\ job[j].to \in Boxes /\ job[j].snap \in 1 .. Len(snaps)
         /\ SnapOf(j) \in SnapRec /\ "to" \in DOMAIN job[j] /\ PutBack(j)
         /\ disk[job[j].to] \in DiskRec /\ row[job[j].to] \in RowRec /\ rules[job[j].to] \in SUBSET Offered
         /\ restored[job[j].to] \in 0 .. Len(snaps)
         /\ Synced(job[j].to) /\ Held(job[j].to)
<1>1. job[j] \in RestoreJob(Len(snaps)) /\ job[j].to \in Boxes /\ job[j].snap \in 1 .. Len(snaps) /\ "to" \in DOMAIN job[j]
  BY JobKinds DEF RestoreJob
<1>2. PutBack(j) /\ Synced(job[j].to) /\ Held(job[j].to)
  BY <1>1 DEF SnapIInv, PutBackIn, SyncIn, HeldIn
<1> QED BY <1>1, <1>2, SnapTypes DEF SnapOf

(* The sandbox is left alone, and the command ends or goes on.             *)
LEMMA QuietTouch ==
  ASSUME SnapIInv, NEW j \in SnapJobs, NEW b \in Boxes, NEW r \in JobRec(Len(snaps)), job' = [job EXCEPT ![j] = r],
         UNCHANGED <<snaps, overlap, disk, row, rules, restored, apart, cut>>,
         r.at \notin CreateAt, "to" \in DOMAIN r => PutBack(j)'
  PROVE  Touches(b, {j})
<1>1. Synced(b) /\ Held(b)
  BY DEF SnapIInv, SyncIn, HeldIn
<1>2. Synced(b)' /\ Held(b)'
  BY <1>1 DEF Synced, Held
<1> QED BY <1>2, OwnJob, SnapTypes DEF Touches

LEMMA EndsTouch ==
  ASSUME SnapIInv, NEW j \in SnapJobs, NEW b \in Boxes, NEW at \in {"done", "failed", "refused"}, Ends(j, at),
         UNCHANGED <<snaps, overlap, disk, row, rules, restored, apart, cut>>
  PROVE  Touches(b, {j})
<1>1. [at |-> at] \in JobRec(Len(snaps)) /\ [at |-> at].at \notin CreateAt /\ "to" \notin DOMAIN [at |-> at]
  BY DEF JobRec, EndedJob, CreateAt
<1> QED BY <1>1, QuietTouch DEF Ends

(* Only sandbox b changes, and everybody who restores into it is told.     *)
LEMMA LoudTouch ==
  ASSUME SnapIInv, NEW j \in SnapJobs, NEW b \in Boxes, NEW r \in JobRec(Len(snaps)),
         job' = [Shaken(j, b) EXCEPT ![j] = r],
         UNCHANGED <<snaps, overlap>>, apart \subseteq apart', apart' \subseteq apart \union {b},
         cut' \in {cut, cut \ {b}, cut \union {b}},
         NEW d \in DiskRec, disk' = [disk EXCEPT ![b] = d], NEW e \in RowRec, row' = [row EXCEPT ![b] = e],
         NEW p \in SUBSET Offered, rules' = [rules EXCEPT ![b] = p],
         NEW n \in 0 .. Len(snaps), restored' = [restored EXCEPT ![b] = n],
         Synced(b)', Held(b)', r.at \notin CreateAt, "to" \in DOMAIN r => PutBack(j)'
  PROVE  Touches(b, {j})
<1>1. /\ disk' \in [Boxes -> DiskRec] /\ row' \in [Boxes -> RowRec] /\ rules' \in [Boxes -> SUBSET Offered]
      /\ restored' \in [Boxes -> 0 .. Len(snaps)]
      /\ \A x \in Boxes : x # b => /\ disk'[x] = disk[x] /\ row'[x] = row[x]
                                  /\ rules'[x] = rules[x] /\ restored'[x] = restored[x]
  BY SnapTypes
<1>2. /\ job' \in [SnapJobs -> JobRec(Len(snaps))] /\ job'[j] = r
      /\ \A i \in SnapJobs \ {j} :
           Mutes(i) \/ (job'[i] = job[i] /\ ~("to" \in DOMAIN job[i] /\ job[i].to = b))
  BY ShakenJobs
<1>3. cut' \subseteq Boxes /\ \A x \in Boxes : x # b => (x \in cut' <=> x \in cut)
  BY SnapTypes
<1> QED BY <1>1, <1>2, <1>3 DEF Touches

LEMMA DeleteTouches ==
  ASSUME SnapIInv, NEW j \in SnapJobs, NEW to \in Boxes, to = job[j].to, DeleteTarget(j)
  PROVE  Touches(to, {j})
<1> DEFINE r  == [job[j] EXCEPT !.at = "clone"]
<1>0. /\ job[j] \in RestoreJob(Len(snaps)) /\ to \in Boxes /\ job[j].at = "delete" /\ PutBack(j) /\ to \in Boxes
  BY RestoreKnows DEF DeleteTarget, JobAt, RestoreAt
<1>1. CASE Ends(j, "failed") /\ Reads /\ KeepHistory
  BY <1>0, <1>1, EndsTouch DEF DeleteTarget, Reads, KeepHistory, outsideSnap
<1>2. CASE /\ disk' = [disk EXCEPT ![to] = NoDisk] /\ row' = [row EXCEPT ![to] = NoRow]
           /\ rules' = [rules EXCEPT ![to] = {}]
           /\ job' = [Shaken(j, to) EXCEPT ![j].at = "clone"] /\ Disturb(to)
  <2>1. /\ r \in JobRec(Len(snaps)) /\ r.at = "clone" /\ r.snap = job[j].snap
        /\ job' = [Shaken(j, to) EXCEPT ![j] = r] /\ r.at \notin CreateAt
    BY <1>0, <1>2 DEF Shaken, RestoreJob, RestoreAt, JobRec, CreateAt
  <2>2. job'[j] = r
    BY <1>0, <2>1, ShakenJobs
  <2>3. NoDisk \in DiskRec /\ NoRow \in RowRec /\ {} \in SUBSET Offered /\ 0 \in 0 .. Len(snaps)
    BY SnapTypes DEF NoDisk, NoRow, DiskRec, RowRec
  <2>4. /\ disk'[to] = NoDisk /\ row'[to] = NoRow /\ rules'[to] = {} /\ restored'[to] = 0
        /\ UNCHANGED <<snaps, overlap, apart, cut>> /\ restored' = [restored EXCEPT ![to] = 0]
    BY <1>0, <1>2, SnapTypes DEF Disturb, DeleteTarget
  <2>5. Synced(to)' /\ Held(to)'
    BY <2>4 DEF Synced, Held, NoDisk, NoRow
  <2>6. PutBack(j)'
    BY <1>0, <2>1, <2>2, <2>4 DEF PutBack, SnapOf
  <2> HIDE DEF r
  <2> QED BY <1>0, <1>2, <2>1, <2>3, <2>4, <2>5, <2>6, LoudTouch
<1> QED BY <1>1, <1>2 DEF DeleteTarget

LEMMA CloneTouches ==
  ASSUME SnapIInv, NEW j \in SnapJobs, NEW to \in Boxes, to = job[j].to, CloneSource(j)
  PROVE  Touches(to, {j})
<1> DEFINE r  == [job[j] EXCEPT !.at = "clean", !.alone = @ /\ ~disk[to].live]
<1>0. /\ job[j] \in RestoreJob(Len(snaps)) /\ to \in Boxes /\ job[j].at = "clone" /\ PutBack(j)
      /\ disk[to] \in DiskRec /\ row[to] \in RowRec /\ rules[to] \in SUBSET Offered /\ Synced(to)
  BY RestoreKnows DEF CloneSource, JobAt, RestoreAt
<1>1. CASE Ends(j, "failed") /\ Reads /\ KeepHistory
  BY <1>0, <1>1, EndsTouch DEF CloneSource, Reads, KeepHistory, outsideSnap
<1>2. CASE /\ disk' = [disk EXCEPT ![to] = IF @.live THEN @ ELSE [NoDisk EXCEPT !.live = TRUE]]
           /\ rules' = [rules EXCEPT ![to] = IF disk[to].live THEN @ ELSE {}]
           /\ row' = [row EXCEPT ![to] = Cloned(row[job[j].box])]
           /\ job' = [Shaken(j, to) EXCEPT ![j].at = "clean", ![j].alone = @ /\ ~disk[to].live]
           /\ apart' = IF rules[to] = {} THEN apart ELSE apart \union {to}
           /\ restored' = [restored EXCEPT ![to] = 0] /\ UNCHANGED <<overlap, cut>>
  <2> DEFINE d == IF disk[to].live THEN disk[to] ELSE [NoDisk EXCEPT !.live = TRUE]
             e == Cloned(row[job[j].box])
             p == IF disk[to].live THEN rules[to] ELSE {}
  <2>1. /\ r \in JobRec(Len(snaps)) /\ r.at = "clean" /\ r.snap = job[j].snap
        /\ job' = [Shaken(j, to) EXCEPT ![j] = r] /\ r.at \notin CreateAt
    <3>1. r \in RestoreJob(Len(snaps)) /\ r.at = "clean" /\ r.snap = job[j].snap
      BY <1>0 DEF RestoreJob, RestoreAt, DiskRec
    <3>2. job' = [Shaken(j, to) EXCEPT ![j] = r]
      BY <1>0, <1>2 DEF Shaken
    <3> QED BY <3>1, <3>2 DEF JobRec, CreateAt
  <2>2. job'[j] = r
    BY <1>0, <2>1, ShakenJobs
  <2>3. /\ d \in DiskRec /\ d.live = TRUE /\ e \in RowRec /\ e.listed = TRUE /\ e.presets = {}
        /\ p \in SUBSET Offered /\ 0 \in 0 .. Len(snaps) /\ p = rules[to]
    <3>1. row[job[j].box] \in RowRec
      BY <1>0, SnapTypes DEF RestoreJob
    <3>2. e \in RowRec /\ e.listed = TRUE /\ e.presets = {}
      BY <3>1 DEF Cloned, RowRec
    <3>3. d \in DiskRec /\ d.live = TRUE /\ 0 \in 0 .. Len(snaps)
      <4>1. CASE disk[to].live = TRUE
        BY <1>0, <4>1, SnapTypes
      <4>2. CASE disk[to].live = FALSE
        <5>1. [NoDisk EXCEPT !.live = TRUE] \in DiskRec /\ [NoDisk EXCEPT !.live = TRUE].live = TRUE
          BY DEF NoDisk, DiskRec
        <5> QED BY <4>2, <5>1, SnapTypes
      <4> QED BY <1>0, <4>1, <4>2 DEF DiskRec
    <3>4. p = rules[to]
      BY <1>0 DEF Synced, DiskRec
    <3> QED BY <1>0, <3>2, <3>3, <3>4
  <2>4. /\ disk' = [disk EXCEPT ![to] = d] /\ row' = [row EXCEPT ![to] = e] /\ rules' = [rules EXCEPT ![to] = p]
        /\ restored' = [restored EXCEPT ![to] = 0] /\ UNCHANGED <<snaps, overlap, cut>>
        /\ apart \subseteq apart' /\ apart' \subseteq apart \union {to} /\ (to \notin apart' => rules[to] = {})
    BY <1>0, <1>2, SnapTypes DEF CloneSource
  <2> HIDE DEF d, e, p
  <2>7. disk'[to] = d /\ row'[to] = e /\ rules'[to] = p /\ restored'[to] = 0
    BY <1>0, <2>4, SnapTypes
  <2>5. Synced(to)' /\ Held(to)'
    BY <2>3, <2>4, <2>7 DEF Synced, Held
  <2>6. PutBack(j)'
    BY <1>0, <2>1, <2>2, <2>4 DEF PutBack, SnapOf
  <2> HIDE DEF r
  <2> QED BY <1>0, <2>1, <2>3, <2>4, <2>5, <2>6, LoudTouch
<1> QED BY <1>1, <1>2 DEF CloneSource

LEMMA CleanTouches ==
  ASSUME SnapIInv, NEW j \in SnapJobs, NEW to \in Boxes, to = job[j].to, CleanTarget(j)
  PROVE  Touches(to, {j})
<1>0. /\ job[j] \in RestoreJob(Len(snaps)) /\ job[j].at = "clean" /\ PutBack(j) /\ SnapOf(j) \in SnapRec
      /\ disk[to] \in DiskRec /\ row[to] \in RowRec /\ rules[to] \in SUBSET Offered /\ Synced(to)
  BY RestoreKnows DEF CleanTarget, JobAt, RestoreAt
<1>1. CASE Restorable(SnapOf(j)) /\ Ends(j, "failed") /\ Reads /\ KeepHistory
  BY <1>1, EndsTouch DEF CleanTarget, Reads, KeepHistory, outsideSnap
<1>2. CASE ~Restorable(SnapOf(j)) /\ JobTo(j, "refile") /\ Reads /\ KeepHistory
  <2> DEFINE r == [job[j] EXCEPT !.at = "refile"]
  <2>1. /\ r \in JobRec(Len(snaps)) /\ r.at = "refile" /\ r.snap = job[j].snap /\ r.at \notin CreateAt
        /\ job' = [job EXCEPT ![j] = r]
    BY <1>0, <1>2 DEF JobTo, RestoreJob, RestoreAt, JobRec, CreateAt
  <2>2. job'[j] = r
    BY <2>1, OwnJob
  <2> HIDE DEF r
  <2>3. UNCHANGED <<snaps, overlap, disk, row, rules, restored, apart, cut>> /\ SnapOf(j).kept = FALSE
    BY <1>0, <1>2 DEF CleanTarget, Reads, KeepHistory, outsideSnap, Restorable, SnapRec
  <2>4. PutBack(j)'
    BY <1>0, <2>1, <2>2, <2>3 DEF PutBack, SnapOf
  <2> QED BY <2>1, <2>3, <2>4, QuietTouch
<1>3. CASE /\ Restorable(SnapOf(j)) /\ disk[to].live /\ disk' = [disk EXCEPT ![to].dir = {}]
           /\ job' = [Shaken(j, to) EXCEPT ![j].at = "extract"] /\ Disturb(to) /\ UNCHANGED <<row, rules>>
  <2> DEFINE r == [job[j] EXCEPT !.at = "extract"]
             d == [disk[to] EXCEPT !.dir = {}]
  <2>1. /\ r \in JobRec(Len(snaps)) /\ r.at = "extract" /\ r.snap = job[j].snap /\ r.to = to /\ r.at \notin CreateAt
        /\ job' = [Shaken(j, to) EXCEPT ![j] = r]
    BY <1>0, <1>3 DEF Shaken, RestoreJob, RestoreAt, JobRec, CreateAt
  <2>2. job'[j] = r
    BY <2>1, ShakenJobs
  <2> HIDE DEF r
  <2>3. d \in DiskRec /\ d.live = disk[to].live /\ d.dir = {} /\ 0 \in 0 .. Len(snaps) /\ SnapOf(j).kept = TRUE
    <3>1. d \in DiskRec /\ d.live = disk[to].live /\ d.dir = {}
      BY <1>0 DEF DiskRec
    <3>2. 0 \in 0 .. Len(snaps)
      BY SnapTypes
    <3> QED BY <1>0, <1>3, <3>1, <3>2 DEF Restorable, SnapRec
  <2>4. /\ disk' = [disk EXCEPT ![to] = d] /\ row' = [row EXCEPT ![to] = row[to]]
        /\ rules' = [rules EXCEPT ![to] = rules[to]] /\ restored' = [restored EXCEPT ![to] = 0]
        /\ UNCHANGED <<snaps, overlap, apart, cut, row, rules>>
    BY <1>0, <1>3, SnapTypes DEF CleanTarget, Disturb
  <2> HIDE DEF d
  <2>7. disk'[to] = d /\ restored'[to] = 0
    BY <2>4, SnapTypes
  <2>5. Synced(to)' /\ Held(to)'
    BY <1>0, <2>3, <2>4, <2>7 DEF Synced, Held
  <2>6. PutBack(j)'
    <3>1. job'[j].at = "extract" /\ job'[j].to = to /\ SnapOf(j)' = SnapOf(j)
      BY <2>1, <2>2, <2>4 DEF SnapOf
    <3>2. SnapOf(j).listed = TRUE /\ SnapOf(j).kept = TRUE /\ disk'[to].dir = {}
      BY <1>0, <2>3, <2>7 DEF PutBack
    <3> QED BY <3>1, <3>2 DEF PutBack
  <2> QED BY <1>0, <2>1, <2>3, <2>4, <2>5, <2>6, LoudTouch
<1>4. CASE /\ Restorable(SnapOf(j)) /\ \E left \in SUBSET disk[to].dir : disk' = [disk EXCEPT ![to].dir = left]
           /\ job' = [Shaken(j, to) EXCEPT ![j] = [at |-> "failed"]] /\ Disturb(to) /\ UNCHANGED <<row, rules>>
  <2>1. PICK left \in SUBSET disk[to].dir : disk' = [disk EXCEPT ![to].dir = left]
    BY <1>4
  <2> DEFINE r == [at |-> "failed"]
             d == [disk[to] EXCEPT !.dir = left]
  <2>2. r \in JobRec(Len(snaps)) /\ r.at \notin CreateAt /\ "to" \notin DOMAIN r
        /\ job' = [Shaken(j, to) EXCEPT ![j] = r]
    BY <1>4 DEF JobRec, EndedJob, CreateAt
  <2>3. d \in DiskRec /\ d.live = disk[to].live
    BY <1>0, <2>1 DEF DiskRec
  <2>4. /\ disk' = [disk EXCEPT ![to] = d] /\ row' = [row EXCEPT ![to] = row[to]]
        /\ rules' = [rules EXCEPT ![to] = rules[to]] /\ restored' = [restored EXCEPT ![to] = 0]
        /\ UNCHANGED <<snaps, overlap, apart, cut, row, rules>> /\ 0 \in 0 .. Len(snaps)
    <3>1. UNCHANGED snaps
      BY DEF CleanTarget
    <3>2. disk' = [disk EXCEPT ![to] = d]
      BY <2>1, SnapTypes
    <3>3. restored' = [restored EXCEPT ![to] = 0] /\ UNCHANGED <<overlap, apart, cut, row, rules>>
      BY <1>4 DEF Disturb
    <3>4. row' = [row EXCEPT ![to] = row[to]] /\ rules' = [rules EXCEPT ![to] = rules[to]]
      BY <3>3, SnapTypes
    <3>5. 0 \in 0 .. Len(snaps)
      BY SnapTypes
    <3> HIDE DEF d
    <3> QED BY <3>1, <3>2, <3>3, <3>4, <3>5
  <2> HIDE DEF r, d
  <2>5. disk'[to] = d /\ restored'[to] = 0
    BY <2>4, SnapTypes
  <2>6. Synced(to)' /\ Held(to)'
    BY <1>0, <2>3, <2>4, <2>5 DEF Synced, Held
  <2> QED BY <1>0, <2>2, <2>3, <2>4, <2>6, LoudTouch
<1> QED BY <1>1, <1>2, <1>3, <1>4 DEF CleanTarget

LEMMA ExtractTouches ==
  ASSUME SnapIInv, NEW j \in SnapJobs, NEW to \in Boxes, to = job[j].to, ExtractDir(j)
  PROVE  Touches(to, {j})
<1>0. /\ job[j] \in RestoreJob(Len(snaps)) /\ job[j].at = "extract" /\ PutBack(j) /\ SnapOf(j) \in SnapRec
      /\ disk[to] \in DiskRec /\ row[to] \in RowRec /\ rules[to] \in SUBSET Offered /\ Synced(to)
  BY RestoreKnows DEF ExtractDir, JobAt, RestoreAt
<1>1. CASE /\ UNCHANGED disk /\ KeepHistory /\ job' = [job EXCEPT ![j].at = "refile", ![j].ok = FALSE]
  <2> DEFINE r == [job[j] EXCEPT !.at = "refile", !.ok = FALSE]
  <2>1. /\ r \in JobRec(Len(snaps)) /\ r.at = "refile" /\ r.snap = job[j].snap /\ r.ok = FALSE /\ r.at \notin CreateAt
        /\ job' = [job EXCEPT ![j] = r]
    BY <1>0, <1>1 DEF RestoreJob, RestoreAt, JobRec, CreateAt
  <2>2. job'[j] = r
    BY <2>1, OwnJob
  <2> HIDE DEF r
  <2>3. UNCHANGED <<snaps, overlap, disk, row, rules, restored, apart, cut>>
    BY <1>1 DEF ExtractDir, KeepHistory
  <2>4. PutBack(j)'
    BY <1>0, <2>1, <2>2, <2>3 DEF PutBack, SnapOf
  <2> QED BY <2>1, <2>3, <2>4, QuietTouch
<1>2. ASSUME NEW got \in SUBSET SnapOf(j).dir, disk' = [disk EXCEPT ![to].dir = @ \union got],
             NEW ok \in BOOLEAN, job' = [Shaken(j, to) EXCEPT ![j].at = "refile", ![j].ok = ok],
             ok = TRUE => got = SnapOf(j).dir /\ job[j].ok = TRUE, Disturb(to)
      PROVE  Touches(to, {j})
  <2> DEFINE r == [job[j] EXCEPT !.at = "refile", !.ok = ok]
             d == [disk[to] EXCEPT !.dir = @ \union got]
  <2>1. /\ r \in JobRec(Len(snaps)) /\ r.at = "refile" /\ r.snap = job[j].snap /\ r.to = to /\ r.ok = ok
        /\ r.alone = job[j].alone /\ r.at \notin CreateAt /\ job' = [Shaken(j, to) EXCEPT ![j] = r]
    BY <1>0, <1>2 DEF Shaken, RestoreJob, RestoreAt, JobRec, CreateAt
  <2>2. job'[j] = r
    BY <2>1, ShakenJobs
  <2> HIDE DEF r
  <2>3. /\ d \in DiskRec /\ d.live = disk[to].live /\ d.dir = disk[to].dir \union got
        /\ 0 \in 0 .. Len(snaps)
    <3>1. d \in DiskRec /\ d.live = disk[to].live /\ d.dir = disk[to].dir \union got
      BY <1>0, <1>2 DEF DiskRec, SnapRec
    <3> QED BY <3>1, SnapTypes
  <2>4. /\ disk' = [disk EXCEPT ![to] = d] /\ row' = [row EXCEPT ![to] = row[to]]
        /\ rules' = [rules EXCEPT ![to] = rules[to]] /\ restored' = [restored EXCEPT ![to] = 0]
        /\ UNCHANGED <<snaps, overlap, apart, cut, row, rules>>
    BY <1>0, <1>2, SnapTypes DEF ExtractDir, Disturb
  <2> HIDE DEF d
  <2>7. disk'[to] = d /\ restored'[to] = 0
    BY <2>4, SnapTypes
  <2>5. Synced(to)' /\ Held(to)'
    BY <1>0, <2>3, <2>4, <2>7 DEF Synced, Held
  <2>8. job[j].alone = TRUE /\ ok = TRUE => d.dir = SnapOf(j).dir
    BY <1>0, <1>2, <2>3 DEF PutBack
  <2>6. PutBack(j)'
    <3>1. /\ job'[j].at = "refile" /\ job'[j].to = to /\ SnapOf(j)' = SnapOf(j)
          /\ job'[j].alone = job[j].alone /\ job'[j].ok = ok
      BY <2>1, <2>2, <2>4 DEF SnapOf
    <3>2. SnapOf(j).listed = TRUE /\ (job[j].alone = TRUE /\ ok = TRUE => disk'[to].dir = SnapOf(j).dir)
      BY <1>0, <2>7, <2>8 DEF PutBack
    <3> QED BY <3>1, <3>2 DEF PutBack
  <2> QED BY <1>0, <2>1, <2>3, <2>4, <2>5, <2>6, LoudTouch
<1>3. CASE /\ disk' = [disk EXCEPT ![to].dir = @ \union SnapOf(j).dir]
           /\ job' = [Shaken(j, to) EXCEPT ![j].at = "refile"] /\ Disturb(to)
  <2>1. job' = [Shaken(j, to) EXCEPT ![j].at = "refile", ![j].ok = job[j].ok] /\ job[j].ok \in BOOLEAN
    BY <1>0, <1>3 DEF Shaken, RestoreJob
  <2> QED BY <1>2, <1>3, <2>1
<1>4. CASE /\ \E got \in SUBSET SnapOf(j).dir : disk' = [disk EXCEPT ![to].dir = @ \union got]
           /\ job' = [Shaken(j, to) EXCEPT ![j].at = "refile", ![j].ok = FALSE] /\ Disturb(to)
  BY <1>2, <1>4
<1> QED BY <1>1, <1>3, <1>4 DEF ExtractDir

LEMMA FileTouches ==
  ASSUME SnapIInv, NEW j \in SnapJobs, NEW to \in Boxes, to = job[j].to, RestoreFile(j)
  PROVE  Touches(to, {j})
<1> DEFINE add  == SnapOf(j).presets \ row[to].presets
           del  == row[to].presets \ SnapOf(j).presets
           bad  == [Shaken(j, to) EXCEPT ![j] = [at |-> "failed"]]
           good == [Shaken(j, to) EXCEPT ![j].at = "presets", ![j].add = add, ![j].del = del]
           r    == [job[j] EXCEPT !.at = "presets", !.add = add, !.del = del]
           f    == [at |-> "failed"]
<1>0. /\ job[j] \in RestoreJob(Len(snaps)) /\ job[j].at = "refile" /\ PutBack(j) /\ SnapOf(j) \in SnapRec
      /\ disk[to] \in DiskRec /\ row[to] \in RowRec /\ rules[to] \in SUBSET Offered /\ Synced(to)
      /\ restored[to] \in 0 .. Len(snaps) /\ Held(to) /\ job[j].snap \in 0 .. Len(snaps)
  <2>1. job[j].at = "refile"
    BY DEF RestoreFile, JobAt
  <2>2. job[j].snap \in 1 .. Len(snaps) /\ Len(snaps) \in Nat
    BY <2>1, RestoreKnows, SnapTypes DEF RestoreAt
  <2> QED BY <2>1, <2>2, RestoreKnows DEF RestoreAt
<1>1. /\ r \in JobRec(Len(snaps)) /\ r.at = "presets" /\ r.snap = job[j].snap /\ r.to = to /\ r.alone = job[j].alone
      /\ r.add = add /\ r.del = del /\ r.at \notin CreateAt /\ good = [Shaken(j, to) EXCEPT ![j] = r]
  <2>1. add \in SUBSET Offered /\ del \in SUBSET Offered
    BY <1>0 DEF SnapRec, RowRec
  <2> HIDE DEF add, del
  <2> QED BY <1>0, <2>1 DEF Shaken, RestoreJob, RestoreAt, JobRec, CreateAt
<1>2. /\ f \in JobRec(Len(snaps)) /\ f.at \notin CreateAt /\ "to" \notin DOMAIN f
  BY DEF JobRec, EndedJob, CreateAt
<1>3. UNCHANGED <<row, rules, snaps, overlap, apart>>
  BY DEF RestoreFile
<1> DEFINE Kept(c) == c \in {cut, cut \ {to}, cut \union {to}}
           n == IF job[j].ok /\ job[j].alone /\ disk[to].live THEN job[j].snap ELSE 0
<1> HIDE DEF r, f
<1>10. n \in 0 .. Len(snaps) /\ (n # 0 => n = job[j].snap /\ job[j].ok = TRUE /\ job[j].alone = TRUE)
  BY <1>0, SnapTypes DEF RestoreJob
<1>11. ASSUME NEW db \in Data \union {Empty}, NEW d, d = [disk[to] EXCEPT !.db = db]
       PROVE  d \in DiskRec /\ d.live = disk[to].live /\ d.dir = disk[to].dir /\ d.db = db
  BY <1>0, <1>11 DEF DiskRec
<1>12. /\ SnapOf(j).db \in Data \union {Empty} /\ disk[to].db \in Data \union {Empty}
       /\ Empty \in Data \union {Empty} /\ SnapOf(j).file \in BOOLEAN
  BY <1>0 DEF DiskRec, SnapRec
<1> HIDE DEF n
<1>4. ASSUME job' = IF job[j].ok THEN good ELSE bad, restored' = [restored EXCEPT ![to] = n],
             NEW d \in DiskRec, disk' = [disk EXCEPT ![to] = d], Kept(cut'),
             d.live = disk[to].live, d.dir = disk[to].dir,
             SnapOf(j).file = TRUE => d.db = IF to \in cut' THEN Empty ELSE SnapOf(j).db
      PROVE  Touches(to, {j})
  <2>1. disk'[to] = d /\ restored'[to] = n /\ row' = [row EXCEPT ![to] = row[to]] /\ rules' = [rules EXCEPT ![to] = rules[to]]
    BY <1>3, <1>4, SnapTypes
  <2>2. Synced(to)'
    BY <1>0, <1>3, <1>4, <2>1 DEF Synced
  <2>3. Held(to)'
    <3> SUFFICES ASSUME n # 0
                 PROVE  /\ snaps'[n].listed = TRUE
                        /\ snaps'[n].kept = TRUE => d.dir = snaps'[n].dir
                        /\ snaps'[n].file = TRUE => d.db = IF to \in cut' THEN Empty ELSE snaps'[n].db
      BY <2>1 DEF Held
    <3>1. snaps'[n] = SnapOf(j) /\ job[j].ok = TRUE /\ job[j].alone = TRUE
      BY <1>3, <1>10 DEF SnapOf
    <3>2. SnapOf(j).listed = TRUE /\ (SnapOf(j).kept = TRUE => disk[to].dir = SnapOf(j).dir)
      BY <1>0, <3>1 DEF PutBack
    <3> QED BY <1>4, <3>1, <3>2
  <2>4. CASE job[j].ok
    <3>1. job' = [Shaken(j, to) EXCEPT ![j] = r]
      BY <1>1, <1>4, <2>4
    <3>2. job'[j] = r
      BY <1>1, <3>1, ShakenJobs
    <3>3. to \notin apart => (rules[to] \ del) \union add = SnapOf(j).presets
      BY <1>0 DEF Synced
    <3>4. PutBack(j)'
      BY <1>0, <1>1, <1>3, <3>2, <3>3 DEF PutBack, SnapOf
    <3> QED BY <1>0, <1>1, <1>3, <1>4, <1>10, <2>1, <2>2, <2>3, <3>1, <3>4, LoudTouch
  <2>5. CASE ~job[j].ok
    <3>1. job' = [Shaken(j, to) EXCEPT ![j] = f]
      BY <1>4, <2>5 DEF f
    <3> QED BY <1>0, <1>2, <1>3, <1>4, <1>10, <2>1, <2>2, <2>3, <3>1, LoudTouch
  <2> QED BY <2>4, <2>5
<1> DEFINE Verdict == /\ job' = IF job[j].ok THEN good ELSE bad
                      /\ restored' = [restored EXCEPT ![to] = n]
<1>5. ASSUME Verdict, NEW db \in {SnapOf(j).db, Empty}, disk' = [disk EXCEPT ![to].db = db], Kept(cut'),
             db = IF to \in cut' THEN Empty ELSE SnapOf(j).db
      PROVE  Touches(to, {j})
  <2> DEFINE d == [disk[to] EXCEPT !.db = db]
  <2>1. /\ d \in DiskRec /\ d.live = disk[to].live /\ d.dir = disk[to].dir /\ d.db = db
        /\ disk' = [disk EXCEPT ![to] = d]
    <3>1. db \in Data \union {Empty}
      BY <1>12
    <3> QED BY <1>5, <1>11, <3>1, SnapTypes
  <2> HIDE DEF d
  <2> QED BY <1>4, <1>5, <2>1
<1>6. CASE /\ SnapOf(j).file /\ Verdict
           /\ disk' = [disk EXCEPT ![to].db = SnapOf(j).db] /\ cut' = cut \ {to}
  BY <1>5, <1>6
<1>7. CASE /\ SnapOf(j).file /\ Verdict
           /\ disk' = [disk EXCEPT ![to].db = Empty] /\ cut' = cut \union {to}
  BY <1>5, <1>7
<1>8. CASE ~SnapOf(j).file /\ UNCHANGED <<disk, cut>> /\ Verdict
  <2>1. disk' = [disk EXCEPT ![to] = disk[to]] /\ SnapOf(j).file = FALSE
    BY <1>8, <1>12, SnapTypes
  <2> QED BY <1>0, <1>4, <1>8, <2>1
<1>9. CASE /\ job' = bad /\ restored' = [restored EXCEPT ![to] = 0] /\ UNCHANGED cut
           /\ \E db \in {disk[to].db, SnapOf(j).db, Empty} : disk' = [disk EXCEPT ![to].db = db]
  <2>1. PICK db \in {disk[to].db, SnapOf(j).db, Empty} : disk' = [disk EXCEPT ![to].db = db]
    BY <1>9
  <2> DEFINE d == [disk[to] EXCEPT !.db = db]
  <2>2. d \in DiskRec /\ d.live = disk[to].live /\ disk' = [disk EXCEPT ![to] = d]
    BY <1>11, <1>12, <2>1, SnapTypes
  <2> HIDE DEF d
  <2>3. /\ disk'[to] = d /\ restored'[to] = 0 /\ 0 \in 0 .. Len(snaps)
        /\ row' = [row EXCEPT ![to] = row[to]] /\ rules' = [rules EXCEPT ![to] = rules[to]]
        /\ job' = [Shaken(j, to) EXCEPT ![j] = f]
    BY <1>3, <1>9, <2>2, SnapTypes DEF f
  <2>4. Synced(to)' /\ Held(to)'
    BY <1>0, <1>3, <2>2, <2>3 DEF Synced, Held
  <2> QED BY <1>0, <1>2, <1>3, <1>9, <2>2, <2>3, <2>4, LoudTouch
<1>13. CASE /\ SnapOf(j).file /\ job' = bad /\ UNCHANGED <<disk, restored, cut>>
  <2>1. /\ disk' = [disk EXCEPT ![to] = disk[to]] /\ restored' = [restored EXCEPT ![to] = restored[to]]
        /\ row' = [row EXCEPT ![to] = row[to]] /\ rules' = [rules EXCEPT ![to] = rules[to]]
        /\ job' = [Shaken(j, to) EXCEPT ![j] = f]
    BY <1>3, <1>13, SnapTypes DEF f
  <2>2. Synced(to)' /\ Held(to)'
    BY <1>0, <1>3, <1>13 DEF Synced, Held
  <2> QED BY <1>0, <1>2, <1>3, <1>13, <2>1, <2>2, LoudTouch
<1> QED BY <1>6, <1>7, <1>8, <1>9, <1>13 DEF RestoreFile, n

LEMMA ReconcileTouches ==
  ASSUME SnapIInv, NEW j \in SnapJobs, NEW to \in Boxes, to = job[j].to, Reconcile(j)
  PROVE  Touches(to, {j})
<1> DEFINE less == job[j].del # {}
           todo == IF less THEN job[j].del ELSE job[j].add
           With(set, p) == IF less THEN set \ {p} ELSE set \union {p}
           Told(p) == [row EXCEPT ![to].presets = IF row[to].listed THEN With(@, p) ELSE @]
           rest(p) == [job[j] EXCEPT !.del = @ \ {p}, !.add = IF less THEN @ ELSE @ \ {p}]
           told(p) == [row[to] EXCEPT !.presets = IF row[to].listed THEN With(@, p) ELSE @]
<1>0. /\ job[j] \in RestoreJob(Len(snaps)) /\ job[j].at = "presets" /\ PutBack(j)
      /\ disk[to] \in DiskRec /\ row[to] \in RowRec /\ rules[to] \in SUBSET Offered /\ Synced(to)
      /\ restored[to] \in 0 .. Len(snaps) /\ Held(to)
      /\ job[j].del \in SUBSET Offered /\ job[j].add \in SUBSET Offered
  <2>1. job[j].at = "presets"
    BY DEF Reconcile, JobAt
  <2>2. job[j] \in RestoreJob(Len(snaps))
    BY <2>1, RestoreKnows DEF RestoreAt
  <2> QED BY <2>1, <2>2, RestoreKnows DEF RestoreAt, RestoreJob
<1>1. UNCHANGED <<disk, snaps>>
  BY DEF Reconcile
<1>2. ASSUME NEW p \in todo
      PROVE  /\ rest(p) \in JobRec(Len(snaps)) /\ rest(p).at = "presets" /\ rest(p).snap = job[j].snap
             /\ rest(p).to = to /\ rest(p).alone = job[j].alone /\ rest(p).warned = job[j].warned
             /\ rest(p).del = job[j].del \ {p}
             /\ rest(p).add = (IF less THEN job[j].add ELSE job[j].add \ {p})
             /\ p \in Offered
  <2>1. rest(p) \in RestoreJob(Len(snaps))
    BY <1>0 DEF RestoreJob
  <2>2. p \in Offered
    BY <1>0, <1>2
  <2> QED BY <1>0, <2>1, <2>2 DEF RestoreJob, JobRec
<1>3. ASSUME NEW p \in todo
      PROVE  /\ told(p) \in RowRec /\ told(p).listed = row[to].listed /\ Told(p) = [row EXCEPT ![to] = told(p)]
             /\ row[to].listed = TRUE => told(p).presets = With(row[to].presets, p)
             /\ row[to].listed = FALSE => told(p).presets = row[to].presets
             /\ With(rules[to], p) \in SUBSET Offered
  <2>1. p \in Offered
    BY <1>2, <1>3
  <2>2. told(p) \in RowRec /\ told(p).listed = row[to].listed
    BY <1>0, <2>1 DEF RowRec
  <2>3. Told(p) = [row EXCEPT ![to] = told(p)]
    BY <1>0, SnapTypes
  <2>4. /\ row[to].listed = TRUE => told(p).presets = With(row[to].presets, p)
        /\ row[to].listed = FALSE => told(p).presets = row[to].presets
    BY <1>0 DEF RowRec
  <2>5. With(rules[to], p) \in SUBSET Offered
    BY <1>0, <2>1
  <2> QED BY <2>2, <2>3, <2>4, <2>5
<1> HIDE DEF rest, told, Told
<1>4. ASSUME NEW p \in todo, NEW q \in SUBSET Offered, disk[to].live = TRUE,
             rules' = [rules EXCEPT ![to] = q], row' = Told(p),
             job' = [Shaken(j, to) EXCEPT ![j] = rest(p)], UNCHANGED <<restored, overlap, cut>>,
             apart \subseteq apart', apart' \subseteq apart \union {to}, to \notin apart' => q = With(rules[to], p)
      PROVE  Touches(to, {j})
  <2>1. disk' = [disk EXCEPT ![to] = disk[to]] /\ restored' = [restored EXCEPT ![to] = restored[to]]
        /\ rules'[to] = q /\ row' = [row EXCEPT ![to] = told(p)] /\ row'[to] = told(p)
    <3>1. Told(p) = [row EXCEPT ![to] = told(p)]
      BY <1>3, <1>4
    <3> QED BY <1>1, <1>4, <3>1, SnapTypes
  <2>7. /\ told(p) \in RowRec /\ told(p).listed = row[to].listed
        /\ row[to].listed = TRUE => told(p).presets = With(row[to].presets, p)
    BY <1>3, <1>4
  <2>8. /\ rest(p).at = "presets" /\ rest(p).snap = job[j].snap /\ rest(p).to = to
        /\ rest(p).alone = job[j].alone /\ rest(p).warned = job[j].warned
        /\ rest(p).del = job[j].del \ {p}
        /\ rest(p).add = (IF less THEN job[j].add ELSE job[j].add \ {p})
    BY <1>2, <1>4
  <2> HIDE DEF With
  <2>2. Synced(to)' /\ Held(to)'
    <3>1. disk'[to] = disk[to] /\ row[to].listed = TRUE
      BY <1>0, <1>1, <1>4 DEF Synced
    <3>2. Synced(to)'
      BY <1>0, <1>4, <2>1, <2>7, <3>1 DEF Synced
    <3>3. Held(to)'
      BY <1>0, <1>1, <1>4, <3>1 DEF Held
    <3> QED BY <3>2, <3>3
  <2>3. rest(p) \in JobRec(Len(snaps)) /\ rest(p).at \notin CreateAt
    BY <1>2, <1>4 DEF CreateAt
  <2>4. job'[j] = rest(p)
    BY <1>4, <2>3, ShakenJobs
  <2>5. (With(rules[to], p) \ (job[j].del \ {p})) \union (IF less THEN job[j].add ELSE job[j].add \ {p})
          = (rules[to] \ job[j].del) \union job[j].add
    <3>1. CASE less
      BY <1>4, <3>1 DEF With
    <3>2. CASE ~less
      BY <1>4, <3>2 DEF With
    <3> QED BY <3>1, <3>2
  <2>6. PutBack(j)'
    <3>1. SnapOf(j)' = SnapOf(j)
      BY <1>1, <2>4, <2>8 DEF SnapOf
    <3>2. to \notin apart' /\ job[j].alone = TRUE /\ job[j].warned = FALSE
            => (rules'[to] \ rest(p).del) \union rest(p).add = SnapOf(j).presets
      BY <1>0, <1>4, <2>1, <2>5, <2>8 DEF PutBack
    <3> QED BY <1>0, <2>4, <2>8, <3>1, <3>2 DEF PutBack
  <2> QED BY <1>0, <1>1, <1>4, <2>1, <2>2, <2>3, <2>6, <2>7, LoudTouch
<1>5. CASE \E p \in todo :
          /\ disk[to].live /\ (less => p \in rules[to])
          /\ rules' = [rules EXCEPT ![to] = With(@, p)] /\ row' = Told(p)
          /\ job' = [Shaken(j, to) EXCEPT ![j] = rest(p)]
          /\ Sane /\ KeepHistory
  <2>1. PICK p \in todo : /\ disk[to].live /\ rules' = [rules EXCEPT ![to] = With(rules[to], p)] /\ row' = Told(p)
                          /\ job' = [Shaken(j, to) EXCEPT ![j] = rest(p)] /\ KeepHistory
    BY <1>5, SnapTypes
  <2>2. disk[to].live = TRUE /\ UNCHANGED <<restored, overlap, apart, cut>>
    BY <1>0, <2>1 DEF DiskRec, KeepHistory
  <2>3. With(rules[to], p) \in SUBSET Offered
    BY <1>3
  <2> HIDE DEF With
  <2> QED BY <1>4, <2>1, <2>2, <2>3
<1>6. CASE \E p \in todo :
          /\ disk[to].live /\ ~less /\ Faulty
          /\ rules' = [rules EXCEPT ![to] = {p}] /\ row' = Told(p)
          /\ job' = [Shaken(j, to) EXCEPT ![j] = rest(p)]
          /\ apart' = apart \union {to} /\ UNCHANGED <<restored, overlap, cut>>
  <2>1. PICK p \in todo : /\ disk[to].live /\ rules' = [rules EXCEPT ![to] = {p}] /\ row' = Told(p)
                          /\ job' = [Shaken(j, to) EXCEPT ![j] = rest(p)]
                          /\ apart' = apart \union {to} /\ UNCHANGED <<restored, overlap, cut>>
    BY <1>6
  <2>2. disk[to].live = TRUE
    BY <1>0, <2>1 DEF DiskRec
  <2>3. {p} \in SUBSET Offered
    BY <1>2
  <2> QED BY <1>4, <2>1, <2>2, <2>3
<1>7. CASE \E p \in todo :
          /\ less /\ job' = [job EXCEPT ![j] = [rest(p) EXCEPT !.warned = TRUE]]
          /\ IF disk[to].live /\ p \in rules[to] THEN Faulty ELSE Sane
          /\ KeepHistory /\ UNCHANGED <<row, rules>>
  <2>1. PICK p \in todo : job' = [job EXCEPT ![j] = [rest(p) EXCEPT !.warned = TRUE]] /\ KeepHistory /\ UNCHANGED <<row, rules>>
    BY <1>7
  <2> DEFINE r == [rest(p) EXCEPT !.warned = TRUE]
  <2>2. rest(p) \in RestoreJob(Len(snaps))
    BY <1>0, <2>1 DEF rest, RestoreJob
  <2>3. r \in RestoreJob(Len(snaps)) /\ r.warned = TRUE /\ r.at = "presets" /\ r.snap = job[j].snap
    BY <1>2, <2>2 DEF RestoreJob
  <2>4. r \in JobRec(Len(snaps)) /\ r.at \notin CreateAt
    BY <2>3 DEF JobRec, CreateAt
  <2> HIDE DEF r
  <2>5. job' = [job EXCEPT ![j] = r] /\ UNCHANGED <<snaps, overlap, disk, row, rules, restored, apart, cut>>
    BY <1>1, <2>1 DEF KeepHistory, r
  <2>6. job'[j] = r
    BY <2>4, <2>5, OwnJob
  <2>7. PutBack(j)'
    BY <1>0, <2>3, <2>5, <2>6 DEF PutBack, SnapOf
  <2> QED BY <2>4, <2>5, <2>7, QuietTouch
<1>8. CASE Ends(j, "failed") /\ KeepHistory /\ UNCHANGED <<row, rules>>
  BY <1>1, <1>8, EndsTouch DEF KeepHistory
<1>9. CASE \E p \in todo :
          /\ disk[to].live /\ (less => p \in rules[to]) /\ Faulty
          /\ rules' = [rules EXCEPT ![to] = With(@, p)] /\ Ends(j, "failed")
          /\ apart' = apart \union {to} /\ UNCHANGED <<row, restored, overlap, cut>>
  <2>1. PICK p \in todo : /\ disk[to].live /\ rules' = [rules EXCEPT ![to] = With(rules[to], p)] /\ Ends(j, "failed")
                          /\ apart' = apart \union {to} /\ UNCHANGED <<row, restored, overlap, cut>>
    BY <1>9, SnapTypes
  <2>2. With(rules[to], p) \in SUBSET Offered
    BY <1>3
  <2> HIDE DEF With
  <2>3. /\ rules' \in [Boxes -> SUBSET Offered] /\ \A x \in Boxes : x # to => rules'[x] = rules[x]
        /\ disk[to].live = TRUE
    BY <1>0, <2>1, <2>2, SnapTypes DEF DiskRec
  <2>4. Synced(to)' /\ Held(to)'
    BY <1>0, <1>1, <2>1, <2>3 DEF Synced, Held
  <2>5. /\ job' \in [SnapJobs -> JobRec(Len(snaps))] /\ job'[j] = [at |-> "failed"]
        /\ \A i \in SnapJobs \ {j} : job'[i] = job[i]
    <3>1. [at |-> "failed"] \in JobRec(Len(snaps))
      BY DEF JobRec, EndedJob
    <3> QED BY <2>1, <3>1, OwnJob DEF Ends
  <2>6. "to" \notin DOMAIN job'[j] /\ job'[j].at \notin CreateAt
    BY <2>5 DEF CreateAt
  <2> QED BY <1>1, <2>1, <2>3, <2>4, <2>5, <2>6, SnapTypes DEF Touches
<1>10. CASE todo = {} /\ JobTo(j, "done") /\ KeepHistory /\ UNCHANGED <<row, rules>>
  <2> DEFINE r == [job[j] EXCEPT !.at = "done"]
  <2>1. r \in RestoreJob(Len(snaps)) /\ r.at = "done" /\ r.snap = job[j].snap /\ r.to = to
        /\ r.alone = job[j].alone /\ r.warned = job[j].warned /\ r.del = job[j].del /\ r.add = job[j].add
    BY <1>0 DEF RestoreJob, RestoreAt
  <2>2. r \in JobRec(Len(snaps)) /\ r.at \notin CreateAt /\ job[j].del = {} /\ job[j].add = {}
    BY <1>10, <2>1 DEF JobRec, CreateAt
  <2>3. job' = [job EXCEPT ![j] = r] /\ UNCHANGED <<snaps, overlap, disk, row, rules, restored, apart, cut>>
    BY <1>1, <1>10 DEF KeepHistory, JobTo
  <2> HIDE DEF r
  <2>4. job'[j] = r
    BY <2>2, <2>3, OwnJob
  <2>5. PutBack(j)'
    BY <1>0, <2>1, <2>2, <2>3, <2>4 DEF PutBack, SnapOf
  <2> QED BY <2>2, <2>3, <2>5, QuietTouch
<1> QED BY <1>5, <1>6, <1>7, <1>8, <1>9, <1>10 DEF Reconcile, rest, Told

LEMMA DiesTouches ==
  ASSUME SnapIInv, NEW j \in SnapJobs, JobDies(j), job[j].at \notin CreateAt
  PROVE  \E b \in Boxes : Touches(b, {j})
<1>1. job[j].at \in RestoreAt \ {"done"}
  <2>1. job[j] \in JobRec(Len(snaps)) /\ job[j].at \notin {"idle", "done", "failed", "refused"}
    BY SnapTypes DEF JobDies
  <2> QED BY <2>1 DEF JobRec, EndedJob, CreateJob, RestoreJob, RestoreAt
<1>2. job[j].to \in Boxes
  BY <1>1, RestoreKnows
<1> QED BY <1>2, EndsTouch DEF JobDies, Reads, outsideSnap, KeepHistory

(* A selector finds a snapshot that is listed.                             *)
LEMMA SelectionsListed ==
  ASSUME NEW b \in Boxes, NEW sel \in Selections(b), sel # {}
  PROVE  (CHOOSE s \in sel : TRUE) \in Listed(b)
<1>1. sel \subseteq Listed(b)
  BY DEF Selections, Latest, ByTag, ByStamp
<1> QED BY <1>1

LEMMA RestoreTouches ==
  ASSUME SnapIInv, NEW j \in SnapJobs, SnapRestore(j)
  PROVE  \E b \in Boxes : Touches(b, {j})
<1>0. PICK b \in Boxes, to \in Boxes, force \in BOOLEAN, image \in BOOLEAN :
        \E sel \in Selections(b) :
          LET next == Preflight(b, to, sel, force, image) IN
          job' = [job EXCEPT ![j] = IF next = "refused" THEN [at |-> next]
                                    ELSE Restoring(b, to, CHOOSE s \in sel : TRUE, next)]
  BY DEF SnapRestore
<1>1. PICK sel \in Selections(b) :
        LET next == Preflight(b, to, sel, force, image) IN
        job' = [job EXCEPT ![j] = IF next = "refused" THEN [at |-> next]
                                  ELSE Restoring(b, to, CHOOSE s \in sel : TRUE, next)]
  BY <1>0
<1>2. UNCHANGED <<snaps, overlap, disk, row, rules, restored, apart, cut>>
  BY DEF SnapRestore, Reads, outsideSnap, KeepHistory
<1> DEFINE next == Preflight(b, to, sel, force, image)
           s    == CHOOSE s \in sel : TRUE
           r    == Restoring(b, to, s, next)
<1>3. CASE next = "refused"
  BY <1>1, <1>2, <1>3, EndsTouch DEF Ends
<1>4. CASE next # "refused"
  <2>1. sel # {} /\ next \in {"delete", "clone", "clean"}
    BY <1>4 DEF Preflight
  <2>2. s \in Listed(b)
    BY <2>1, SelectionsListed
  <2>3. s \in 1 .. Len(snaps) /\ snaps[s] \in SnapRec /\ snaps[s].listed = TRUE
    <3>1. s \in 1 .. Len(snaps)
      BY <2>2, SnapTypes DEF Listed
    <3>2. snaps[s] \in SnapRec
      BY <3>1, SnapTypes
    <3> QED BY <2>2, <3>1, <3>2 DEF Listed, SnapRec
  <2> HIDE DEF s, next
  <2>4. r \in RestoreJob(Len(snaps)) /\ r.at = next /\ r.snap = s
    BY <2>1, <2>3 DEF Restoring, RestoreJob, RestoreAt
  <2>5. job' = [job EXCEPT ![j] = r]
    BY <1>1, <1>4 DEF s, next
  <2> HIDE DEF r
  <2>6. r \in JobRec(Len(snaps)) /\ r.at \notin CreateAt
    BY <2>1, <2>4 DEF JobRec, CreateAt
  <2>7. job'[j] = r
    BY <2>5, <2>6, OwnJob
  <2>8. PutBack(j)'
    BY <1>2, <2>1, <2>3, <2>4, <2>7 DEF PutBack, SnapOf
  <2> QED BY <1>2, <2>5, <2>6, <2>8, QuietTouch
<1> QED BY <1>3, <1>4

LEMMA EditTouches ==
  ASSUME SnapIInv, NEW b \in Boxes, Edit(b)
  PROVE  Touches(b, {})
<1>0. /\ disk[b] \in DiskRec /\ row[b] \in RowRec /\ rules[b] \in SUBSET Offered /\ Synced(b) /\ disk[b].live = TRUE
  BY SnapTypes DEF SnapIInv, SyncIn, Edit, DiskRec
<1>1. ASSUME NEW i \in SnapJobs
      PROVE  /\ job'[i] \in JobRec(Len(snaps))
             /\ Mutes(i) \/ (job'[i] = job[i] /\ ~("to" \in DOMAIN job[i] /\ job[i].to = b))
  <2>1. job'[i] = IF "to" \in DOMAIN job[i] /\ job[i].to = b THEN [job[i] EXCEPT !.alone = FALSE] ELSE job[i]
    BY DEF Edit
  <2>2. CASE "to" \in DOMAIN job[i] /\ job[i].to = b
    <3>1. Mutes(i)
      BY <2>1, <2>2 DEF Mutes
    <3> QED BY <3>1, MutedJob DEF JobRec
  <2>3. CASE ~("to" \in DOMAIN job[i] /\ job[i].to = b)
    BY <2>1, <2>3, SnapTypes
  <2> QED BY <2>2, <2>3
<1>2. job' \in [SnapJobs -> JobRec(Len(snaps))]
  <2>1. job' = [i \in SnapJobs |-> job'[i]]
    BY DEF Edit
  <2> QED BY <1>1, <2>1
<1>3. UNCHANGED <<snaps, overlap, apart, cut>> /\ restored' = [restored EXCEPT ![b] = 0]
  BY DEF Edit, Disturb
<1>4. restored' \in [Boxes -> 0 .. Len(snaps)] /\ restored'[b] = 0 /\ \A x \in Boxes : x # b => restored'[x] = restored[x]
  BY <1>3, SnapTypes
<1>5. ASSUME NEW d \in DiskRec, d.live = TRUE, disk' = [disk EXCEPT ![b] = d], UNCHANGED <<row, rules>>
      PROVE  Touches(b, {})
  <2>1. disk' \in [Boxes -> DiskRec] /\ disk'[b] = d /\ \A x \in Boxes : x # b => disk'[x] = disk[x]
    BY <1>5, SnapTypes
  <2>2. Synced(b)' /\ Held(b)'
    BY <1>0, <1>3, <1>4, <1>5, <2>1 DEF Synced, Held
  <2> QED BY <1>1, <1>2, <1>3, <1>4, <1>5, <2>1, <2>2, SnapTypes DEF Touches
<1>6. CASE \E f \in Files : disk' = [disk EXCEPT ![b].dir = IF f \in @ THEN @ \ {f} ELSE @ \union {f}] /\ UNCHANGED <<row, rules>>
  <2>1. PICK f \in Files : disk' = [disk EXCEPT ![b].dir = IF f \in @ THEN @ \ {f} ELSE @ \union {f}] /\ UNCHANGED <<row, rules>>
    BY <1>6
  <2> DEFINE d == [disk[b] EXCEPT !.dir = IF f \in @ THEN @ \ {f} ELSE @ \union {f}]
  <2>2. d \in DiskRec /\ d.live = TRUE
    BY <1>0 DEF DiskRec
  <2>3. disk' = [disk EXCEPT ![b] = d]
    BY <2>1, SnapTypes
  <2> HIDE DEF d
  <2> QED BY <1>5, <2>1, <2>2, <2>3
<1>7. CASE \E v \in Data \ {disk[b].db} : disk' = [disk EXCEPT ![b].db = v] /\ UNCHANGED <<row, rules>>
  <2>1. PICK v \in Data : disk' = [disk EXCEPT ![b].db = v] /\ UNCHANGED <<row, rules>>
    BY <1>7
  <2> DEFINE d == [disk[b] EXCEPT !.db = v]
  <2>2. d \in DiskRec /\ d.live = TRUE
    BY <1>0 DEF DiskRec
  <2>3. disk' = [disk EXCEPT ![b] = d]
    BY <2>1, SnapTypes
  <2> HIDE DEF d
  <2> QED BY <1>5, <2>1, <2>2, <2>3
<1>8. ASSUME NEW p \in Offered, row[b].listed, UNCHANGED disk,
             rules' = [rules EXCEPT ![b] = rules[b] \union {p}],
             row' = [row EXCEPT ![b].presets = rules[b] \union {p}]
      PROVE  Touches(b, {})
  <2> DEFINE on == rules[b] \union {p}
             e  == [row[b] EXCEPT !.presets = on]
  <2>1. on \in SUBSET Offered
    BY <1>0, <1>8
  <2>2. e \in RowRec /\ e.listed = row[b].listed /\ e.presets = on
    BY <1>0, <2>1 DEF RowRec
  <2>3. row' = [row EXCEPT ![b] = e] /\ rules' = [rules EXCEPT ![b] = on]
    BY <1>8, SnapTypes
  <2> HIDE DEF on, e
  <2>4. /\ row' \in [Boxes -> RowRec] /\ rules' \in [Boxes -> SUBSET Offered] /\ row'[b] = e /\ rules'[b] = on
        /\ \A x \in Boxes : x # b => row'[x] = row[x] /\ rules'[x] = rules[x]
    BY <2>1, <2>2, <2>3, SnapTypes
  <2>5. Synced(b)' /\ Held(b)'
    BY <1>0, <1>3, <1>4, <1>8, <2>2, <2>4 DEF Synced, Held
  <2> QED BY <1>1, <1>2, <1>3, <1>4, <1>8, <2>4, <2>5, SnapTypes DEF Touches
<1> QED BY <1>6, <1>7, <1>8 DEF Edit

(* A creation begins: the last snapshot, with a name that is free.         *)
LEMMA BeginKeeps ==
  ASSUME SnapIInv, NEW j \in SnapJobs, NEW b \in Boxes, NEW tag \in Tags \union {NoTag}, ~Taken(b, tag),
         snaps' = Append(snaps, [of |-> b, tag |-> tag, dir |-> {}, kept |-> FALSE,
                    db |-> Empty, file |-> FALSE, presets |-> row[b].presets, listed |-> FALSE,
                    whole |-> FALSE, dirThen |-> {}]),
         job' = [job EXCEPT ![j] = [at |-> "dirs", snap |-> Len(snaps) + 1, ok |-> TRUE]],
         overlap' = (overlap \/ \E i \in SnapJobs : Creating(i)),
         UNCHANGED <<disk, row, rules, restored, apart, cut>>
  PROVE  WorldIn' /\ SnapIn' /\ JobIn' /\ FillIn' /\ TurnIn' /\ NamesIn' /\ SyncIn' /\ PutBackIn' /\ HeldIn'
<1> DEFINE n == Len(snaps) + 1
           s == [of |-> b, tag |-> tag, dir |-> {}, kept |-> FALSE, db |-> Empty, file |-> FALSE,
                 presets |-> row[b].presets, listed |-> FALSE, whole |-> FALSE, dirThen |-> {}]
           r == [at |-> "dirs", snap |-> Len(snaps) + 1, ok |-> TRUE]
<1>1. s \in SnapRec /\ s.of = b /\ s.tag = tag /\ s.listed = FALSE /\ s.kept = FALSE /\ s.whole = FALSE
  BY SnapTypes DEF SnapRec, RowRec
<1>2. r \in CreateJob(n) /\ r.at = "dirs" /\ r.snap = n /\ "to" \notin DOMAIN r
  BY SnapTypes DEF CreateJob, CreateAt
<1> HIDE DEF s, r
<1>3. /\ snaps' \in Seq(SnapRec) /\ Len(snaps') = n /\ snaps'[n] = s /\ n \in Nat /\ Len(snaps) \in Nat
      /\ \A t \in 1 .. Len(snaps) : snaps'[t] = snaps[t]
  BY <1>1, SnapTypes DEF s
<1>4. 1 .. n = 1 .. Len(snaps) \union {n} /\ n \notin 1 .. Len(snaps)
  BY <1>3
<1>5. job' = [job EXCEPT ![j] = r] /\ job'[j] = r /\ \A i \in SnapJobs : i # j => job'[i] = job[i]
  BY SnapTypes DEF r
<1> HIDE DEF n
<1>6. JobIn'
  <2>1. JobRec(Len(snaps)) \subseteq JobRec(n)
    BY <1>4 DEF JobRec, CreateJob, RestoreJob
  <2>2. r \in JobRec(n)
    BY <1>2 DEF JobRec
  <2> QED BY <1>3, <1>5, <2>1, <2>2, SnapTypes DEF JobIn
<1>7. SnapIn'
  <2>1. ASSUME NEW t \in 1 .. n
        PROVE  /\ Same(snaps'[t])
               /\ snaps'[t].whole = TRUE => snaps'[t].listed = TRUE /\ snaps'[t].kept = TRUE
    <3>1. CASE t = n
      BY <1>1, <1>3, <3>1 DEF Same
    <3>2. CASE t \in 1 .. Len(snaps)
      BY <1>3, <3>2, SnapKept
    <3> QED BY <1>4, <3>1, <3>2
  <2> QED BY <1>3, <2>1 DEF SnapIn
<1>8. ASSUME NEW i \in SnapJobs, i # j, job[i].at \in CreateAt
      PROVE  job[i].snap \in 1 .. Len(snaps) /\ SnapOf(i)' = SnapOf(i) /\ job'[i] = job[i]
  BY <1>3, <1>5, <1>8, JobKinds DEF CreateJob, SnapOf
<1>9. FillIn'
  <2>1. ASSUME NEW i \in SnapJobs, job'[i].at \in CreateAt
        PROVE  /\ SnapOf(i)'.listed = FALSE
               /\ job'[i].at = "dirs" => SnapOf(i)'.kept = FALSE
               /\ job'[i].at # "dirs" /\ job'[i].ok = TRUE => SnapOf(i)'.kept = TRUE
    <3>1. CASE i = j
      BY <1>1, <1>2, <1>3, <1>5, <3>1 DEF SnapOf
    <3>2. CASE i # j
      BY <1>5, <1>8, <2>1, <3>2 DEF SnapIInv, FillIn
    <3> QED BY <3>1, <3>2
  <2>2. ASSUME NEW i \in SnapJobs, NEW k \in SnapJobs, job'[i].at \in CreateAt, job'[k].at \in CreateAt,
               job'[i].snap = job'[k].snap
        PROVE  i = k
    BY <1>2, <1>4, <1>5, <1>8, <2>2 DEF SnapIInv, FillIn
  <2> QED BY <2>1, <2>2 DEF FillIn
<1>10. TurnIn'
  <2> SUFFICES ASSUME overlap' = FALSE PROVE TurnIn'
    BY DEF TurnIn
  <2>1. \A i \in SnapJobs : job[i].at \notin CreateAt
    BY DEF Creating, CreateAt
  <2>2. ASSUME NEW i \in SnapJobs, job'[i].at \in CreateAt PROVE i = j /\ job'[i].snap = n /\ SnapOf(i)' = s
    BY <1>2, <1>3, <1>5, <2>1, <2>2 DEF SnapOf
  <2>3. ASSUME tag # NoTag, NEW t \in 1 .. n, snaps'[t].of = b, snaps'[t].listed = TRUE PROVE snaps'[t].tag # tag
    <3>1. t \in 1 .. Len(snaps)
      BY <1>1, <1>3, <1>4, <2>3
    <3> QED BY <1>3, <2>3, <3>1, SnapTypes DEF Taken, Listed
  <2>4. ASSUME NEW i \in SnapJobs, job'[i].at \in CreateAt
        PROVE  /\ job'[i].snap = Len(snaps')
               /\ SnapOf(i)'.tag # NoTag =>
                    \A t \in 1 .. Len(snaps') : snaps'[t].of = SnapOf(i)'.of /\ snaps'[t].listed = TRUE
                      => snaps'[t].tag # SnapOf(i)'.tag
    <3>1. job'[i].snap = n /\ SnapOf(i)' = s
      BY <2>2, <2>4
    <3>2. tag # NoTag => \A t \in 1 .. n : snaps'[t].of = b /\ snaps'[t].listed = TRUE => snaps'[t].tag # tag
      BY <2>3
    <3> QED BY <1>1, <1>3, <3>1, <3>2
  <2>5. \A i, k \in SnapJobs : job'[i].at \in CreateAt /\ job'[k].at \in CreateAt => i = k
    BY <2>2
  <2> QED BY <2>4, <2>5 DEF TurnIn
<1>11. NamesIn'
  <2> SUFFICES ASSUME overlap' = FALSE, NEW t \in 1 .. n, NEW u \in 1 .. n,
                      snaps'[t].listed = TRUE, snaps'[u].listed = TRUE, snaps'[t].of = snaps'[u].of,
                      snaps'[t].tag = snaps'[u].tag, t # u, snaps'[t].tag # NoTag
               PROVE  FALSE
    BY <1>3 DEF NamesIn
  <2>1. t \in 1 .. Len(snaps) /\ u \in 1 .. Len(snaps)
    BY <1>1, <1>3, <1>4
  <2>2. overlap = FALSE
    BY SnapTypes
  <2> QED BY <1>3, <2>1, <2>2 DEF NamesIn, SnapIInv
<1>12. SyncIn'
  BY DEF SyncIn, SnapIInv, Synced
<1>13. PutBackIn'
  <2>1. ASSUME NEW i \in SnapJobs, "to" \in DOMAIN job'[i] PROVE PutBack(i)'
    <3>1. i # j /\ job'[i] = job[i] /\ "to" \in DOMAIN job[i]
      BY <1>2, <1>5, <2>1
    <3>2. job[i].snap \in 1 .. Len(snaps) /\ PutBack(i)
      BY <3>1, JobKinds DEF SnapIInv, PutBackIn, RestoreJob
    <3>3. SnapOf(i)' = SnapOf(i)
      BY <1>3, <3>1, <3>2 DEF SnapOf
    <3> QED BY <3>1, <3>2, <3>3 DEF PutBack
  <2> QED BY <2>1 DEF PutBackIn
<1>14. HeldIn'
  <2>1. ASSUME NEW x \in Boxes PROVE Held(x)'
    <3>1. restored[x] \in 0 .. Len(snaps) /\ Held(x)
      BY SnapTypes DEF SnapIInv, HeldIn
    <3>2. restored[x] # 0 => restored[x] \in 1 .. Len(snaps)
      BY <1>3, <3>1
    <3> QED BY <1>3, <3>1, <3>2 DEF Held
  <2> QED BY <2>1 DEF HeldIn
<1>15. WorldIn'
  <2>1. 0 .. Len(snaps) \subseteq 0 .. n
    BY <1>3 DEF n
  <2>2. overlap' \in BOOLEAN
    OBVIOUS
  <2> QED BY <1>3, <2>1, <2>2, SnapTypes DEF WorldIn
<1> QED BY <1>6, <1>7, <1>9, <1>10, <1>11, <1>12, <1>13, <1>14, <1>15
-----------------------------------------------------------------------------
(* The steps together.                                                     *)

LEMMA SnapCreateKeeps ==
  ASSUME SnapIInv, NEW j \in SnapJobs, SnapCreate(j)
  PROVE  WorldIn' /\ SnapIn' /\ JobIn' /\ FillIn' /\ TurnIn' /\ NamesIn' /\ SyncIn' /\ PutBackIn' /\ HeldIn'
<1>1. PICK b \in Boxes, tag \in Tags \union {NoTag} :
        IF disk[b].live /\ row[b].listed /\ ~Taken(b, tag)
        THEN /\ snaps' = Append(snaps, [of |-> b, tag |-> tag, dir |-> {}, kept |-> FALSE,
                   db |-> Empty, file |-> FALSE, presets |-> row[b].presets, listed |-> FALSE,
                   whole |-> FALSE, dirThen |-> {}])
             /\ job' = [job EXCEPT ![j] = [at |-> "dirs", snap |-> Len(snaps) + 1, ok |-> TRUE]]
             /\ overlap' = (overlap \/ \E i \in SnapJobs : Creating(i))
        ELSE Ends(j, "refused") /\ UNCHANGED <<snaps, overlap>>
  BY DEF SnapCreate
<1>2. UNCHANGED <<disk, row, rules, restored, apart, cut>>
  BY DEF SnapCreate, Reads, outsideSnap
<1>3. CASE disk[b].live /\ row[b].listed /\ ~Taken(b, tag)
  BY <1>1, <1>2, <1>3, BeginKeeps
<1>4. CASE ~(disk[b].live /\ row[b].listed /\ ~Taken(b, tag))
  <2>1. Touches(b, {j})
    BY <1>1, <1>2, <1>4, EndsTouch
  <2> QED BY <2>1, TouchKeeps
<1> QED BY <1>3, <1>4

LEMMA SnapStepKinds ==
  ASSUME SnapIInv, NEW j \in SnapJobs, SnapSteps(j) \/ JobDies(j)
  PROVE  Fills(j) \/ \E b \in Boxes : Touches(b, {j})
<1>1. CASE BackupDirs(j) \/ BackupFile(j) \/ WriteManifest(j)
  BY <1>1, DirsFills, FileFills, ManifestFills
<1>2. CASE DeleteTarget(j) \/ CloneSource(j) \/ CleanTarget(j) \/ ExtractDir(j) \/ RestoreFile(j) \/ Reconcile(j)
  <2>1. job[j].at \in RestoreAt \ {"done"}
    BY <1>2 DEF DeleteTarget, CloneSource, CleanTarget, ExtractDir, RestoreFile, Reconcile, JobAt, RestoreAt
  <2>2. job[j].to \in Boxes
    BY <2>1, RestoreKnows
  <2> QED BY <1>2, <2>2, DeleteTouches, CloneTouches, CleanTouches, ExtractTouches, FileTouches, ReconcileTouches
<1>3. CASE JobDies(j)
  BY <1>3, DiesFills, DiesTouches
<1> QED BY <1>1, <1>2, <1>3 DEF SnapSteps

LEMMA SnapCounts ==
  ASSUME SnapIInv, SnapNext
  PROVE  CountIn'
<1>0. /\ snapCmds \in 0 .. MaxSnapCmds /\ edits \in 0 .. MaxEdits /\ snapFaults \in 0 .. MaxSnapFaults
      /\ MaxSnapCmds \in Nat /\ MaxEdits \in Nat /\ MaxSnapFaults \in Nat
  BY SnapBounds DEF SnapIInv, CountIn
<1>1. ASSUME NEW j \in SnapJobs, SnapCreate(j) \/ SnapRestore(j) PROVE CountIn'
  BY <1>0, <1>1 DEF SnapCreate, SnapRestore, CountIn
<1>2. ASSUME NEW j \in SnapJobs, SnapSteps(j) \/ JobDies(j) PROVE CountIn'
  <2>1. Sane \/ Faulty
    BY <1>2 DEF SnapSteps, JobDies, BackupDirs, BackupFile, WriteManifest, DeleteTarget, CloneSource,
                CleanTarget, ExtractDir, RestoreFile, Reconcile
  <2> QED BY <1>0, <2>1 DEF Sane, Faulty, CountIn
<1>3. ASSUME NEW b \in Boxes, Edit(b) PROVE CountIn'
  BY <1>0, <1>3 DEF Edit, CountIn
<1> QED BY <1>1, <1>2, <1>3 DEF SnapNext

LEMMA SnapStep == SnapIInv /\ [SnapNext]_snapVars => SnapIInv'
<1> SUFFICES ASSUME SnapIInv, [SnapNext]_snapVars PROVE SnapIInv'
  OBVIOUS
<1>1. ASSUME NEW j \in SnapJobs, Fills(j), SnapNext PROVE SnapIInv'
  BY <1>1, FillsKeeps, SnapCounts DEF SnapIInv
<1>2. ASSUME NEW b \in Boxes, NEW K \in SUBSET SnapJobs, Touches(b, K), SnapNext PROVE SnapIInv'
  BY <1>2, TouchKeeps, SnapCounts DEF SnapIInv
<1>3. ASSUME NEW j \in SnapJobs, SnapCreate(j), SnapNext PROVE SnapIInv'
  BY <1>3, SnapCreateKeeps, SnapCounts DEF SnapIInv
<1>4. ASSUME NEW j \in SnapJobs, SnapRestore(j) \/ SnapSteps(j) \/ JobDies(j), SnapNext PROVE SnapIInv'
  BY <1>1, <1>2, <1>4, RestoreTouches, SnapStepKinds
<1>5. ASSUME NEW b \in Boxes, Edit(b), SnapNext PROVE SnapIInv'
  BY <1>2, <1>5, EditTouches
<1>6. CASE UNCHANGED snapVars
  BY <1>6 DEF snapVars, SnapIInv, WorldIn, CountIn, SnapIn, JobIn, FillIn, TurnIn, NamesIn, SyncIn, PutBackIn,
              HeldIn, Synced, PutBack, Held, SnapOf
<1> QED BY <1>3, <1>4, <1>5, <1>6 DEF SnapNext

LEMMA SnapStart == SnapInit => SnapIInv
<1> SUFFICES ASSUME SnapInit PROVE SnapIInv
  OBVIOUS
<1>1. PICK b \in Boxes, others \in BOOLEAN :
       /\ disk = [x \in Boxes |-> IF x = b THEN [live |-> TRUE, dir |-> Files, db |-> CHOOSE d \in Data : TRUE]
                                  ELSE [NoDisk EXCEPT !.live = others]]
       /\ row = [x \in Boxes |-> IF x = b THEN [listed |-> TRUE, presets |-> {}]
                                 ELSE [NoRow EXCEPT !.listed = others]]
       /\ rules = [x \in Boxes |-> {}]
  BY DEF SnapInit
<1>2. /\ snaps = <<>> /\ job = [j \in SnapJobs |-> NoJob]
      /\ restored = [x \in Boxes |-> 0] /\ overlap = FALSE /\ apart = {} /\ cut = {}
      /\ snapCmds = 0 /\ edits = 0 /\ snapFaults = 0
  BY DEF SnapInit
<1>3. ASSUME NEW x \in Boxes
      PROVE  /\ disk[x] \in DiskRec /\ row[x] \in RowRec /\ disk[x].live = row[x].listed
             /\ row[x].presets = {} /\ rules[x] = {}
  <2>1. CASE x = b
    BY <1>1, <2>1, SnapBounds DEF DiskRec, RowRec
  <2>2. CASE x # b
    BY <1>1, <2>2 DEF DiskRec, RowRec, NoDisk, NoRow
  <2> QED BY <2>1, <2>2
<1>4. SyncIn /\ HeldIn
  BY <1>2, <1>3 DEF SyncIn, HeldIn, Synced, Held
<1>5. Len(snaps) = 0 /\ snaps \in Seq(SnapRec)
  BY <1>2
<1>6. WorldIn
  <2>1. disk = [x \in Boxes |-> disk[x]] /\ row = [x \in Boxes |-> row[x]]
    BY <1>1
  <2>2. rules \in [Boxes -> SUBSET Offered] /\ restored \in [Boxes -> 0 .. Len(snaps)]
    BY <1>1, <1>2, <1>5
  <2> QED BY <1>2, <1>3, <2>1, <2>2 DEF WorldIn
<1>7. CountIn
  BY <1>2, SnapBounds DEF CountIn
<1>8. \A j \in SnapJobs : job[j] \in EndedJob /\ job[j].at \notin CreateAt /\ "to" \notin DOMAIN job[j]
  BY <1>2 DEF NoJob, EndedJob, CreateAt
<1>9. SnapIn /\ JobIn /\ FillIn /\ TurnIn /\ NamesIn /\ PutBackIn
  BY <1>2, <1>5, <1>8 DEF SnapIn, JobIn, JobRec, FillIn, TurnIn, NamesIn, PutBackIn
<1> QED BY <1>4, <1>6, <1>7, <1>9 DEF SnapIInv

LEMMA SnapInvariant == SnapSpec => []SnapIInv
<1>1. SnapInit => SnapIInv
  BY SnapStart
<1> QED BY <1>1, SnapStep, PTL DEF SnapSpec

LEMMA SnapTyped ==
  ASSUME SnapIInv
  PROVE  SnapTypeOK
<1>1. \A s \in DOMAIN snaps : /\ snaps[s] \in SnapRec
                              /\ snaps[s].whole => snaps[s].listed /\ snaps[s].kept
  BY SnapTypes, SnapKept DEF SnapRec
<1>2. \A j \in SnapJobs : job[j].at \in {"idle", "dirs", "file", "manifest", "delete", "clone",
       "clean", "extract", "refile", "presets", "done", "failed", "refused"}
  <2> TAKE j \in SnapJobs
  <2>1. job[j] \in JobRec(Len(snaps))
    BY SnapTypes
  <2> QED BY <2>1 DEF JobRec, EndedJob, CreateJob, RestoreJob, CreateAt, RestoreAt
<1> QED BY <1>1, <1>2 DEF SnapIInv, WorldIn, CountIn, SnapTypeOK, SnapRec, DiskRec, RowRec

(* The state of the snapshot commands has its type: a snapshot reported    *)
(* complete is listed and has its directory (backupSandboxState).          *)
THEOREM SnapTypeCorrect == SnapSpec => []SnapTypeOK
<1>1. SnapIInv => SnapTypeOK
  BY SnapTyped
<1> QED BY <1>1, SnapInvariant, PTL

(* A restore that succeeded undisturbed gives the files of the directory   *)
(* as they were when the snapshot was taken, with no credential but what   *)
(* the sanitizing could not take out, and the state file of the snapshot   *)
(* or, after a transfer that failed unseen, an empty one, whatever other   *)
(* commands run, fail or die (restoreSandboxState, state/sandbox.ts).      *)
THEOREM RestoreIsTrue == SnapSpec => []RestoredIsTruth
<1>1. ASSUME SnapIInv PROVE RestoredIsTruth
  <2>1. ASSUME NEW b \in Boxes, restored[b] # 0
        PROVE  LET s == snaps[restored[b]] IN
                 /\ s.kept => /\ disk[b].dir \ Credentials = s.dirThen \ Credentials
                              /\ disk[b].dir \intersect Credentials \subseteq s.dir
                 /\ s.file => disk[b].db = IF b \in cut THEN Empty ELSE s.db
    <3>1. Held(b) /\ restored[b] \in 0 .. Len(snaps) /\ Len(snaps) \in Nat
      BY <1>1, SnapTypes DEF SnapIInv, HeldIn
    <3>2. restored[b] \in 1 .. Len(snaps)
      BY <2>1, <3>1
    <3>3. snaps[restored[b]] \in SnapRec
          /\ Same(snaps[restored[b]])
      BY <1>1, <3>2, SnapKept
    <3> QED BY <2>1, <3>1, <3>3 DEF Held, SnapRec, Same
  <2> QED BY <2>1 DEF RestoredIsTruth
<1> QED BY <1>1, SnapInvariant, PTL

(* Creations one after another never give a name twice, whatever fails     *)
(* between the check and the manifest (runSandboxSnapshot, snapshot.ts).   *)
THEOREM OneNameOneSnapshot == SnapSpec => []NamesAreUnique
<1>1. ASSUME SnapIInv PROVE NamesAreUnique
  <2> SUFFICES ASSUME ~overlap, NEW b \in Boxes, NEW s \in Listed(b), NEW t \in Listed(b),
                      snaps[s].tag = snaps[t].tag
               PROVE  s = t \/ snaps[s].tag = NoTag
    BY DEF NamesAreUnique
  <2>1. /\ s \in 1 .. Len(snaps) /\ t \in 1 .. Len(snaps) /\ snaps[s].of = snaps[t].of
        /\ snaps[s].listed = TRUE /\ snaps[t].listed = TRUE
    <3>1. /\ s \in 1 .. Len(snaps) /\ t \in 1 .. Len(snaps) /\ snaps[s].of = b /\ snaps[t].of = b
          /\ snaps[s].listed /\ snaps[t].listed
      BY <1>1, SnapTypes DEF Listed
    <3>2. snaps[s] \in SnapRec /\ snaps[t] \in SnapRec
      BY <1>1, <3>1, SnapTypes
    <3> QED BY <3>1, <3>2 DEF SnapRec
  <2> QED BY <1>1, <2>1, SnapTypes DEF SnapIInv, NamesIn
<1> QED BY <1>1, SnapInvariant, PTL

(* After a restore the policy at the gateway and the entry have exactly    *)
(* the presets of the snapshot, unless the command warned, the two were    *)
(* told apart or someone touched the sandbox (the reconciliation of        *)
(* presets in snapshot.ts).                                                *)
THEOREM PresetsAreBack == SnapSpec => []PresetsFollow
<1>1. ASSUME SnapIInv PROVE PresetsFollow
  <2> SUFFICES ASSUME NEW j \in SnapJobs, job[j].at = "done", "to" \in DOMAIN job[j], job[j].alone,
                      ~job[j].warned, job[j].to \notin apart
               PROVE  /\ rules[job[j].to] = SnapOf(j).presets
                      /\ row[job[j].to].listed => row[job[j].to].presets = SnapOf(j).presets
    BY DEF PresetsFollow, JobAt
  <2>1. job[j] \in RestoreJob(Len(snaps)) /\ PutBack(j)
    BY <1>1, JobKinds DEF SnapIInv, PutBackIn
  <2>2. job[j].alone = TRUE /\ job[j].warned = FALSE /\ job[j].to \in Boxes
    BY <2>1 DEF RestoreJob
  <2>3. Synced(job[j].to)
    BY <1>1, <2>2 DEF SnapIInv, SyncIn
  <2>4. rules[job[j].to] = SnapOf(j).presets
    BY <2>1, <2>2 DEF PutBack
  <2> QED BY <2>3, <2>4 DEF Synced
<1> QED BY <1>1, SnapInvariant, PTL

(* A step that moves the version of no snapshot listed.                    *)
LEMMA VersionKept ==
  ASSUME SnapIInv, SnapIInv', NEW b \in Boxes, NEW s \in Listed(b), Len(snaps) <= Len(snaps'),
         \A t \in 1 .. Len(snaps) : snaps'[t].of = snaps[t].of,
         \A t \in 1 .. s : snaps'[t].listed = snaps[t].listed
  PROVE  Version(s)' = Version(s)
<1>1. /\ Len(snaps) \in Nat /\ Len(snaps') \in Nat /\ s \in 1 .. Len(snaps) /\ snaps[s].of = b
      /\ DOMAIN snaps = 1 .. Len(snaps) /\ DOMAIN snaps' = 1 .. Len(snaps')
  <2>1. Len(snaps') \in Nat /\ DOMAIN snaps' = 1 .. Len(snaps')
    BY DEF SnapIInv, SnapIn
  <2> QED BY <2>1, SnapTypes DEF Listed
<1>2. {t \in Listed(b)' : t <= s} = {t \in Listed(b) : t <= s}
  BY <1>1 DEF Listed
<1>3. snaps'[s].of = b
  BY <1>1
<1> QED BY <1>1, <1>2, <1>3 DEF Version

(* No step changes the version of a snapshot that is listed, unless two    *)
(* were created at once (listBackups numbers them by timestamp).           *)
THEOREM VersionsAreKept == SnapSpec => VersionsStay
<1> DEFINE Stay == ~overlap' => \A b \in Boxes : \A s \in Listed(b) : Version(s)' = Version(s)
<1>1. ASSUME SnapIInv, SnapIInv', [SnapNext]_snapVars PROVE [Stay]_snapVars
  <2>1. ASSUME UNCHANGED snaps PROVE Stay
    <3>1. ASSUME NEW b \in Boxes, NEW s \in Listed(b) PROVE Version(s)' = Version(s)
      BY <2>1 DEF Version, Listed
    <3> QED BY <3>1
  <2>2. ASSUME NEW j \in SnapJobs, Fills(j) PROVE Stay
    <3> SUFFICES ASSUME overlap' = FALSE, NEW b \in Boxes, NEW s \in Listed(b) PROVE Version(s)' = Version(s)
      BY <1>1 DEF SnapIInv, WorldIn
    <3>1. /\ overlap = FALSE /\ job[j].at \in CreateAt /\ Len(snaps') = Len(snaps) /\ Len(snaps) \in Nat
          /\ \A t \in 1 .. Len(snaps) : t # job[j].snap => snaps'[t] = snaps[t]
          /\ snaps'[job[j].snap].of = snaps[job[j].snap].of
      BY <1>1, <2>2, SnapTypes DEF Fills
    <3>2. job[j].snap = Len(snaps) /\ SnapOf(j).listed = FALSE
      BY <1>1, <3>1 DEF SnapIInv, TurnIn, FillIn
    <3>3. s \in 1 .. Len(snaps) /\ s # Len(snaps)
      BY <1>1, <3>2, SnapTypes DEF Listed, SnapOf
    <3> QED BY <1>1, <3>1, <3>2, <3>3, VersionKept
  <2>3. ASSUME NEW j \in SnapJobs, SnapCreate(j) PROVE Stay
    <3> SUFFICES ASSUME ~overlap', NEW b \in Boxes, NEW s \in Listed(b) PROVE Version(s)' = Version(s)
      OBVIOUS
    <3>1. UNCHANGED snaps \/ \E e \in SnapRec : snaps' = Append(snaps, e)
      <4>1. \A x \in Boxes : row[x].presets \in SUBSET Offered
        BY <1>1, SnapTypes DEF RowRec
      <4> QED BY <2>3, <4>1 DEF SnapCreate, SnapRec
    <3>2. CASE \E e \in SnapRec : snaps' = Append(snaps, e)
      <4>1. /\ Len(snaps) \in Nat /\ Len(snaps') = Len(snaps) + 1
            /\ \A t \in 1 .. Len(snaps) : snaps'[t] = snaps[t]
        BY <1>1, <3>2, SnapTypes
      <4>2. s \in 1 .. Len(snaps)
        BY <1>1, SnapTypes DEF Listed
      <4>3. Len(snaps) <= Len(snaps') /\ 1 .. s \subseteq 1 .. Len(snaps)
        BY <4>1, <4>2
      <4>4. /\ \A t \in 1 .. Len(snaps) : snaps'[t].of = snaps[t].of
            /\ \A t \in 1 .. s : snaps'[t].listed = snaps[t].listed
        BY <4>1, <4>3
      <4>5. SnapIInv /\ SnapIInv'
        BY <1>1
      <4> QED BY <4>3, <4>4, <4>5, VersionKept
    <3> QED BY <2>1, <3>1, <3>2
  <2>4. ASSUME NEW b \in Boxes, NEW K \in SUBSET SnapJobs, Touches(b, K) PROVE Stay
    BY <2>1, <2>4 DEF Touches
  <2>5. CASE UNCHANGED snapVars
    BY <2>5
  <2> HIDE DEF Stay
  <2>6. ASSUME NEW j \in SnapJobs, SnapRestore(j) \/ SnapSteps(j) \/ JobDies(j) PROVE Stay
    BY <1>1, <2>2, <2>4, <2>6, RestoreTouches, SnapStepKinds
  <2>7. ASSUME NEW b \in Boxes, Edit(b) PROVE Stay
    BY <1>1, <2>4, <2>7, EditTouches
  <2> QED BY <1>1, <2>3, <2>5, <2>6, <2>7 DEF SnapNext
<1>2. SnapSpec => [][Stay]_snapVars
  BY <1>1, SnapInvariant, PTL DEF SnapSpec
<1> QED BY <1>2 DEF VersionsStay

=============================================================================
