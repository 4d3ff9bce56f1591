------------------------------- MODULE Create -------------------------------
(***************************************************************************)
(* How onboarding makes a sandbox: createSandbox (src/lib/onboard.ts), the *)
(* stream of `openshell sandbox create' (src/lib/sandbox/create-stream.ts) *)
(* and the patch that replaces the Docker container of the sandbox by one  *)
(* with a GPU (src/lib/onboard/docker-gpu-patch.ts), which runs inside the *)
(* stream's poll while the create command is still waiting.                *)
(*                                                                         *)
(* Three actors move: this process, whose handlers run to completion but   *)
(* whose docker calls the others see one by one; the create command, a     *)
(* child that builds the sandbox; and the gateway, which reports whether   *)
(* the sandbox is ready.                                                   *)
(***************************************************************************)
EXTENDS Naturals

CONSTANTS MaxMakes,      \* bound: onboardings of the sandbox in a behaviour
          MaxMakeFaults  \* bound: external calls that fail in a behaviour

ASSUME MakeBounds == {MaxMakes, MaxMakeFaults} \subseteq Nat

VARIABLES
  gate,     \* the sandbox at the gateway: its state, and whether it holds the
            \* user's files and was made by the onboarding under way
  cont,     \* its Docker containers: the first one and the one with a GPU
  listed,   \* the registry has an entry
  backup,   \* a backup of the user's files is on disk
  make,     \* createSandbox
  stream,   \* streamSandboxCreate and its child
  patch,    \* the GPU patch of this onboarding
  wanted,   \* history: the sandbox held files of the user that nobody gave up
  makes, makeFaults

outside  == <<gate, cont>>
makeVars == <<gate, cont, listed, backup, make, stream, patch, wanted, makes, makeFaults>>

MakePc == {"idle", "prune", "decide", "reuse", "backup", "delete", "unlist", "build",
           "stream", "ensure", "supervise", "ready", "verify",
           "forward", "register", "restore", "done", "exit"}
PatchAt == {"idle", "inspect", "stop", "rename", "clone", "identify", "drop", "wait"}

MakeTypeOK ==
  /\ gate \in [state : {"none", "starting", "ready"}, files : BOOLEAN, new : BOOLEAN]
  /\ cont \in [first : {"none", "running", "stopped"}, aside : BOOLEAN,
               gpu : {"none", "running", "broken"}]
  /\ {listed, backup, wanted} \subseteq BOOLEAN
  /\ make \in [pc : MakePc, gpu : BOOLEAN, vm : BOOLEAN, skip : BOOLEAN, latest : BOOLEAN,
               restore : BOOLEAN, told : BOOLEAN, undeleted : BOOLEAN]
  /\ stream \in [child : {"none", "running", "ended", "failed", "killed"}, created : BOOLEAN,
                 seen : BOOLEAN, settled : BOOLEAN, status : {0, 1}]
  /\ patch \in [at : PatchAt, by : {"nobody", "poll", "close", "main"}, done : BOOLEAN,
                failed : BOOLEAN, wait : BOOLEAN, deaf : BOOLEAN]
  /\ patch.at # "idle" => make.gpu
  /\ makes \in 0 .. MaxMakes /\ makeFaults \in 0 .. MaxMakeFaults

NoSandbox == [state |-> "none", files |-> FALSE, new |-> FALSE]
NoCont    == [first |-> "none", aside |-> FALSE, gpu |-> "none"]
NoStream  == [child |-> "none", created |-> FALSE, seen |-> FALSE, settled |-> FALSE, status |-> 0]
NoPatch   == [at |-> "idle", by |-> "nobody", done |-> FALSE, failed |-> FALSE,
              wait |-> FALSE, deaf |-> FALSE]
NoMake    == [pc |-> "idle", gpu |-> FALSE, vm |-> FALSE, skip |-> FALSE, latest |-> FALSE,
              restore |-> FALSE, told |-> FALSE, undeleted |-> FALSE]

MakeAt(pc)  == make.pc = pc /\ patch.at = "idle"
MakeTo(pc)  == make' = [make EXCEPT !.pc = pc]
MakeExit(told) == make' = [make EXCEPT !.pc = "exit", !.told = told]
Well     == UNCHANGED <<makes, makeFaults>>
Badly    == makeFaults < MaxMakeFaults /\ makeFaults' = makeFaults + 1 /\ UNCHANGED makes
Calm     == UNCHANGED <<stream, patch>>
Answers  == gate.state = "ready"                  \* `sandbox list' shows Ready
HasCont  == cont.first # "none" \/ cont.gpu # "none"
Reachable == cont.gpu = "running" \/ (cont.first = "running" /\ ~cont.aside)

-----------------------------------------------------------------------------
(* createSandbox up to the create command.                                 *)

(* The options of an onboarding: GPU patch, VM driver, no backup, restore  *)
(* of the latest backup.                                                   *)
MakeBegin ==
  /\ make.pc \in {"idle", "done", "exit"} /\ makes < MaxMakes
  /\ \E gpu, vm, skip, latest \in BOOLEAN :
       /\ ~(gpu /\ vm)
       /\ make' = [NoMake EXCEPT !.pc = "prune", !.gpu = gpu, !.vm = vm, !.skip = skip,
                                 !.latest = latest]
       /\ wanted' = (wanted /\ ~(skip /\ ~backup))
  /\ gate' = [gate EXCEPT !.new = FALSE]
  /\ stream' = NoStream /\ patch' = NoPatch
  /\ makes' = makes + 1
  /\ UNCHANGED <<cont, listed, backup, makeFaults>>

(* pruneStaleSandboxEntry; the latest backup is restored only for an entry *)
(* that was still there.                                                   *)
PruneStale ==
  /\ MakeAt("prune")
  /\ IF gate.state # "none" THEN MakeTo("decide") /\ UNCHANGED listed
     ELSE /\ make' = [make EXCEPT !.pc = "build",
                                  !.restore = listed /\ make.latest /\ backup]
          /\ listed' = FALSE
  /\ Well /\ Calm /\ UNCHANGED <<outside, backup, wanted>>

(* Reuse a ready sandbox, recreate it (by request, or after a change of    *)
(* model, agent, GPU, credential), or give up.                             *)
DecideReuse ==
  /\ MakeAt("decide")
  /\ \/ Answers /\ MakeTo("reuse")
     \/ MakeTo(IF make.skip THEN "delete" ELSE "backup")
     \/ MakeExit(TRUE)
  /\ Well /\ Calm /\ UNCHANGED <<outside, listed, backup, wanted>>

(* updateReusedSandboxMetadata: updateSandbox and setDefault do nothing    *)
(* for a sandbox that has no entry.                                        *)
ReuseSandbox ==
  /\ MakeAt("reuse")
  /\ MakeTo("done")
  /\ Well /\ Calm /\ UNCHANGED <<outside, listed, backup, wanted>>

(* Mutant: a backup that failed does not stop the recreation.              *)
BackupOrGoOn ==
  /\ MakeAt("backup")
  /\ \/ /\ Answers /\ Reachable /\ backup' = (backup \/ gate.files)
        /\ make' = [make EXCEPT !.pc = "delete", !.restore = TRUE] /\ Well
     \/ /\ (IF Answers /\ Reachable THEN Badly ELSE Well)
        /\ MakeTo("delete") /\ UNCHANGED backup
  /\ Calm /\ UNCHANGED <<outside, listed, wanted>>

(* backupSandboxBeforeRecreate: all of it, or the recreation is aborted.   *)
BackupFirst ==
  /\ MakeAt("backup")
  /\ \/ /\ Answers /\ Reachable /\ backup' = (backup \/ gate.files)
        /\ make' = [make EXCEPT !.pc = "delete", !.restore = TRUE] /\ Well
     \/ /\ (IF Answers /\ Reachable THEN Badly ELSE Well)
        /\ MakeExit(TRUE) /\ UNCHANGED backup
  /\ Calm /\ UNCHANGED <<outside, listed, wanted>>

(* The container that is there is the first one of the next onboarding.    *)
Aged == IF cont.gpu = "none" THEN cont
        ELSE [NoCont EXCEPT !.first = IF cont.gpu = "running" THEN "running" ELSE "stopped"]

(* Mutant: the entry goes, the sandbox stays.                              *)
DeleteOldNot ==
  /\ MakeAt("delete") /\ MakeTo("unlist")
  /\ Well /\ Calm /\ UNCHANGED <<outside, listed, backup, wanted>>

(* What `sandbox delete' answers is not looked at.                         *)
DeleteOld ==
  /\ MakeAt("delete")
  /\ \/ gate' = NoSandbox /\ cont' = NoCont /\ MakeTo("unlist") /\ Well
     \/ make' = [make EXCEPT !.pc = "unlist", !.undeleted = TRUE]
        /\ cont' = Aged /\ Badly /\ UNCHANGED gate
  /\ Calm /\ UNCHANGED <<listed, backup, wanted>>

UnlistOld ==
  /\ MakeAt("unlist") /\ listed' = FALSE /\ MakeTo("build")
  /\ Well /\ Calm /\ UNCHANGED <<outside, backup, wanted>>

(* Stage the build context and the policy, then start the command; the     *)
(* stream waits for a line of output only under the VM driver.             *)
StartCreate ==
  /\ MakeAt("build")
  /\ \/ /\ stream' = [NoStream EXCEPT !.child = "running", !.seen = ~make.vm]
        /\ MakeTo("stream") /\ Well
     \/ MakeExit(TRUE) /\ Badly /\ UNCHANGED stream
  /\ UNCHANGED <<outside, listed, backup, patch, wanted>>

-----------------------------------------------------------------------------
(* The create command and the gateway.                                     *)

ChildCreates ==
  /\ stream.child = "running" /\ gate.state = "none"
  /\ gate' = [state |-> "starting", files |-> FALSE, new |-> TRUE]
  /\ cont' = [NoCont EXCEPT !.first = "running"]
  /\ stream' = [stream EXCEPT !.created = TRUE]
  /\ Well /\ UNCHANGED <<listed, backup, make, patch, wanted>>

ChildPrints ==
  /\ stream.child = "running" /\ stream.created /\ ~stream.seen
  /\ stream' = [stream EXCEPT !.seen = TRUE]
  /\ Well /\ UNCHANGED <<outside, listed, backup, make, patch, wanted>>

(* It fails when the name is taken, and may fail after it made the sandbox *)
(* (ssh exits with 255).                                                   *)
ChildEnds ==
  /\ stream.child = "running"
  /\ \/ stream.created /\ stream' = [stream EXCEPT !.child = "ended"] /\ Well
     \/ /\ stream' = [stream EXCEPT !.child = "failed"]
        /\ IF gate.state # "none" /\ ~stream.created THEN Well ELSE Badly
  /\ UNCHANGED <<outside, listed, backup, make, patch, wanted>>

GatewayReports ==
  /\ gate.state = "starting" /\ Reachable
  /\ gate' = [gate EXCEPT !.state = "ready"]
  /\ Well /\ Calm /\ UNCHANGED <<cont, listed, backup, make, wanted>>

GatewayNotices ==
  /\ gate.state = "ready" /\ ~Reachable
  /\ gate' = [gate EXCEPT !.state = "starting"]
  /\ Well /\ Calm /\ UNCHANGED <<cont, listed, backup, make, wanted>>

GpuContainerBreaks ==
  /\ cont.gpu = "running" /\ (make.pc = "stream" \/ patch.at # "idle")
  /\ cont' = [cont EXCEPT !.gpu = "broken"]
  /\ Badly /\ Calm /\ UNCHANGED <<gate, listed, backup, make, wanted>>

-----------------------------------------------------------------------------
(* streamSandboxCreate: the poll and the close handler.                    *)

Settle(s, status) == [s EXCEPT !.settled = TRUE, !.status = status]
Streaming == MakeAt("stream") /\ ~stream.settled

(* Mutant: the container is patched whatever was asked for.                *)
PatchDueAlways == ~patch.done /\ ~patch.failed /\ HasCont

(* readyCheck: the patch is applied as soon as there is a container.       *)
PatchDue == make.gpu /\ ~patch.done /\ ~patch.failed /\ HasCont
StartPatch(by) == patch' = [patch EXCEPT !.at = "inspect", !.by = by]

PollReady ==
  /\ Streaming /\ Answers /\ stream.seen
  /\ stream' = Settle([stream EXCEPT !.child = "killed"], 0)
  /\ Well /\ UNCHANGED <<outside, listed, backup, make, patch, wanted>>

PollPatch ==
  /\ Streaming /\ ~Answers /\ PatchDue
  /\ StartPatch("poll")
  /\ Well /\ UNCHANGED <<outside, listed, backup, make, stream, wanted>>

(* One more ready check for a command that failed; it too may patch.       *)
CloseChecks ==
  /\ Streaming /\ stream.child = "failed"
  /\ \/ /\ Answers /\ stream' = Settle(stream, IF stream.seen THEN 0 ELSE 1)
        /\ UNCHANGED patch
     \/ ~Answers /\ PatchDue /\ StartPatch("close") /\ UNCHANGED stream
     \/ ~Answers /\ ~PatchDue /\ stream' = Settle(stream, 1) /\ UNCHANGED patch
  /\ Well /\ UNCHANGED <<outside, listed, backup, make, wanted>>

CloseEnds ==
  /\ Streaming /\ stream.child = "ended"
  /\ stream' = Settle(stream, 0)
  /\ Well /\ UNCHANGED <<outside, listed, backup, make, patch, wanted>>

-----------------------------------------------------------------------------
(* recreateOpenShellDockerSandboxWithGpu.                                  *)

PatchTo(at) == patch' = [patch EXCEPT !.at = at]

(* Mutant: the stream is not told of a patch that failed.                  *)
PatchFailsInSilence ==
  /\ patch' = [patch EXCEPT !.at = "idle", !.failed = TRUE]
  /\ IF patch.by = "main" THEN MakeExit(TRUE) ELSE UNCHANGED make
  /\ UNCHANGED stream

(* A patch that failed settles the stream, or ends the onboarding.         *)
PatchFails ==
  /\ patch' = [patch EXCEPT !.at = "idle", !.failed = TRUE]
  /\ CASE patch.by = "main"  -> MakeExit(TRUE) /\ UNCHANGED stream
       [] patch.by = "poll"  -> stream' = Settle([stream EXCEPT !.child = "killed"], 1)
                                /\ UNCHANGED make
       [] patch.by = "close" -> stream' = Settle(stream, 1) /\ UNCHANGED make

(* The container, its image, and a GPU mode that Docker accepts.           *)
InspectContainer ==
  /\ patch.at = "inspect"
  /\ \/ HasCont /\ PatchTo("stop") /\ Well /\ UNCHANGED <<make, stream>>
     \/ PatchFails /\ IF HasCont THEN Badly ELSE Well
  /\ UNCHANGED <<outside, listed, backup, wanted>>

(* What `docker stop' answers is not looked at.                            *)
StopOld ==
  /\ patch.at = "stop"
  /\ \/ cont' = [cont EXCEPT !.first = "stopped"] /\ PatchTo("rename") /\ Well
     \/ patch' = [patch EXCEPT !.at = "rename", !.deaf = TRUE] /\ Badly /\ UNCHANGED cont
  /\ UNCHANGED <<gate, listed, backup, make, stream, wanted>>

RenameOld ==
  /\ patch.at = "rename"
  /\ \/ cont' = [cont EXCEPT !.aside = TRUE] /\ PatchTo("clone") /\ Well
        /\ UNCHANGED <<make, stream>>
     \/ PatchFails /\ Badly /\ UNCHANGED cont
  /\ UNCHANGED <<gate, listed, backup, wanted>>

(* Mutant: the old container is removed before the new one runs.           *)
CloneAfterDrop ==
  /\ patch.at = "clone"
  /\ \/ cont' = [cont EXCEPT !.first = "none", !.gpu = "running"] /\ PatchTo("identify")
        /\ Well /\ UNCHANGED <<make, stream>>
     \/ cont' = [cont EXCEPT !.first = "none"] /\ PatchFails /\ Badly
  /\ UNCHANGED <<gate, listed, backup, wanted>>

(* A clone that does not start is removed; the one set aside is left.      *)
RunClone ==
  /\ patch.at = "clone"
  /\ \/ cont' = [cont EXCEPT !.gpu = "running"] /\ PatchTo("identify")
        /\ Well /\ UNCHANGED <<make, stream>>
     \/ PatchFails /\ Badly /\ UNCHANGED cont
  /\ UNCHANGED <<gate, listed, backup, wanted>>

IdentifyClone ==
  /\ patch.at = "identify"
  /\ \/ PatchTo("drop") /\ Well /\ UNCHANGED <<make, stream>>
     \/ PatchFails /\ Badly
  /\ UNCHANGED <<outside, listed, backup, wanted>>

(* `docker rm' does not remove a container that runs.  Inside the stream   *)
(* the wait for the supervisor is put off.                                 *)
DropOld ==
  /\ patch.at = "drop"
  /\ \/ cont.first = "stopped" /\ cont' = [cont EXCEPT !.first = "none", !.aside = FALSE] /\ Well
     \/ (IF cont.first = "running" THEN Well ELSE Badly) /\ UNCHANGED cont
  /\ IF patch.by = "main" THEN PatchTo("wait") /\ UNCHANGED stream
     ELSE /\ patch' = [patch EXCEPT !.at = "idle", !.done = TRUE, !.wait = TRUE]
          /\ stream' = IF patch.by = "close" THEN Settle(stream, 1) ELSE stream
  /\ UNCHANGED <<gate, listed, backup, make, wanted>>

AwaitSupervisor ==
  /\ patch.at = "wait"
  /\ \/ /\ Reachable /\ patch' = [patch EXCEPT !.at = "idle", !.done = TRUE]
        /\ MakeTo("supervise") /\ Well
     \/ (IF Reachable THEN Badly ELSE Well) /\ MakeExit(TRUE)
        /\ patch' = [patch EXCEPT !.at = "idle", !.failed = TRUE]
  /\ UNCHANGED <<outside, listed, backup, stream, wanted>>

-----------------------------------------------------------------------------
(* createSandbox after the stream.                                         *)

(* exitOnPatchError, then classifySandboxCreateFailure: only a stream that *)
(* failed after "Created sandbox" is gone on with.                         *)
JudgeStream ==
  /\ MakeAt("stream") /\ stream.settled
  /\ \/ ~patch.failed /\ (stream.status = 0 \/ stream.created) /\ MakeTo("ensure")
     \/ (patch.failed \/ stream.status # 0) /\ MakeExit(TRUE)
  /\ Well /\ Calm /\ UNCHANGED <<outside, listed, backup, wanted>>

EnsureApplied ==
  /\ MakeAt("ensure")
  /\ IF make.gpu /\ ~patch.done THEN StartPatch("main") /\ UNCHANGED make
     ELSE MakeTo("supervise") /\ UNCHANGED patch
  /\ Well /\ UNCHANGED <<outside, listed, backup, stream, wanted>>

(* Mutant: the wait that was put off is forgotten.                         *)
SuperviseNot ==
  /\ MakeAt("supervise") /\ MakeTo("ready")
  /\ Well /\ Calm /\ UNCHANGED <<outside, listed, backup, wanted>>

WaitForSupervisor ==
  /\ MakeAt("supervise")
  /\ \/ (patch.wait => Reachable) /\ MakeTo("ready") /\ Well
     \/ patch.wait /\ MakeExit(TRUE) /\ IF Reachable THEN Badly ELSE Well
  /\ Calm /\ UNCHANGED <<outside, listed, backup, wanted>>

(* A sandbox that is not ready in time is deleted, unless it was patched.  *)
AwaitReady ==
  /\ MakeAt("ready")
  /\ \/ Answers /\ MakeTo("verify") /\ Well /\ UNCHANGED outside
     \/ /\ ~Answers /\ Badly /\ MakeExit(TRUE)
        /\ \/ ~make.gpu /\ gate' = NoSandbox /\ cont' = NoCont
           \/ UNCHANGED outside
  /\ Calm /\ UNCHANGED <<listed, backup, wanted>>

VerifyGpu ==
  /\ MakeAt("verify")
  /\ \/ MakeTo("forward") /\ Well
     \/ make.gpu /\ MakeExit(TRUE) /\ Badly
  /\ Calm /\ UNCHANGED <<outside, listed, backup, wanted>>

(* ensureDashboardForward, with rollbackSandboxOnFailure.                  *)
ForwardDashboard ==
  /\ MakeAt("forward")
  /\ \/ MakeTo("register") /\ Well /\ UNCHANGED outside
     \/ /\ Badly /\ MakeExit(TRUE)
        /\ \/ gate' = NoSandbox /\ cont' = NoCont
           \/ UNCHANGED outside
  /\ Calm /\ UNCHANGED <<listed, backup, wanted>>

RegisterNew ==
  /\ MakeAt("register")
  /\ listed' = TRUE /\ MakeTo("restore")
  /\ Well /\ Calm /\ UNCHANGED <<outside, backup, wanted>>

(* Mutant: only a restore by request is done.                              *)
RestoreLatestOnly ==
  /\ MakeAt("restore")
  /\ gate' = [gate EXCEPT !.files = @ \/ (make.latest /\ make.restore /\ backup)]
  /\ MakeTo("done") /\ Well
  /\ Calm /\ UNCHANGED <<cont, listed, backup, wanted>>

RestoreFiles ==
  /\ MakeAt("restore")
  /\ \/ gate' = [gate EXCEPT !.files = @ \/ (make.restore /\ backup)] /\ MakeTo("done") /\ Well
     \/ make.restore /\ make' = [make EXCEPT !.pc = "done", !.told = TRUE]
        /\ Badly /\ UNCHANGED gate
  /\ Calm /\ UNCHANGED <<cont, listed, backup, wanted>>

(* The process dies; the command it started dies with it.                  *)
MakeDies ==
  /\ make.pc \notin {"idle", "done", "exit"} /\ Badly
  /\ make' = [make EXCEPT !.pc = "exit"]
  /\ stream' = [stream EXCEPT !.child = IF @ = "running" THEN "killed" ELSE @]
  /\ patch' = [patch EXCEPT !.at = "idle"]
  /\ UNCHANGED <<outside, listed, backup, wanted>>

-----------------------------------------------------------------------------
(* There is no sandbox, one that onboarding made, or one whose gateway was *)
(* lost.                                                                   *)
MakeInit ==
  /\ \/ gate = NoSandbox /\ cont = NoCont /\ backup = FALSE
     \/ gate = [state |-> "ready", files |-> TRUE, new |-> FALSE]
        /\ cont = [NoCont EXCEPT !.first = "running"] /\ backup = FALSE
     \/ gate = NoSandbox /\ cont = NoCont /\ backup = TRUE
  /\ listed = (gate.files \/ backup)
  /\ wanted = (gate.files \/ backup)
  /\ make = NoMake /\ stream = NoStream /\ patch = NoPatch
  /\ makes = 0 /\ makeFaults = 0

OutsideNext ==
  \/ ChildCreates \/ ChildPrints \/ ChildEnds
  \/ GatewayReports \/ GatewayNotices \/ GpuContainerBreaks

StreamNext ==
  PollReady \/ PollPatch \/ CloseChecks \/ CloseEnds

PatchNext ==
  \/ InspectContainer \/ StopOld \/ RenameOld \/ RunClone \/ IdentifyClone
  \/ DropOld \/ AwaitSupervisor

MakeSteps ==
  \/ PruneStale \/ DecideReuse \/ ReuseSandbox \/ BackupFirst \/ DeleteOld \/ UnlistOld
  \/ StartCreate \/ JudgeStream \/ EnsureApplied \/ WaitForSupervisor \/ AwaitReady
  \/ VerifyGpu \/ ForwardDashboard \/ RegisterNew \/ RestoreFiles

MakeNext == MakeBegin \/ MakeSteps \/ StreamNext \/ PatchNext \/ OutsideNext \/ MakeDies
MakeSpec == MakeInit /\ [][MakeNext]_makeVars

-----------------------------------------------------------------------------
(* A sandbox is registered when it is there and can be reached, patched    *)
(* when it is to have a GPU, and is the one this onboarding made:          *)
(* "Register only after confirmed ready — prevents phantom entries".  When *)
(* the old sandbox could not be deleted, the ready check takes it, which   *)
(* is still Ready, for the new one.                                        *)
RegisteredIsReal ==
  [][~listed /\ listed' =>
       /\ gate.state # "none" /\ (gate.new \/ make.undeleted)
       /\ make.gpu => patch.done /\ Reachable]_makeVars

(* The user's files are in the sandbox or on disk until the user gives     *)
(* them up, whatever fails or dies in a recreation.                        *)
FilesAreKept == wanted => gate.files \/ backup

(* An onboarding that backed up ends with the files in the sandbox, or has *)
(* said that they are not.                                                 *)
BackedUpIsRestored ==
  make.pc = "done" /\ make.restore /\ ~make.told /\ backup => gate.files

(* While and after a patch there is a container of the sandbox to look at, *)
(* also when it failed, as its message says; and two of them never run at  *)
(* once, unless docker would not stop the first.                           *)
PatchLeavesOne ==
  patch.at # "idle" \/ patch.failed \/ patch.done =>
    /\ gate.new /\ make.pc # "exit" => HasCont
    /\ cont.gpu = "running" /\ ~patch.deaf => cont.first # "running"

(* A stream whose command made the sandbox ends, although nothing bounds   *)
(* it in time: the poll sees it ready or patched in vain.  A container     *)
(* that breaks under the patch is the exception, as the create command may *)
(* then wait for ever.                                                     *)
CreateSettles ==
  (make.pc = "stream" /\ stream.created) ~> (make.pc # "stream" \/ cont.gpu = "broken")

=============================================================================
