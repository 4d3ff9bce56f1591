------------------------------- MODULE Gateway -------------------------------
(***************************************************************************)
(* The OpenShell gateway of the Docker driver, a detached process on the   *)
(* gateway port, and the commands that find, judge, restart and trust it:  *)
(* `connect' and `status' (actions/sandbox/gateway-state.ts and status.ts, *)
(* gateway-runtime-action.ts) and the preflight and gateway step of        *)
(* `onboard' (onboard.ts, onboard/machine/handlers/gateway.ts), all under  *)
(* src/lib.  The openshell CLI is a current one, without lifecycle         *)
(* commands, so there is no cluster container and no volume.               *)
(*                                                                         *)
(* A step is one call of openshell, one look at a process or the port, one *)
(* signal, or one file written.                                            *)
(***************************************************************************)
EXTENDS Naturals

CONSTANTS Actors,         \* command processes
          Pids, NoPid,    \* process ids
          MaxGateCmds,    \* bound: commands in a behaviour
          MaxGateEvents   \* bound: events of the environment

ASSUME GateBounds == MaxGateCmds \in Nat /\ MaxGateEvents \in Nat
ASSUME GateNames  == NoPid \notin Pids

VARIABLES
  gate,     \* what runs under each pid: a gateway that boots, is up (listens)
            \* or ends (signalled, it still listens), or another process
  old,      \* gateways started with an executable or settings now replaced
  pidFile,  \* openshell-gateway.pid
  meta,     \* openshell has metadata of the gateway "nemoclaw"
  active,   \* the gateway openshell has selected: "ours", "other" or "none"
  blind,    \* the port probe cannot name the process behind a port
  live,     \* our gateway knows the sandbox
  entry,    \* the sandbox is in sandboxes.json
  named,    \* the session names the sandbox
  cmd,      \* the running commands
  hist,     \* history: what has happened beside each command
  gateCmds, gateEvents

processes == <<gate, old>>
selection == <<meta, active>>
records   == <<live, entry, named>>
budgets   == <<gateCmds, gateEvents>>
gateVars  == <<processes, pidFile, selection, blind, records, cmd, hist, budgets>>

ConnectPc == {"lookup", "reconcile", "reselect", "retry", "reclassify", "guard", "remove", "forget",
              "before", "select", "after", "select2", "after2", "recovered"}
StartPc   == {"look", "register", "http", "port", "adopt", "adopted", "existing", "spawn",
              "remember", "poll", "ready", "started"}
StopPc    == {"terminate", "wait", "clear"}
OnboardPc == {"snapshot", "named", "again", "refresh", "busy", "handler", "stop", "unregister"}
GatePc    == {"idle"} \cup ConnectPc \cup StartPc \cup StopPc \cup OnboardPc

NoCmd == [pc |-> "idle", op |-> "none", then |-> "idle", pid |-> NoPid, reuse |-> "none",
          pin |-> FALSE]

(* op: the command and how far an onboarding is; then: where the process   *)
(* goes when the start or the stop is over; pid: the process it deals      *)
(* with; pin: OPENSHELL_GATEWAY is nemoclaw in its environment.            *)
GateCommands == [pc : GatePc, op : {"none", "connect", "preflight", "step"},
                 then : {"idle", "port", "existing", "unregister"},
                 pid : Pids \cup {NoPid}, reuse : {"none", "healthy", "foreign", "stale", "missing"},
                 pin : BOOLEAN]

(* still: nobody else has changed the selection since its last lookup;     *)
(* alone: its start began with no gateway booting or ending, and nobody    *)
(* else has acted since; same: the process it is ending is the one it      *)
(* identified.                                                             *)
Histories == [still : BOOLEAN, alone : BOOLEAN, same : BOOLEAN]

GateTypeOK ==
  /\ gate \in [Pids -> {"free", "other", "boot", "up", "end"}] /\ old \subseteq Pids
  /\ pidFile \in Pids \cup {NoPid}
  /\ meta \in BOOLEAN /\ active \in {"ours", "other", "none"}
  /\ blind \in BOOLEAN /\ live \in BOOLEAN /\ entry \in BOOLEAN /\ named \in BOOLEAN
  /\ cmd \in [Actors -> GateCommands] /\ hist \in [Actors -> Histories]
  /\ gateCmds \in 0 .. MaxGateCmds /\ gateEvents \in 0 .. MaxGateEvents

-----------------------------------------------------------------------------
(* What can be seen of the processes, the port and openshell.              *)

Gateways  == {p \in Pids : gate[p] \in {"boot", "up", "end"}}
Listeners == {p \in Pids : gate[p] \in {"up", "end"}}
Unsettled == {p \in Pids : gate[p] \in {"boot", "end"}}

(* Which gateway openshell talks to in a's environment.                    *)
Sees(a) == IF cmd[a].pin THEN "ours" ELSE active

(* `openshell status' may call our gateway connected or refused whenever   *)
(* it is selected: it is no proof that something listens.                  *)
CanBeHealthy(a) == Sees(a) = "ours" /\ meta

(* `openshell sandbox get'.  Another gateway does not know the sandbox.    *)
Lookups(a) ==
  {"error"} \cup
  (IF Sees(a) = "ours" /\ meta /\ Listeners # {} THEN {IF live THEN "present" ELSE "missing"}
   ELSE IF Sees(a) = "other" THEN {"missing"} ELSE {})

(* getNamedGatewayLifecycleState; "down" is unreachable or unhealthy.      *)
Lifecycles(a) ==
  IF CanBeHealthy(a) THEN {"healthy", "down"}
  ELSE IF Sees(a) = "other" THEN {"connected_other", "missing"} ELSE {"missing"}

(* getGatewayReuseState.                                                   *)
ReuseStates(a) ==
  IF CanBeHealthy(a) THEN {"healthy", "stale"}
  ELSE IF Sees(a) = "other" THEN {"foreign"} ELSE {IF meta THEN "stale" ELSE "missing"}

(* getDockerDriverGatewayPortListenerPid: the gateway the probe names.     *)
Found == IF blind THEN {} ELSE Listeners

-----------------------------------------------------------------------------
(* Steps.                                                                  *)

At(a, l)       == cmd[a].pc = l
Become(a, r)   == cmd' = [cmd EXCEPT ![a] = r]
Move(a, l)     == Become(a, [cmd[a] EXCEPT !.pc = l])
Finish(a)      == Become(a, NoCmd)
Keep           == UNCHANGED <<blind, budgets>>
SameProcesses  == UNCHANGED processes
SameSelection  == UNCHANGED selection
SameRecords    == UNCHANGED records
OnlyMoves      == SameProcesses /\ SameSelection /\ SameRecords /\ UNCHANGED pidFile /\ Keep

(* `openshell gateway select nemoclaw', which needs the metadata.          *)
Select == active' = (IF meta THEN "ours" ELSE active) /\ UNCHANGED meta
SelectThen(a, l) ==
  Select /\ Move(a, l) /\ SameProcesses /\ SameRecords /\ UNCHANGED pidFile /\ Keep

Remember(p) == pidFile' = p
ClearFiles  == pidFile' = NoPid   \* clearDockerDriverGatewayRuntimeFiles

-----------------------------------------------------------------------------
(* connect and status.                                                     *)

(* getSandboxGatewayState.  A transport error is recovered from; a time    *)
(* out or a schema mismatch ends the command.                              *)
Lookup(a) ==
  /\ At(a, "lookup")
  /\ \E answer \in Lookups(a) :
       \/ answer = "present" /\ Finish(a)
       \/ answer = "missing" /\ Move(a, "reconcile")
       \/ answer = "error" /\ (Finish(a) \/ Move(a, "before"))
  /\ OnlyMoves

(* reconcileMissingAgainstNamedGateway.                                    *)
Reconcile(a) ==
  /\ At(a, "reconcile")
  /\ \E l \in Lifecycles(a) :
       \/ l = "connected_other" /\ Move(a, "reselect")
       \/ l \in {"missing", "down"} /\ Finish(a)
       \/ l = "healthy" /\ Move(a, "guard")
  /\ OnlyMoves

Reselect(a) == At(a, "reselect") /\ SelectThen(a, "retry")

Retry(a) ==
  /\ At(a, "retry")
  /\ \E answer \in Lookups(a) :
       IF answer = "missing" THEN Move(a, "reclassify") ELSE Finish(a)
  /\ OnlyMoves

(* The same question twice: once by the reconciler, once before the entry  *)
(* is removed (ensureLiveSandboxOrExit, and status).                       *)
ElseFinish(a, from, to) ==
  /\ At(a, from)
  /\ \E l \in Lifecycles(a) : IF l = "healthy" THEN Move(a, to) ELSE Finish(a)
  /\ OnlyMoves

Reclassify(a) == ElseFinish(a, "reclassify", "guard")

(* Mutant: a NotFound is believed without asking which gateway gave it.    *)
Unguarded(a)  == At(a, "guard") /\ Move(a, "remove") /\ OnlyMoves
Guard(a)      == ElseFinish(a, "guard", "remove")

RemoveEntry(a) ==
  /\ At(a, "remove") /\ entry' = FALSE /\ Move(a, "forget")
  /\ SameProcesses /\ SameSelection /\ UNCHANGED <<pidFile, live, named>> /\ Keep

ForgetName(a) ==
  /\ At(a, "forget") /\ named' = FALSE /\ Finish(a)
  /\ SameProcesses /\ SameSelection /\ UNCHANGED <<pidFile, live, entry>> /\ Keep

(* recoverNamedGatewayRuntime.                                             *)
Before(a) ==
  /\ At(a, "before")
  /\ \E l \in Lifecycles(a) : Move(a, IF l = "healthy" THEN "recovered" ELSE "select")
  /\ OnlyMoves

SelectNamed(a) ==
  \/ At(a, "select") /\ SelectThen(a, "after")
  \/ At(a, "select2") /\ SelectThen(a, "after2")

After1(a) ==
  /\ At(a, "after")
  /\ \E l \in Lifecycles(a) :
       IF l = "healthy" THEN Become(a, [cmd[a] EXCEPT !.pc = "recovered", !.pin = TRUE])
                        ELSE Move(a, "look")
  /\ OnlyMoves

After2(a) ==
  /\ At(a, "after2")
  /\ \E l \in Lifecycles(a) :
       IF l = "healthy" THEN Become(a, [cmd[a] EXCEPT !.pc = "recovered", !.pin = TRUE])
                        ELSE Finish(a)
  /\ OnlyMoves

Recovered(a) ==
  /\ At(a, "recovered")
  /\ \E answer \in Lookups(a) : IF answer = "missing" THEN Move(a, "guard") ELSE Finish(a)
  /\ OnlyMoves

-----------------------------------------------------------------------------
(* startDockerDriverGateway.                                               *)

(* registerDockerDriverGatewayEndpoint.  It fails when openshell does, and *)
(* may then have removed the metadata.                                     *)
Registers(a, yes) ==
  /\ meta' = TRUE /\ active' = "ours"
  /\ Become(a, [cmd[a] EXCEPT !.pc = yes, !.pin = TRUE])
  /\ SameProcesses /\ SameRecords /\ UNCHANGED pidFile /\ Keep

RegisterFails(a, no) ==
  /\ gateEvents < MaxGateEvents /\ gateEvents' = gateEvents + 1
  /\ meta' \in {meta, FALSE}
  /\ active' = (IF meta' THEN "ours" ELSE IF active = "ours" THEN "none" ELSE active)
  /\ Become(a, [cmd[a] EXCEPT !.pc = no, !.pin = FALSE])
  /\ SameProcesses /\ SameRecords /\ UNCHANGED <<pidFile, blind, gateCmds>>

StopThen(a, p, l) == Become(a, [cmd[a] EXCEPT !.pc = "terminate", !.pid = p, !.then = l])

(* The gateway of the pid file, if it is alive, ours and called healthy.   *)
LookAtPidFile(a) ==
  /\ At(a, "look")
  /\ \/ /\ pidFile \in Gateways \cap old /\ CanBeHealthy(a)
        /\ StopThen(a, pidFile, "port") /\ UNCHANGED pidFile
     \/ /\ pidFile \in Gateways \ old /\ CanBeHealthy(a)
        /\ Move(a, "register") /\ UNCHANGED pidFile
     \/ pidFile \in Gateways /\ Move(a, "port") /\ UNCHANGED pidFile
     \/ pidFile \notin Gateways /\ Move(a, "port")
        /\ IF pidFile # NoPid /\ gate[pidFile] = "other" THEN ClearFiles ELSE UNCHANGED pidFile
  /\ SameProcesses /\ SameSelection /\ SameRecords /\ Keep

RegisterKnown(a) ==
  At(a, "register") /\ (Registers(a, "http") \/ RegisterFails(a, "port"))

ProbeHttp(a) ==
  /\ At(a, "http") /\ Move(a, IF Listeners # {} THEN "started" ELSE "port")
  /\ OnlyMoves

(* The gateway the port probe names is adopted, or stopped if it drifted.  *)
ProbePortWith(a, drifted) ==
  /\ At(a, "port")
  /\ \/ /\ Found = {} /\ UNCHANGED pidFile
        /\ Become(a, [cmd[a] EXCEPT !.pc = "existing", !.pid = NoPid])
     \/ \E p \in Found :
          /\ Remember(p)
          /\ IF p \in drifted THEN StopThen(a, p, "existing")
             ELSE Become(a, [cmd[a] EXCEPT !.pc = "adopt", !.pid = p])
  /\ SameProcesses /\ SameSelection /\ SameRecords /\ Keep
ProbePortTrusting(a) == ProbePortWith(a, {})   \* mutant: no drift check of the listener
ProbePort(a)         == ProbePortWith(a, old)

Adopt(a) == At(a, "adopt") /\ (Registers(a, "adopted") \/ RegisterFails(a, "existing"))

ProbeAdopted(a) ==
  /\ At(a, "adopted")
  /\ \/ CanBeHealthy(a) /\ Listeners # {} /\ Move(a, "started")
     \/ Move(a, "existing")
  /\ OnlyMoves

Signalled(p) == [gate EXCEPT ![p] = IF @ \in {"up", "end"} THEN "end" ELSE "free"]

(* An existing gateway is asked to end and given a second.                 *)
EndExisting(a) ==
  LET p == IF pidFile # NoPid THEN pidFile ELSE cmd[a].pid IN
  /\ At(a, "existing") /\ Become(a, [cmd[a] EXCEPT !.pc = "spawn", !.pid = NoPid])
  /\ IF p \in Gateways THEN gate' = Signalled(p) /\ UNCHANGED pidFile
     ELSE /\ IF p # NoPid /\ gate[p] = "other" THEN ClearFiles ELSE UNCHANGED pidFile
          /\ UNCHANGED gate
  /\ UNCHANGED old /\ SameSelection /\ SameRecords /\ Keep

SpawnGateway(a) ==
  /\ At(a, "spawn")
  /\ \E p \in Pids :
       /\ gate[p] = "free" /\ gate' = [gate EXCEPT ![p] = "boot"] /\ old' = old \ {p}
       /\ Become(a, [cmd[a] EXCEPT !.pc = "remember", !.pid = p])
  /\ SameSelection /\ SameRecords /\ UNCHANGED pidFile /\ Keep

(* Mutant: the pid of the child is not recorded.                           *)
ForgetChild(a) == At(a, "remember") /\ Move(a, "poll") /\ OnlyMoves
RememberChild(a) ==
  /\ At(a, "remember") /\ Remember(cmd[a].pid) /\ Move(a, "poll")
  /\ SameProcesses /\ SameSelection /\ SameRecords /\ Keep

(* A recovery goes on whether the start succeeded or threw; an onboarding  *)
(* records the step or exits.                                              *)
StartOver(a) ==
  IF cmd[a].op = "connect" THEN Become(a, [cmd[a] EXCEPT !.pc = "select2", !.pid = NoPid]) ELSE Finish(a)

(* The exit of the child is noticed only after an await, which the loop    *)
(* reaches when the gateway is called healthy.                             *)
Poll(a) ==
  /\ At(a, "poll")
  /\ \/ cmd[a].pid \notin Gateways /\ StartOver(a) /\ OnlyMoves
     \/ Registers(a, "ready")
     \/ RegisterFails(a, "poll")

(* isGatewayHealthy and isGatewayTcpReady.  The polls end some time.       *)
(* Mutant: `openshell status' is enough.                                   *)
ReadyIf(a, tcp) ==
  /\ At(a, "ready")
  /\ \/ CanBeHealthy(a) /\ tcp /\ Move(a, "started")
     \/ Move(a, "poll")
     \/ StartOver(a)
  /\ OnlyMoves
ReadyByStatus(a) == ReadyIf(a, TRUE)
CheckReady(a)    == ReadyIf(a, Listeners # {})

(* verifySandboxBridgeGatewayReachableOrExit returns, exits or throws.     *)
VerifyBridge(a) == At(a, "started") /\ StartOver(a) /\ OnlyMoves

-----------------------------------------------------------------------------
(* terminateDockerDriverGatewayProcess, and the files cleared after it.    *)

Terminate(a) ==
  /\ At(a, "terminate")
  /\ IF gate[cmd[a].pid] = "free" THEN Move(a, "clear") /\ UNCHANGED gate
     ELSE Move(a, "wait") /\ gate' = Signalled(cmd[a].pid)
  /\ UNCHANGED <<old, pidFile>> /\ SameSelection /\ SameRecords /\ Keep

(* Ten looks, then SIGKILL.                                                *)
AwaitEnd(a) ==
  /\ At(a, "wait") /\ Move(a, "clear")
  /\ gate' = [gate EXCEPT ![cmd[a].pid] = "free"]
  /\ UNCHANGED <<old, pidFile>> /\ SameSelection /\ SameRecords /\ Keep

ClearStopped(a) ==
  /\ At(a, "clear") /\ ClearFiles
  /\ Become(a, [cmd[a] EXCEPT !.pc = cmd[a].then, !.then = "idle",
                              !.pid = IF cmd[a].then = "existing" THEN @ ELSE NoPid])
  /\ SameProcesses /\ SameSelection /\ SameRecords /\ Keep

-----------------------------------------------------------------------------
(* onboard: the preflight, then the gateway step.                          *)

Judged(a, s, pin) ==
  Become(a, [cmd[a] EXCEPT !.reuse = s, !.pin = pin,
                           !.pc = IF cmd[a].op = "preflight" THEN "busy" ELSE "handler"])
Refreshes(a, pin) == Become(a, [cmd[a] EXCEPT !.pc = "refresh", !.pin = pin])

(* selectNamedGatewayForReuseIfNeeded.                                     *)
Snapshot(a) ==
  /\ At(a, "snapshot")
  /\ \E s \in ReuseStates(a) :
       \/ s = "foreign" /\ meta /\ Move(a, "named")
       \/ s = "healthy" /\ Refreshes(a, cmd[a].pin)
       \/ s \notin {"foreign", "healthy"} /\ Judged(a, s, cmd[a].pin)
       \/ s = "foreign" /\ ~meta /\ Judged(a, s, cmd[a].pin)
  /\ OnlyMoves

SelectForReuse(a) == At(a, "named") /\ SelectThen(a, "again")

SnapshotAgain(a) ==
  /\ At(a, "again")
  /\ \E s \in ReuseStates(a) :
       IF s = "healthy" THEN Refreshes(a, TRUE) ELSE Judged(a, s, cmd[a].pin)
  /\ OnlyMoves

(* refreshDockerDriverGatewayReuseState.                                   *)
Verdict(p) == IF p \in old THEN "stale" ELSE "healthy"
Refresh(a) ==
  /\ At(a, "refresh")
  /\ \/ /\ pidFile \in Gateways /\ UNCHANGED pidFile
        /\ Judged(a, Verdict(pidFile), cmd[a].pin)
     \/ /\ pidFile \notin Gateways
        /\ \/ \E p \in Found : Remember(p) /\ Judged(a, Verdict(p), cmd[a].pin)
           \/ /\ Found = {}
              /\ IF pidFile # NoPid /\ gate[pidFile] = "other" THEN ClearFiles ELSE UNCHANGED pidFile
              /\ Judged(a, IF Listeners # {} THEN "healthy" ELSE "stale", cmd[a].pin)
  /\ SameProcesses /\ SameSelection /\ SameRecords /\ Keep

(* The port check of the preflight: a gateway behind it is remembered; an  *)
(* owner it cannot name ends the run unless the gateway is called healthy. *)
Step(a) == Become(a, [cmd[a] EXCEPT !.pc = "snapshot", !.op = "step", !.reuse = "none"])
CheckPort(a) ==
  /\ At(a, "busy")
  /\ \/ (cmd[a].reuse = "healthy" \/ Listeners = {}) /\ Step(a) /\ UNCHANGED pidFile
     \/ cmd[a].reuse # "healthy" /\ \E p \in Found : Remember(p) /\ Step(a)
     \/ cmd[a].reuse # "healthy" /\ Listeners # {} /\ Found = {} /\ Finish(a) /\ UNCHANGED pidFile
  /\ SameProcesses /\ SameSelection /\ SameRecords /\ Keep

(* handleGatewayState.  A healthy gateway is reused, except on a resume    *)
(* whose session has no complete gateway step.                             *)
HandleGateway(a) ==
  /\ At(a, "handler")
  /\ \/ cmd[a].reuse = "healthy" /\ Finish(a)
     \/ /\ cmd[a].reuse \in {"missing", "healthy", "foreign", "stale"}
        /\ Become(a, [cmd[a] EXCEPT !.reuse = "none",
                                    !.pc = IF cmd[a].reuse = "missing" THEN "look" ELSE "stop"])
  /\ OnlyMoves

(* retireLegacyGatewayForDockerDriverUpgrade: stopDockerDriverGateway-     *)
(* Process and removeDockerDriverGatewayRegistration.                      *)
(* Mutant: whatever runs under the recorded pid is stopped.                *)
StopIf(a, ours) ==
  /\ At(a, "stop")
  /\ IF pidFile \in ours THEN StopThen(a, pidFile, "unregister") /\ UNCHANGED pidFile
     ELSE ClearFiles /\ Move(a, "unregister")
  /\ SameProcesses /\ SameSelection /\ SameRecords /\ Keep
StopAnything(a) == StopIf(a, {p \in Pids : gate[p] # "free"})
Stop(a)         == StopIf(a, Gateways)

Unregister(a) ==
  /\ At(a, "unregister") /\ Move(a, "look")
  /\ meta' = FALSE /\ active' = (IF active = "ours" THEN "none" ELSE active)
  /\ SameProcesses /\ SameRecords /\ UNCHANGED pidFile /\ Keep

-----------------------------------------------------------------------------
(* The commands.                                                           *)

(* A connect or status is of a registered sandbox; one onboarding runs at  *)
(* a time (OnboardLock).                                                   *)
Begin(a) ==
  /\ At(a, "idle") /\ gateCmds < MaxGateCmds /\ gateCmds' = gateCmds + 1
  /\ \/ entry /\ Become(a, [NoCmd EXCEPT !.pc = "lookup", !.op = "connect"])
     \/ /\ \A b \in Actors : cmd[b].op \in {"none", "connect"}
        /\ Become(a, [NoCmd EXCEPT !.pc = "snapshot", !.op = "preflight"])
  /\ SameProcesses /\ SameSelection /\ SameRecords /\ UNCHANGED <<pidFile, blind, gateEvents>>

Connecting(a) ==
  \/ Lookup(a) \/ Reconcile(a) \/ Reselect(a) \/ Retry(a) \/ Reclassify(a) \/ Guard(a)
  \/ RemoveEntry(a) \/ ForgetName(a)
  \/ Before(a) \/ SelectNamed(a) \/ After1(a) \/ After2(a) \/ Recovered(a)

Starting(a) ==
  \/ LookAtPidFile(a) \/ RegisterKnown(a) \/ ProbeHttp(a) \/ ProbePort(a) \/ Adopt(a)
  \/ ProbeAdopted(a) \/ EndExisting(a) \/ SpawnGateway(a) \/ RememberChild(a)
  \/ Poll(a) \/ CheckReady(a) \/ VerifyBridge(a)

Stopping(a) == Terminate(a) \/ AwaitEnd(a) \/ ClearStopped(a)

Onboarding(a) ==
  \/ Snapshot(a) \/ SelectForReuse(a) \/ SnapshotAgain(a) \/ Refresh(a) \/ CheckPort(a)
  \/ HandleGateway(a) \/ Stop(a) \/ Unregister(a)

CommandStep(a) == Begin(a) \/ Connecting(a) \/ Starting(a) \/ Stopping(a) \/ Onboarding(a)

-----------------------------------------------------------------------------
(* The environment.                                                        *)

(* A gateway that boots binds the port or dies; one that was signalled     *)
(* ends.                                                                   *)
Settle ==
  /\ \/ \E p \in Pids : /\ gate[p] = "boot"
                        /\ gate' = [gate EXCEPT ![p] = IF Listeners = {} THEN "up" ELSE "free"]
     \/ \E p \in Pids : gate[p] = "end" /\ gate' = [gate EXCEPT ![p] = "free"]
  /\ UNCHANGED <<old, pidFile, selection, blind, records, cmd, budgets>>

Event == gateEvents < MaxGateEvents /\ gateEvents' = gateEvents + 1 /\ UNCHANGED <<gateCmds, blind>>

(* A gateway crashes, or another process gets a free pid.                  *)
ProcessEvent ==
  /\ Event
  /\ \E p \in Pids :
       \/ p \in Gateways /\ gate' = [gate EXCEPT ![p] = "free"]
       \/ gate[p] = "free" /\ gate' = [gate EXCEPT ![p] = "other"]
  /\ UNCHANGED <<old, pidFile, selection, records, cmd>>

(* Another executable or other settings: what runs is outdated.            *)
Upgrade ==
  /\ Event /\ Gateways \ old # {} /\ old' = old \cup Gateways
  /\ UNCHANGED <<gate, pidFile, selection, records, cmd>>

UserSelects ==
  /\ Event /\ \E g \in {"other"} \cup (IF meta THEN {"ours"} ELSE {}) : g # active /\ active' = g
  /\ UNCHANGED <<processes, pidFile, meta, records, cmd>>

SandboxDeleted ==
  /\ Event /\ live /\ live' = FALSE
  /\ UNCHANGED <<processes, pidFile, selection, entry, named, cmd>>

KillCommand ==
  /\ Event /\ \E a \in Actors : cmd[a].pc # "idle" /\ Finish(a)
  /\ UNCHANGED <<processes, pidFile, selection, records>>

(* After a reboot other processes may have the old pids.                   *)
Reboot ==
  /\ Event
  /\ \E q \in SUBSET Pids :
       gate' = [p \in Pids |-> IF p \in q \/ gate[p] = "other" THEN "other" ELSE "free"]
  /\ old' = {} /\ cmd' = [a \in Actors |-> NoCmd]
  /\ UNCHANGED <<pidFile, selection, records>>

Environment ==
  ProcessEvent \/ Upgrade \/ UserSelects \/ SandboxDeleted \/ KillCommand \/ Reboot

-----------------------------------------------------------------------------
(* The history beside each command, and the specification.                 *)

Doubting == {"reconcile", "reclassify", "guard", "remove"}
Witnessed(b) ==
  LET runs == cmd'[b].pc # "idle" IN
  [still |-> hist[b].still /\ runs /\ active' = active /\ meta' = meta,
   alone |-> FALSE,
   same  |-> hist[b].same /\ runs /\ gate'[cmd[b].pid] # "other"]
Done(a) ==
  LET l == cmd'[a].pc IN
  [still |-> l \in Doubting /\ (cmd[a].pc \in {"lookup", "retry", "recovered"} \/ hist[a].still),
   alone |-> l \in StartPc \cup StopPc
             /\ IF l = "look" /\ cmd[a].pc # "look" THEN Unsettled = {} ELSE hist[a].alone,
   same  |-> l = "terminate" \/ (l = "wait" /\ hist[a].same)]
Unsettles(b) ==
  [Witnessed(b) EXCEPT !.alone = hist[b].alone]

GateInit ==
  /\ gate \in {[p \in Pids |-> "free"]} \cup
              {[p \in Pids |-> IF p = q THEN "up" ELSE "free"] : q \in Pids}
  /\ old \in SUBSET Gateways /\ pidFile \in Gateways \cup {NoPid}
  /\ meta \in BOOLEAN /\ active \in {"other", IF meta THEN "ours" ELSE "none"}
  /\ blind \in BOOLEAN /\ live = TRUE /\ entry = TRUE /\ named = TRUE
  /\ cmd = [a \in Actors |-> NoCmd]
  /\ hist = [a \in Actors |-> [still |-> FALSE, alone |-> FALSE, same |-> FALSE]]
  /\ gateCmds = 0 /\ gateEvents = 0

GateNext ==
  \/ \E a \in Actors : /\ CommandStep(a)
                       /\ hist' = [b \in Actors |-> IF b = a THEN Done(a) ELSE Witnessed(b)]
  \/ Settle /\ hist' = [b \in Actors |-> Unsettles(b)]
  \/ Environment /\ hist' = [b \in Actors |-> Witnessed(b)]

GateSpec == GateInit /\ [][GateNext]_gateVars

-----------------------------------------------------------------------------
(* Properties.                                                             *)

(* connect and status remove the registry entry only of a sandbox that our *)
(* gateway no longer has, whichever gateway was selected when they began,  *)
(* unless another process changed the selection after the last lookup.     *)
RemovedWasGone ==
  [][\A a \in Actors : At(a, "remove") /\ entry' # entry => ~live \/ ~hist[a].still]_gateVars

(* A start that reports success, undisturbed and with a port probe that    *)
(* names processes, leaves a current gateway on the port, and its pid in   *)
(* the pid file; unless a gateway that was asked to end still listens.     *)
StartDelivers ==
  [][\A a \in Actors :
       /\ ~At(a, "started") /\ cmd'[a].pc = "started"
       /\ hist[a].alone /\ ~blind /\ \A p \in Pids : gate[p] # "end"
       => pidFile \in Listeners \ old]_gateVars

(* Only gateways are signalled: another process is, at most, if it took    *)
(* the pid between the check of its identity and the signal.               *)
StrangersAreSpared ==
  [][\A p \in Pids : gate[p] = "other" /\ gate'[p] = "free" =>
       \E a \in Actors : /\ cmd[a].pc \in {"terminate", "wait"} /\ cmd[a].pid = p
                         /\ ~hist[a].same]_gateVars

-----------------------------------------------------------------------------
(* Inductive invariants, for the proofs.                                   *)

(* Whoever doubts the entry saw no sandbox through our gateway, if it is   *)
(* ours that it sees now; at the removal it is.                            *)
DoubtIInv ==
  \A a \in Actors : hist[a].still /\ cmd[a].pc \in Doubting =>
    /\ Sees(a) = "ours" => ~live
    /\ At(a, "remove") => Sees(a) = "ours"

(* The process about to be signalled is no stranger, unless it came later. *)
TargetIInv ==
  \A a \in Actors : hist[a].same /\ cmd[a].pc \in {"terminate", "wait"} =>
    cmd[a].pid \in Pids /\ gate[cmd[a].pid] # "other"

(* One process listens.                                                    *)
LoneListener == \A p, q \in Listeners : p = q

(* What an undisturbed start knows at each of its steps.                   *)
StartKnows(a) ==
  LET l == cmd[a].pc  p == cmd[a].pid IN
  /\ l \in StartPc \cup StopPc
  /\ l \in {"look", "register", "http", "port", "adopt", "adopted", "existing"} => Unsettled = {}
  /\ l \in {"register", "http", "adopt", "adopted"} => pidFile \in Listeners \ old
  /\ l \in {"terminate", "wait", "clear"} =>
       cmd[a].then \in {"port", "existing"} /\ p \in Pids /\ Gateways \subseteq {p}
  /\ l = "clear" => Gateways = {}
  /\ l = "existing" => Gateways \subseteq {pidFile}
  /\ l = "spawn" => \A q \in Gateways : gate[q] = "end"
  /\ l \in {"remember", "poll", "ready"} =>
       p \in Pids \ old /\ \A q \in Gateways : q = p \/ gate[q] = "end"
  /\ l \in {"poll", "ready"} => pidFile = p
StartIInv == \A a \in Actors : hist[a].alone /\ ~blind => StartKnows(a)
=============================================================================
