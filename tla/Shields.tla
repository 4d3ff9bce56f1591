------------------------------- MODULE Shields -------------------------------
(***************************************************************************)
(* The shields of one sandbox: src/lib/shields/{index,timer,timer-control} *)
(* and the rebuild window of src/lib/actions/sandbox/rebuild-shields.ts.   *)
(*                                                                         *)
(* A command process runs `shields down', `shields up', `shields status'   *)
(* or a rebuild window.  Every file operation and every openshell or       *)
(* kubectl call is one step, so that other commands, the detached          *)
(* auto-restore timer, a crash or a reboot may come between two of them.   *)
(* The read, merge and write of a save are one step (the patch replaces    *)
(* all that the model keeps but the snapshot path), and so are the checks  *)
(* of killTimer and its signal.                                            *)
(*                                                                         *)
(* Time is abstracted to the set `due' of the timers whose restoreAt has   *)
(* passed.  A timer is named by its random processToken.                   *)
(***************************************************************************)
EXTENDS Integers

CONSTANTS
  Cli,          \* command processes, each running one command at a time
  Token,        \* processToken of each auto-restore timer
  Pid,          \* operating system process ids
  Snap,         \* names of policy-snapshot-<ts>.yaml files
  NoToken, NoPid, NoSnap,
  MaxFaults,    \* bound: external calls that may fail in a behaviour
  MaxCrashes,   \* bound: processes killed, and reboots, in a behaviour
  PromptMark    \* TRUE: no restoreAt passes between the fork and the marker

ASSUME NamesAssumption ==
  NoToken \notin Token /\ NoPid \notin Pid /\ NoSnap \notin Snap
ASSUME BoundsAssumption ==
  MaxFaults \in Nat /\ MaxCrashes \in Nat /\ PromptMark \in BOOLEAN

VARIABLES
  file,     \* shields-<name>.json: readable?, shieldsDown, snapshot path
  policy,   \* the network policy live in the sandbox
  cfg,      \* permissions of the agent config tree in the sandbox
  content,  \* what each snapshot file holds
  marker,   \* shields-timer-<name>.json: no or one record
  timer,    \* the timer process of each token
  others,   \* pids held by unrelated processes
  due,      \* tokens whose restoreAt has passed
  cli,      \* program counter and locals of each command process
  faults, crashes,
  unrecorded  \* a `shields down' ended with the sandbox relaxed and no record of it

sandboxVars == <<policy, cfg>>
timerVars   == <<timer, others, due>>
budgets     == <<faults, crashes, unrecorded>>
vars == <<file, sandboxVars, content, marker, timerVars, cli, budgets>>

DownPc     == {"d_load", "d_kill", "d_clear", "d_capture", "d_apply", "d_unlock",
               "d_save", "d_fork", "d_mark", "rb_set", "rb_lock", "rb_save", "w_open"}
UpPc       == {"u_load", "u_verify", "u_relock", "u_resave", "u_kill", "u_killclear",
               "u_restore", "u_lock", "u_firstlock", "u_chattr", "u_save", "u_clear"}
StatusPc   == {"s_marker", "s_restore", "s_lock", "s_save", "s_clear"}
SavePc     == {"d_save", "rb_save", "u_resave", "u_chattr", "u_save", "s_save"}
TimerSaves == {"t_saveUp", "t_saveDown"}

File   == [kind : {"absent", "ok", "corrupt"}, down : {"undef", "yes", "no"},
           snap : Snap \cup {NoSnap}]
Marker == [token : Token, pid : Pid, snap : Snap]
Timer  == [pc : {"dead", "sleep", "t_set", "t_lock", "t_end"} \cup TimerSaves,
           pid : Pid \cup {NoPid}, snap : Snap \cup {NoSnap}]
Proc   == [pc : {"idle"} \cup DownPc \cup UpPc \cup StatusPc,
           down : {"undef", "yes", "no"}, snap : Snap \cup {NoSnap},
           token : Token \cup {NoToken}, pid : Pid \cup {NoPid}, window : {"none", "open", "retried"}]

Idle      == [pc |-> "idle", down |-> "undef", snap |-> NoSnap, token |-> NoToken,
              pid |-> NoPid, window |-> "none"]
DeadTimer == [pc |-> "dead", pid |-> NoPid, snap |-> NoSnap]

Init ==
  /\ file = [kind |-> "absent", down |-> "undef", snap |-> NoSnap]
  /\ policy = "restrictive" /\ cfg = "mutable"
  /\ content = [s \in Snap |-> "missing"]
  /\ marker = {} /\ timer = [t \in Token |-> DeadTimer]
  /\ others = {} /\ due = {}
  /\ cli = [c \in Cli |-> Idle]
  /\ faults = 0 /\ crashes = 0 /\ unrecorded = FALSE

-----------------------------------------------------------------------------
(* Helpers shared by the commands and the timer.                           *)

Step(c, from, to) == cli[c].pc = from /\ cli' = [cli EXCEPT ![c].pc = to]
Finish(c, from)   == cli[c].pc = from /\ cli' = [cli EXCEPT ![c] = Idle]

NoFault == UNCHANGED budgets
Fault   == faults < MaxFaults /\ faults' = faults + 1 /\ UNCHANGED <<crashes, unrecorded>>
Crash   == crashes < MaxCrashes /\ crashes' = crashes + 1 /\ UNCHANGED <<faults, unrecorded>>

(* The failure that nothing rolls back: `shields down' throws after the    *)
(* policy is relaxed and before the record (index.ts:934-972).             *)
Unrecorded ==
  faults < MaxFaults /\ faults' = faults + 1 /\ crashes' = crashes /\ unrecorded' = TRUE

(* saveShieldsState and updateState merge a patch into what is on disk; an *)
(* unreadable file contributes nothing.                                    *)
Merged(down, snap) ==
  [kind |-> "ok", down |-> down,
   snap |-> IF snap # NoSnap THEN snap
            ELSE IF file.kind = "ok" THEN file.snap ELSE NoSnap]
FileDown == IF file.kind = "ok" THEN file.down ELSE "undef"

(* `openshell policy set' from a snapshot file that still exists.          *)
Kept       == {s \in Snap : content[s] # "missing"}
Restore(s) == s \in Kept /\ policy' = content[s]

(* The privileged chmod/chown/chattr sequences are idempotent.  A failed   *)
(* one may have done any part of its work, or all and failed to verify it. *)
Locked   == cfg' = "locked"
Unlocked == cfg' = "mutable"
LockFailed   == cfg' \in {cfg, "locked"} \cup (IF cfg = "locked" THEN {} ELSE {"mixed"})
UnlockFailed == cfg' \in {cfg, "mutable"} \cup (IF cfg = "mutable" THEN {} ELSE {"mixed"})

Live(t)     == timer[t].pc # "dead"
(* Mutant: any process alive at the recorded pid is taken for the timer.   *)
VerifiedByPid(m) == m.pid \in others \/ Live(m.token)

Verified(m) == Live(m.token) /\ timer[m.token].pid = m.pid
PidFree(p)  == p \notin others /\ \A t \in Token : timer[t].pid # p

(* writeFileSync truncates first: one that fails, or whose process is      *)
(* killed, may leave a file that does not parse.                           *)
Torn(saving) ==
  \/ UNCHANGED file
  \/ saving /\ file' = [kind |-> "corrupt", down |-> "undef", snap |-> NoSnap]

(* killTimer, up to the signal: the process at the recorded pid gets it,   *)
(* but only when its command line carries the recorded token.              *)
Signalled == {m.pid : m \in {n \in marker : Verified(n)}}
Signal ==
  /\ Torn(\E t \in Token : timer[t].pid \in Signalled /\ timer[t].pc \in TimerSaves)
  /\ timer' = [t \in Token |-> IF timer[t].pid \in Signalled THEN DeadTimer ELSE timer[t]]
  /\ others' = others \ Signalled
  /\ due' = due

FreshSnap(s) ==
  /\ s # file.snap /\ \A m \in marker : m.snap # s
  /\ \A t \in Token : timer[t].snap # s
  /\ \A c \in Cli : cli[c].snap # s
FreshToken(t) ==
  /\ ~Live(t) /\ \A m \in marker : m.token # t
  /\ \A c \in Cli : cli[c].token # t

-----------------------------------------------------------------------------
(* shields down                                                            *)

StartDown(c) ==
  /\ Step(c, "idle", "d_load")
  /\ UNCHANGED <<file, sandboxVars, content, marker, timerVars, budgets>>

(* openRebuildShieldsWindow: a corrupt file counts as locked.              *)
StartRebuild(c) ==
  /\ cli[c].pc = "idle" /\ (file.kind = "corrupt" \/ FileDown = "no")
  /\ cli' = [cli EXCEPT ![c] = [Idle EXCEPT !.pc = "d_load", !.window = "open"]]
  /\ UNCHANGED <<file, sandboxVars, content, marker, timerVars, budgets>>

(* Mutants: no check for an open window; the check made after the kill.    *)
DownLoadUnguarded(c) ==
  /\ Step(c, "d_load", "d_kill")
  /\ UNCHANGED <<file, sandboxVars, content, marker, timerVars, budgets>>
DownLoadAfterKill(c) ==
  /\ \/ FileDown = "yes" /\ Finish(c, "d_load") /\ Signal /\ marker' = {}
     \/ FileDown # "yes" /\ Step(c, "d_load", "d_kill") /\ UNCHANGED <<file, marker, timerVars>>
  /\ UNCHANGED <<sandboxVars, content, budgets>>

DownLoad(c) ==
  /\ \/ FileDown = "yes" /\ Finish(c, "d_load")
     \/ FileDown # "yes" /\ Step(c, "d_load", "d_kill")
  /\ UNCHANGED <<file, sandboxVars, content, marker, timerVars, budgets>>

DownKill(c) ==
  /\ Step(c, "d_kill", "d_clear") /\ Signal
  /\ UNCHANGED <<sandboxVars, content, marker, budgets>>

DownClear(c) ==
  /\ Step(c, "d_clear", "d_capture") /\ marker' = {}
  /\ UNCHANGED <<file, sandboxVars, content, timerVars, budgets>>

DownCapture(c) ==
  /\ \/ /\ cli[c].pc = "d_capture" /\ NoFault
        /\ \E s \in Snap :
             /\ FreshSnap(s)
             /\ content' = [content EXCEPT ![s] = policy]
             /\ cli' = [cli EXCEPT ![c] = [@ EXCEPT !.pc = "d_apply", !.snap = s]]
     \/ Finish(c, "d_capture") /\ Fault /\ UNCHANGED content
  /\ UNCHANGED <<file, sandboxVars, marker, timerVars>>

(* `policy set --wait' may fail after the gateway took the policy, and so  *)
(* may the removal of the temporary policy file in the `finally'.          *)
DownApply(c) ==
  /\ \/ Step(c, "d_apply", "d_unlock") /\ NoFault /\ policy' = "permissive"
     \/ Finish(c, "d_apply") /\ Fault /\ UNCHANGED policy
     \/ Finish(c, "d_apply") /\ Unrecorded /\ policy' = "permissive"
  /\ UNCHANGED <<file, cfg, content, marker, timerVars>>

DownUnlock(c) ==
  /\ \/ Step(c, "d_unlock", "d_save") /\ NoFault /\ Unlocked
     \/ Step(c, "d_unlock", "rb_set") /\ Fault /\ UnlockFailed
  /\ UNCHANGED <<file, policy, content, marker, timerVars>>

(* The save is outside any `try': a failing one ends the command at once.  *)
DownSave(c) ==
  /\ \/ /\ Step(c, "d_save", IF cli[c].window = "none" THEN "d_fork" ELSE "w_open")
        /\ NoFault /\ file' = Merged("yes", cli[c].snap)
     \/ Finish(c, "d_save") /\ Unrecorded /\ Torn(TRUE)
  /\ UNCHANGED <<sandboxVars, content, marker, timerVars>>

(* Mutants: the marker will get no pid; or that of another process.        *)
DownForkPid(c, Recorded(_)) ==
  /\ cli[c].pc = "d_fork" /\ NoFault
  /\ \E t \in Token, p \in Pid :
       /\ FreshToken(t) /\ PidFree(p)
       /\ timer' = [timer EXCEPT ![t] = [pc |-> "sleep", pid |-> p, snap |-> cli[c].snap]]
       /\ \E q \in Recorded(p) :
            cli' = [cli EXCEPT ![c] = [@ EXCEPT !.pc = "d_mark", !.token = t, !.pid = q]]
       /\ due' = due \ {t}
  /\ UNCHANGED <<file, sandboxVars, content, marker, others>>
DownForkNoPid(c)    == DownForkPid(c, LAMBDA p : {NoPid})
DownForkOtherPid(c) == DownForkPid(c, LAMBDA p : Pid \ {p})

DownFork(c) ==
  /\ \/ /\ cli[c].pc = "d_fork" /\ NoFault
        /\ \E t \in Token, p \in Pid :
             /\ FreshToken(t) /\ PidFree(p)
             /\ timer' = [timer EXCEPT ![t] =
                            [pc |-> "sleep", pid |-> p, snap |-> cli[c].snap]]
             /\ cli' = [cli EXCEPT ![c] = [@ EXCEPT !.pc = "d_mark", !.token = t, !.pid = p]]
             /\ due' = due \ {t}
     \/ Step(c, "d_fork", "rb_set") /\ Fault /\ UNCHANGED <<timer, due>>
  /\ UNCHANGED <<file, sandboxVars, content, marker, others>>

DownMark(c) ==
  /\ \/ /\ Finish(c, "d_mark") /\ NoFault
        /\ marker' = {[token |-> cli[c].token, pid |-> cli[c].pid, snap |-> cli[c].snap]}
     \/ Step(c, "d_mark", "rb_set") /\ Fault /\ marker' \in {marker, {}}
  /\ UNCHANGED <<file, sandboxVars, content, timerVars>>

(* rollbackShieldsDown                                                     *)
RollbackSet(c) ==
  /\ \/ Step(c, "rb_set", "rb_lock") /\ NoFault /\ Restore(cli[c].snap)
     \/ Finish(c, "rb_set") /\ Fault /\ UNCHANGED policy
     \/ /\ Finish(c, "rb_set") /\ cli[c].snap \notin Kept
        /\ NoFault /\ UNCHANGED policy
  /\ UNCHANGED <<file, cfg, content, marker, timerVars>>

RollbackLock(c) ==
  /\ \/ Step(c, "rb_lock", "rb_save") /\ NoFault /\ Locked
     \/ Finish(c, "rb_lock") /\ Fault /\ LockFailed
  /\ UNCHANGED <<file, policy, content, marker, timerVars>>

RollbackSave(c) ==
  /\ Finish(c, "rb_save")
  /\ \/ NoFault /\ file' = Merged("no", NoSnap)
     \/ Fault /\ Torn(TRUE)
  /\ UNCHANGED <<sandboxVars, content, marker, timerVars>>

-----------------------------------------------------------------------------
(* shields up                                                              *)

StartUp(c) ==
  /\ Step(c, "idle", "u_load")
  /\ UNCHANGED <<file, sandboxVars, content, marker, timerVars, budgets>>

(* relockRebuildShieldsWindow                                              *)
CloseWindow(c) ==
  /\ Step(c, "w_open", "u_load")
  /\ UNCHANGED <<file, sandboxVars, content, marker, timerVars, budgets>>

(* A failed `shields up' ends the command; under a rebuild that throws,    *)
(* the `finally' of rebuildSandbox relocks once more.                      *)
UpGivesUp(c, from) ==
  \/ Finish(c, from)
  \/ /\ cli[c].pc = from /\ cli[c].window = "open"
     /\ cli' = [cli EXCEPT ![c] = [Idle EXCEPT !.pc = "w_open", !.window = "retried"]]

UpLoad(c) ==
  /\ cli[c].pc = "u_load"
  /\ cli' = [cli EXCEPT ![c] = [@ EXCEPT
               !.pc = IF FileDown = "no" THEN "u_verify" ELSE "u_kill",
               !.down = FileDown,
               !.snap = IF FileDown = "yes" THEN file.snap ELSE NoSnap]]
  /\ UNCHANGED <<file, sandboxVars, content, marker, timerVars, budgets>>

UpVerify(c) ==
  /\ \/ Step(c, "u_verify", "u_clear") /\ cfg = "locked" /\ NoFault
     \/ /\ Step(c, "u_verify", "u_relock")
        /\ (cfg # "locked" /\ NoFault) \/ Fault
  /\ UNCHANGED <<file, sandboxVars, content, marker, timerVars>>

UpRelock(c) ==
  /\ \/ Step(c, "u_relock", "u_resave") /\ NoFault /\ Locked
     \/ UpGivesUp(c, "u_relock") /\ Fault /\ LockFailed
  /\ UNCHANGED <<file, policy, content, marker, timerVars>>

UpResave(c) ==
  /\ \/ Step(c, "u_resave", "u_clear") /\ NoFault /\ file' = Merged("no", NoSnap)
     \/ UpGivesUp(c, "u_resave") /\ Fault /\ Torn(TRUE)
  /\ UNCHANGED <<sandboxVars, content, marker, timerVars>>

UpKill(c) ==
  /\ Step(c, "u_kill", "u_killclear") /\ Signal
  /\ UNCHANGED <<sandboxVars, content, marker, budgets>>

UpKillClear(c) ==
  /\ Step(c, "u_killclear", IF cli[c].down = "yes" THEN "u_restore" ELSE "u_firstlock")
  /\ marker' = {}
  /\ UNCHANGED <<file, sandboxVars, content, timerVars, budgets>>

UpRestore(c) ==
  /\ \/ Step(c, "u_restore", "u_lock") /\ NoFault /\ Restore(cli[c].snap)
     \/ /\ UpGivesUp(c, "u_restore") /\ NoFault /\ UNCHANGED policy
        /\ cli[c].snap \notin Kept
     \/ UpGivesUp(c, "u_restore") /\ Fault /\ UNCHANGED policy
  /\ UNCHANGED <<file, cfg, content, marker, timerVars>>

UpLock(c) ==
  /\ \/ Step(c, "u_lock", "u_save") /\ NoFault /\ Locked
     \/ UpGivesUp(c, "u_lock") /\ Fault /\ LockFailed
  /\ UNCHANGED <<file, policy, content, marker, timerVars>>

(* Not coming from shields-down: the live policy is taken for the          *)
(* restrictive baseline and is left alone.                                 *)
UpFirstLock(c) ==
  /\ \/ Step(c, "u_firstlock", "u_chattr") /\ NoFault /\ Locked
     \/ UpGivesUp(c, "u_firstlock") /\ Fault /\ LockFailed
  /\ UNCHANGED <<file, policy, content, marker, timerVars>>

UpChattr(c) ==
  /\ \/ Step(c, "u_chattr", "u_save") /\ NoFault /\ file' = Merged(FileDown, NoSnap)
     \/ UpGivesUp(c, "u_chattr") /\ Fault /\ Torn(TRUE)
  /\ UNCHANGED <<sandboxVars, content, marker, timerVars>>

UpSave(c) ==
  /\ \/ Step(c, "u_save", "u_clear") /\ NoFault /\ file' = Merged("no", NoSnap)
     \/ UpGivesUp(c, "u_save") /\ Fault /\ Torn(TRUE)
  /\ UNCHANGED <<sandboxVars, content, marker, timerVars>>

UpClear(c) ==
  /\ Finish(c, "u_clear") /\ marker' = {}
  /\ UNCHANGED <<file, sandboxVars, content, timerVars, budgets>>

-----------------------------------------------------------------------------
(* shields status (and doctor): inline recovery of an expired auto-restore *)

StartStatus(c) ==
  /\ FileDown = "yes" /\ Step(c, "idle", "s_marker")
  /\ UNCHANGED <<file, sandboxVars, content, marker, timerVars, budgets>>

(* Mutant: a live pid is taken for the timer, whoever holds it.            *)
AbandonedByPid(m) == m.token \in due /\ m.pid \notin others /\ ~Live(m.token)

Abandoned(m) == m.token \in due /\ ~Verified(m)

StatusMarker(c) ==
  /\ \/ \E m \in marker :
          /\ Abandoned(m) /\ cli[c].pc = "s_marker"
          /\ cli' = [cli EXCEPT ![c] = [@ EXCEPT !.pc = "s_restore", !.snap = m.snap]]
     \/ (\A m \in marker : ~Abandoned(m)) /\ Finish(c, "s_marker")
  /\ UNCHANGED <<file, sandboxVars, content, marker, timerVars, budgets>>

StatusRestore(c) ==
  /\ \/ Step(c, "s_restore", "s_lock") /\ NoFault /\ Restore(cli[c].snap)
     \/ /\ Finish(c, "s_restore") /\ cli[c].snap \notin Kept
        /\ NoFault /\ UNCHANGED policy
     \/ Finish(c, "s_restore") /\ Fault /\ UNCHANGED policy
  /\ UNCHANGED <<file, cfg, content, marker, timerVars>>

StatusLock(c) ==
  /\ \/ Step(c, "s_lock", "s_save") /\ NoFault /\ Locked
     \/ Finish(c, "s_lock") /\ Fault /\ LockFailed
  /\ UNCHANGED <<file, policy, content, marker, timerVars>>

StatusSave(c) ==
  /\ \/ Step(c, "s_save", "s_clear") /\ NoFault /\ file' = Merged("no", NoSnap)
     \/ Finish(c, "s_save") /\ Fault /\ Torn(TRUE)
  /\ UNCHANGED <<sandboxVars, content, marker, timerVars>>

StatusClear(c) ==
  /\ Finish(c, "s_clear") /\ marker' = {}
  /\ UNCHANGED <<file, sandboxVars, content, timerVars, budgets>>

-----------------------------------------------------------------------------
(* The detached auto-restore timer: runRestoreTimer                        *)

Own(t)     == [token |-> t, pid |-> timer[t].pid, snap |-> timer[t].snap]
Matches(t) == Own(t) \in marker
TimerStep(t, from, to) ==
  /\ timer[t].pc = from /\ timer' = [timer EXCEPT ![t].pc = to]
  /\ UNCHANGED <<others, due>>
TimerExit(t, from) ==
  /\ timer[t].pc = from /\ timer' = [timer EXCEPT ![t] = DeadTimer]
  /\ UNCHANGED <<others, due>>

(* Mutant: a woken timer does not look for its marker.                     *)
TimerWakeUnchecked(t) ==
  /\ t \in due /\ TimerStep(t, "sleep", "t_set")
  /\ UNCHANGED <<file, sandboxVars, content, marker, cli, budgets>>

TimerWake(t) ==
  /\ t \in due
  /\ \/ ~Matches(t) /\ TimerExit(t, "sleep")
     \/ /\ Matches(t) /\ timer[t].snap \notin Kept
        /\ TimerStep(t, "sleep", "t_end")
     \/ /\ Matches(t) /\ timer[t].snap \in Kept
        /\ TimerStep(t, "sleep", "t_set")
  /\ UNCHANGED <<file, sandboxVars, content, marker, cli, budgets>>

TimerSet(t) ==
  /\ \/ TimerStep(t, "t_set", "t_lock") /\ NoFault /\ Restore(timer[t].snap)
     \/ /\ TimerStep(t, "t_set", "t_end") /\ timer[t].snap \notin Kept
        /\ NoFault /\ UNCHANGED policy
     \/ TimerStep(t, "t_set", "t_end") /\ Fault /\ UNCHANGED policy
  /\ UNCHANGED <<file, cfg, content, marker, cli>>

(* Mutants: lockdown recorded on a failed re-lock; not recorded at all.    *)
TimerLockUnverified(t) ==
  /\ TimerStep(t, "t_lock", "t_saveUp")
  /\ (NoFault /\ Locked) \/ (Fault /\ LockFailed)
  /\ UNCHANGED <<file, policy, content, marker, cli>>
TimerLockForgets(t) ==
  /\ TimerStep(t, "t_lock", "t_end") /\ NoFault /\ Locked
  /\ UNCHANGED <<file, policy, content, marker, cli>>

TimerLock(t) ==
  /\ \/ TimerStep(t, "t_lock", "t_saveUp") /\ NoFault /\ Locked
     \/ TimerStep(t, "t_lock", "t_saveDown") /\ Fault /\ LockFailed
  /\ UNCHANGED <<file, policy, content, marker, cli>>

(* updateState swallows a failing write.                                   *)
TimerSave(t) ==
  /\ \/ TimerStep(t, "t_saveUp", "t_end") /\ NoFault /\ file' = Merged("no", NoSnap)
     \/ TimerStep(t, "t_saveDown", "t_end") /\ NoFault /\ file' = Merged("yes", NoSnap)
     \/ /\ \E from \in TimerSaves : TimerStep(t, from, "t_end")
        /\ Fault /\ Torn(TRUE)
  /\ UNCHANGED <<sandboxVars, content, marker, cli>>

(* The marker goes whether the restore succeeded or not.                   *)
TimerEnd(t) ==
  /\ TimerExit(t, "t_end")
  /\ marker' = marker \ {Own(t)}
  /\ UNCHANGED <<file, sandboxVars, content, cli, budgets>>

-----------------------------------------------------------------------------
(* The environment                                                         *)

(* restoreAt of a timer passes.  The shortest timeout is one second and    *)
(* the marker is written right after the fork, but nothing enforces it.    *)
Expire(t) ==
  /\ PromptMark => \A c \in Cli : cli[c].token # t
  /\ t \notin due /\ due' = due \cup {t}
  /\ UNCHANGED <<file, sandboxVars, content, marker, timer, others, cli, budgets>>

(* An unrelated process takes a free pid, but never the last, or ends.     *)
PidReuse(p) ==
  /\ PidFree(p) /\ \E q \in Pid \ {p} : PidFree(q)
  /\ others' = others \cup {p}
  /\ UNCHANGED <<file, sandboxVars, content, marker, timer, due, cli, budgets>>
PidRelease(p) ==
  /\ p \in others /\ others' = others \ {p}
  /\ UNCHANGED <<file, sandboxVars, content, marker, timer, due, cli, budgets>>

CliCrash(c) ==
  /\ cli[c].pc # "idle" /\ Crash /\ Torn(cli[c].pc \in SavePc)
  /\ cli' = [cli EXCEPT ![c] = Idle]
  /\ UNCHANGED <<sandboxVars, content, marker, timerVars>>

TimerCrash(t) ==
  /\ Live(t) /\ Crash /\ Torn(timer[t].pc \in TimerSaves)
  /\ timer' = [timer EXCEPT ![t] = DeadTimer]
  /\ UNCHANGED <<sandboxVars, content, marker, others, due, cli>>

Reboot ==
  /\ Crash
  /\ Torn(\/ \E c \in Cli : cli[c].pc \in SavePc
           \/ \E t \in Token : timer[t].pc \in TimerSaves)
  /\ cli' = [c \in Cli |-> Idle] /\ timer' = [t \in Token |-> DeadTimer]
  /\ others' = {}
  /\ UNCHANGED <<sandboxVars, content, marker, due>>

LoseSnapshot(s) ==
  /\ s \in Kept /\ Fault
  /\ content' = [content EXCEPT ![s] = "missing"]
  /\ UNCHANGED <<file, sandboxVars, marker, timerVars, cli>>

-----------------------------------------------------------------------------
Down(c) ==
  \/ DownLoad(c) \/ DownKill(c) \/ DownClear(c) \/ DownCapture(c) \/ DownApply(c)
  \/ DownUnlock(c) \/ DownSave(c) \/ DownFork(c) \/ DownMark(c)
  \/ RollbackSet(c) \/ RollbackLock(c) \/ RollbackSave(c)
Up(c) ==
  \/ UpLoad(c) \/ UpVerify(c) \/ UpRelock(c) \/ UpResave(c) \/ UpKill(c)
  \/ UpKillClear(c) \/ UpRestore(c) \/ UpLock(c) \/ UpFirstLock(c) \/ UpChattr(c)
  \/ UpSave(c) \/ UpClear(c) \/ CloseWindow(c)
Status(c) ==
  \/ StatusMarker(c) \/ StatusRestore(c) \/ StatusLock(c) \/ StatusSave(c)
  \/ StatusClear(c)
Start(c) == StartDown(c) \/ StartRebuild(c) \/ StartUp(c) \/ StartStatus(c)
TimerRuns(t) ==
  TimerWake(t) \/ TimerSet(t) \/ TimerLock(t) \/ TimerSave(t) \/ TimerEnd(t)
Environment ==
  \/ \E t \in Token : Expire(t) \/ TimerCrash(t)
  \/ \E p \in Pid : PidReuse(p) \/ PidRelease(p)
  \/ \E c \in Cli : CliCrash(c)
  \/ \E s \in Snap : LoseSnapshot(s)
  \/ Reboot

Next ==
  \/ \E c \in Cli : Start(c) \/ Down(c) \/ Up(c) \/ Status(c)
  \/ \E t \in Token : TimerRuns(t)
  \/ Environment

Spec == Init /\ [][Next]_vars

(* A started command runs on, a timer process is scheduled and time        *)
(* passes.  Nothing makes an operator start a command.                     *)
FairSpec ==
  /\ Spec
  /\ \A c \in Cli : WF_vars(Down(c) \/ Up(c) \/ Status(c))
  /\ \A t \in Token : WF_vars(TimerRuns(t)) /\ WF_vars(Expire(t))

-----------------------------------------------------------------------------
(* Properties                                                              *)

(* Every variable keeps its type.                                          *)
TypeOK ==
  /\ file \in File /\ policy \in {"restrictive", "permissive"}
  /\ cfg \in {"mutable", "locked", "mixed"}
  /\ content \in [Snap -> {"missing", "restrictive", "permissive"}]
  /\ marker \subseteq Marker /\ timer \in [Token -> Timer]
  /\ others \subseteq Pid /\ due \subseteq Token /\ cli \in [Cli -> Proc]
  /\ faults \in 0 .. MaxFaults /\ crashes \in 0 .. MaxCrashes /\ unrecorded \in BOOLEAN

Quiescent == (\A c \in Cli : cli[c].pc = "idle") /\ \A t \in Token : timer[t].pc \in {"dead", "sleep"}

(* As long as no process is killed: whenever nothing is in progress, a     *)
(* state file that says "locked" is true, the config is locked and the     *)
(* live policy restrictive, which is what `shields status' then prints.    *)
ClaimedLockIsReal ==
  crashes = 0 /\ Quiescent /\ FileDown = "no" => cfg = "locked" /\ policy = "restrictive"

(* No path back to lockdown leads to a permissive policy: every snapshot   *)
(* that the state file of an unlocked sandbox, the marker or a timer names *)
(* was captured under lockdown (or in the default state).  This holds as   *)
(* long as no process is killed and no opening ended without its record;   *)
(* after one that did, the next `shields down' captures the open policy.   *)
SnapshotsRestrictive == crashes = 0 /\ ~unrecorded =>
  /\ FileDown = "yes" /\ file.snap # NoSnap => content[file.snap] # "permissive"
  /\ \A m \in marker : content[m.snap] # "permissive"
  /\ \A t \in Token : Live(t) => content[timer[t].snap] # "permissive"

(* Who is at work, who will close an open sandbox, and what has failed: a  *)
(* command between the record and the marker of its timer, or one that has *)
(* opened it for a rebuild; a timer that can still act; or a marker from   *)
(* which the next `shields status' recovers.                               *)
OpeningPc == {"d_apply", "d_unlock", "d_save"}
ClosingPc ==
  {"rb_set", "rb_lock", "rb_save", "u_load", "u_kill", "u_killclear", "u_verify", "u_relock",
   "u_resave", "u_restore", "u_lock", "u_firstlock", "u_chattr", "u_save", "s_restore",
   "s_lock", "s_save"}
Working(t) == timer[t].pc \in {"t_set", "t_lock"} \cup TimerSaves
Armed(t)   == Matches(t) /\ timer[t].pc \notin {"dead", "t_end"}
LeadsBack(s) == s \in Snap /\ content[s] = "restrictive"

AtWork ==
  IF \E c \in Cli : cli[c].pc \in OpeningPc THEN "opening"
  ELSE IF (\E c \in Cli : cli[c].pc \in ClosingPc) \/ \E t \in Token : Working(t) THEN "closing"
  ELSE "rest"
Watched ==
  \/ \E c \in Cli : cli[c].pc \in {"d_fork", "d_mark", "w_open"}
  \/ \E t \in Token : Armed(t) /\ LeadsBack(timer[t].snap)
  \/ \E m \in marker : Abandoned(m) /\ LeadsBack(m.snap)
Harm == IF crashes > 0 \/ unrecorded \/ faults > 1 THEN 2 ELSE faults

(* With commands that take turns the shields keep the promise of Lockdown: *)
(* whatever comes between the steps of a command or of the timer, nothing  *)
(* but `shields down' opens the sandbox, "locked" is recorded only where   *)
(* it is so, and an open sandbox at rest has a live timer, a rebuild or a  *)
(* marker to close it, with a restrictive snapshot to go back to.  One     *)
(* call may fail, any but the record of an opening (Unrecorded).           *)
L == INSTANCE Lockdown WITH
  said <- FileDown, watched <- Watched, at <- AtWork, harm <- Harm
ImplementsLockdown == L!Spec

(* A timer whose marker was removed or replaced never touches the policy,  *)
(* the config or the state file, however far its restore had got.          *)
TimerAuthority ==
  [][\A t \in Token :
       /\ timer'[t] # timer[t] /\ Live(t) /\ timer'[t].pc # "dead"
       /\ <<policy, cfg, file>>' # <<policy, cfg, file>>
       => Matches(t)]_vars

(* killTimer never signals a process that merely has the recorded pid.     *)
KillSafety ==
  [][\A c \in Cli :
       cli[c].pc \in {"d_kill", "u_kill"} /\ cli'[c].pc \in {"d_clear", "u_killclear"}
       => others \subseteq others']_vars

(* "A repeated shields-down must not cancel the active timer": `shields    *)
(* down' on a sandbox that is already unlocked kills no auto-restore.      *)
RepeatedDownKeepsTimer ==
  [][\A c \in Cli :
       /\ cli[c].pc = "d_kill" /\ cli'[c].pc = "d_clear" /\ FileDown = "yes"
       => \A m \in marker : ~Verified(m)]_vars

(* The marker names a live timer by its own pid and snapshot: it is never  *)
(* a mixture of two commands' launches.                                    *)
MarkerNamesItsTimer ==
  \A m \in marker : Live(m.token) =>
    m.pid = timer[m.token].pid /\ m.snap = timer[m.token].snap

(* What keeps it so, from the fork to the marker and beyond: a pid belongs *)
(* to one process, and the launching command holds the child's pid, token  *)
(* and snapshot from the fork until it writes the marker or rolls back.    *)
PidOwned == \A t \in Token :
  /\ timer[t].pid \notin others
  /\ Live(t) => timer[t].pid # NoPid
HoldsSnap(c) ==
  cli[c].pc \in {"d_apply", "d_unlock", "d_save", "d_fork", "d_mark", "rb_set", "rb_lock"}
  => cli[c].snap \in Snap
HoldsLaunch(c) ==
  /\ cli[c].pc = "d_mark" => cli[c].token \in Token /\ cli[c].pid \in Pid
  /\ cli[c].pc \notin {"d_mark", "rb_set", "rb_lock", "rb_save"} => cli[c].token = NoToken
  /\ cli[c].token # NoToken /\ Live(cli[c].token) =>
       cli[c].pid = timer[cli[c].token].pid /\ cli[c].snap = timer[cli[c].token].snap
LaunchHeld == \A c \in Cli : HoldsSnap(c) /\ HoldsLaunch(c)
TimerIInv == TypeOK /\ PidOwned /\ LaunchHeld /\ MarkerNamesItsTimer

(* Liveness: the sandbox does not stay unlocked.                           *)
WindowCloses == FileDown = "yes" ~> FileDown # "yes"

(* Liveness: once the timer process is gone, the first `shields status'    *)
(* after restoreAt closes the window, whatever process has its pid now.    *)
AbandonedWindowRecovered ==
  \A c \in Cli :
    (/\ cli[c].pc = "s_marker" /\ crashes = MaxCrashes /\ faults = MaxFaults
     /\ \E m \in marker :
          m.token \in due /\ ~Live(m.token) /\ m.snap \in Kept)
    ~> FileDown # "yes"
=============================================================================
