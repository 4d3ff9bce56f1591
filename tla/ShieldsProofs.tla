---------------------------- MODULE ShieldsProofs ----------------------------
(* Theorems about Shields, for every set of processes, pids and snapshots. *)
EXTENDS Shields, TLAPS

(***************************************************************************)
(* Helpers: what the steps a command or a timer is made of do to types.    *)
(***************************************************************************)
Pcs == {"idle"} \cup DownPc \cup UpPc \cup StatusPc

LEMMA StepType ==
  ASSUME TypeOK, NEW c \in Cli, NEW from, NEW to \in Pcs, Step(c, from, to)
  PROVE  cli' \in [Cli -> Proc]
  BY DEF TypeOK, Step, Proc, Pcs

LEMMA FinishType ==
  ASSUME TypeOK, NEW c \in Cli, NEW from, Finish(c, from)
  PROVE  cli' \in [Cli -> Proc]
  BY DEF TypeOK, Finish, Proc, Idle

LEMMA GivesUpType ==
  ASSUME TypeOK, NEW c \in Cli, NEW from, UpGivesUp(c, from)
  PROVE  cli' \in [Cli -> Proc]
  <1>1. CASE Finish(c, from)
    BY <1>1, FinishType
  <1>2. CASE cli' = [cli EXCEPT ![c] = [Idle EXCEPT !.pc = "w_open", !.window = "retried"]]
    BY <1>2 DEF TypeOK, Proc, Idle, DownPc
  <1> QED BY <1>1, <1>2 DEF UpGivesUp

LEMMA MergedType ==
  ASSUME TypeOK, NEW d \in {"undef", "yes", "no"}, NEW s \in Snap \cup {NoSnap}
  PROVE  Merged(d, s) \in File
  BY DEF TypeOK, Merged, File

LEMMA FileDownType == TypeOK => FileDown \in {"undef", "yes", "no"}
  BY DEF TypeOK, FileDown, File

LEMMA SignalType ==
  ASSUME TypeOK, Signal
  PROVE  /\ timer' \in [Token -> Timer] /\ others' \subseteq Pid /\ due' \subseteq Token
         /\ file' \in File
  BY DEF TypeOK, Signal, Timer, DeadTimer, Torn, File

LEMMA TimerStepType ==
  ASSUME TypeOK, NEW t \in Token, NEW from, NEW to \in {"t_set", "t_lock", "t_end"} \cup TimerSaves,
         TimerStep(t, from, to) \/ TimerExit(t, from)
  PROVE  timer' \in [Token -> Timer] /\ others' \subseteq Pid /\ due' \subseteq Token
  BY DEF TypeOK, TimerStep, TimerExit, Timer, DeadTimer

LEMMA BudgetType ==
  ASSUME TypeOK, NoFault \/ Fault \/ Crash \/ Unrecorded
  PROVE  /\ faults' \in 0 .. MaxFaults /\ crashes' \in 0 .. MaxCrashes
         /\ unrecorded' \in BOOLEAN
<1>1. unrecorded' \in BOOLEAN
  BY Zenon DEF TypeOK, NoFault, Fault, Crash, Unrecorded, budgets
<1>2. faults' \in 0 .. MaxFaults /\ crashes' \in 0 .. MaxCrashes
  BY BoundsAssumption DEF TypeOK, NoFault, Fault, Crash, Unrecorded, budgets
<1> QED BY <1>1, <1>2

LEMMA TornType == ASSUME TypeOK, NEW b, Torn(b) PROVE file' \in File
  BY DEF TypeOK, Torn, File

LEMMA ProcType == ASSUME TypeOK, NEW c \in Cli PROVE cli[c] \in Proc
  BY DEF TypeOK

LEMMA RecordSnap ==
  ASSUME NEW r \in Proc, NEW p \in Pcs, NEW s \in Snap \cup {NoSnap}
  PROVE  [r EXCEPT !.pc = p, !.snap = s] \in Proc
  BY DEF Proc, Pcs

LEMMA RecordLoad ==
  ASSUME NEW r \in Proc, NEW p \in Pcs, NEW d \in {"undef", "yes", "no"},
         NEW s \in Snap \cup {NoSnap}
  PROVE  [r EXCEPT !.pc = p, !.down = d, !.snap = s] \in Proc
  BY DEF Proc, Pcs

LEMMA RecordLaunch ==
  ASSUME NEW r \in Proc, NEW p \in Pcs, NEW t \in Token, NEW q \in Pid
  PROVE  [r EXCEPT !.pc = p, !.token = t, !.pid = q] \in Proc
  BY DEF Proc, Pcs

(* What `shields up' has loaded.                                           *)
LEMMA LoadPicks ==
  ASSUME TypeOK, NEW c \in Cli, UpLoad(c)
  PROVE  \E p \in {"u_verify", "u_kill"}, d \in {"undef", "yes", "no"},
            s \in Snap \cup {NoSnap} :
           /\ cli' = [cli EXCEPT ![c] = [@ EXCEPT !.pc = p, !.down = d, !.snap = s]]
           /\ d = FileDown /\ (p = "u_verify" <=> d = "no")
           /\ d = "yes" => s = file.snap
  <1> DEFINE p == IF FileDown = "no" THEN "u_verify" ELSE "u_kill"
             d == FileDown
             s == IF FileDown = "yes" THEN file.snap ELSE NoSnap
  <1>1. p \in {"u_verify", "u_kill"} /\ d \in {"undef", "yes", "no"}
    BY FileDownType
  <1>2. s \in Snap \cup {NoSnap}
    BY DEF TypeOK, File
  <1>3. cli' = [cli EXCEPT ![c] = [@ EXCEPT !.pc = p, !.down = d, !.snap = s]]
    BY DEF UpLoad
  <1>4. d = FileDown /\ (p = "u_verify" <=> d = "no") /\ (d = "yes" => s = file.snap)
    OBVIOUS
  <1> HIDE DEF p, d, s
  <1> QED BY <1>1, <1>2, <1>3, <1>4

LEMMA ContentType ==
  ASSUME TypeOK, NEW s \in Snap, Restore(s)
  PROVE  policy' \in {"restrictive", "permissive"}
  BY DEF TypeOK, Restore, Kept

(***************************************************************************)
(* Type correctness.                                                       *)
(***************************************************************************)
LEMMA TypeInit == Init => TypeOK
<1> SUFFICES ASSUME Init PROVE TypeOK
  OBVIOUS
<1>1. faults \in 0 .. MaxFaults /\ crashes \in 0 .. MaxCrashes
  BY BoundsAssumption DEF Init
<1>2. file \in File /\ timer \in [Token -> Timer] /\ cli \in [Cli -> Proc]
  BY DEF Init, File, Timer, Proc, Idle, DeadTimer
<1> QED
  BY <1>1, <1>2 DEF Init, TypeOK

LEMMA TypeNext == TypeOK /\ LaunchHeld /\ [Next]_vars => TypeOK'
<1> SUFFICES ASSUME TypeOK, LaunchHeld, [Next]_vars PROVE TypeOK'
  OBVIOUS
<1> USE StepType, FinishType, GivesUpType, MergedType, FileDownType, SignalType,
        TimerStepType, BudgetType, ContentType
<1> USE DEF Pcs, DownPc, UpPc, StatusPc, TimerSaves, sandboxVars, timerVars, budgets
<1>1. ASSUME NEW c \in Cli, StartDown(c) PROVE TypeOK'
  BY <1>1 DEF TypeOK, StartDown
<1>2. ASSUME NEW c \in Cli, StartRebuild(c) PROVE TypeOK'
  BY <1>2 DEF TypeOK, StartRebuild, Proc, Idle
<1>3. ASSUME NEW c \in Cli, StartUp(c) PROVE TypeOK'
  BY <1>3 DEF TypeOK, StartUp
<1>4. ASSUME NEW c \in Cli, StartStatus(c) PROVE TypeOK'
  BY <1>4 DEF TypeOK, StartStatus
<1>5. ASSUME NEW c \in Cli, DownLoad(c) PROVE TypeOK'
  BY <1>5 DEF TypeOK, DownLoad
<1>6. ASSUME NEW c \in Cli, DownKill(c) PROVE TypeOK'
  BY <1>6 DEF TypeOK, DownKill
<1>7. ASSUME NEW c \in Cli, DownClear(c) PROVE TypeOK'
  BY <1>7 DEF TypeOK, DownClear
<1>8. ASSUME NEW c \in Cli, DownCapture(c) PROVE TypeOK'
  <2>1. CASE Finish(c, "d_capture") /\ Fault /\ UNCHANGED content
    BY <1>8, <2>1 DEF TypeOK, DownCapture
  <2>2. ASSUME NEW s \in Snap, NoFault, content' = [content EXCEPT ![s] = policy],
               cli' = [cli EXCEPT ![c] = [@ EXCEPT !.pc = "d_apply", !.snap = s]]
        PROVE  TypeOK'
    <3>1. [cli[c] EXCEPT !.pc = "d_apply", !.snap = s] \in Proc
      BY ProcType, RecordSnap, RecordLoad, RecordLaunch
    <3>2. cli' \in [Cli -> Proc]
      BY <2>2, <3>1 DEF TypeOK
    <3> QED BY <1>8, <2>2, <3>2 DEF TypeOK, DownCapture
  <2> QED BY <1>8, <2>1, <2>2 DEF DownCapture
<1>9. ASSUME NEW c \in Cli, DownApply(c) PROVE TypeOK'
  BY <1>9 DEF TypeOK, DownApply
<1>10. ASSUME NEW c \in Cli, DownUnlock(c) PROVE TypeOK'
  BY <1>10 DEF TypeOK, DownUnlock, Unlocked, UnlockFailed
<1>11. ASSUME NEW c \in Cli, DownSave(c) PROVE TypeOK'
  <2>1. (IF cli[c].window = "none" THEN "d_fork" ELSE "w_open") \in Pcs
    OBVIOUS
  <2>2. cli[c] \in Proc /\ cli[c].snap \in Snap \cup {NoSnap}
    BY ProcType DEF Proc
  <2>3. CASE Finish(c, "d_save") /\ Unrecorded /\ Torn(TRUE)
    BY <1>11, <2>3, TornType DEF TypeOK, DownSave
  <2>4. CASE ~(Finish(c, "d_save") /\ Unrecorded /\ Torn(TRUE))
    BY <1>11, <2>1, <2>2, <2>4 DEF TypeOK, DownSave
  <2> QED BY <2>3, <2>4
<1>12. ASSUME NEW c \in Cli, DownFork(c) PROVE TypeOK'
  <2>1. CASE Step(c, "d_fork", "rb_set") /\ Fault /\ UNCHANGED <<timer, due>>
    BY <1>12, <2>1 DEF TypeOK, DownFork
  <2>2. ASSUME NEW t \in Token, NEW p \in Pid, NoFault,
               timer' = [timer EXCEPT ![t] = [pc |-> "sleep", pid |-> p, snap |-> cli[c].snap]],
               cli' = [cli EXCEPT ![c] = [@ EXCEPT !.pc = "d_mark", !.token = t, !.pid = p]],
               due' = due \ {t}
        PROVE  TypeOK'
    <3>1. [cli[c] EXCEPT !.pc = "d_mark", !.token = t, !.pid = p] \in Proc
      BY ProcType, RecordSnap, RecordLoad, RecordLaunch
    <3>2. cli' \in [Cli -> Proc]
      BY <2>2, <3>1 DEF TypeOK
    <3>3. [pc |-> "sleep", pid |-> p, snap |-> cli[c].snap] \in Timer
      BY ProcType DEF Timer, Proc
    <3>4. timer' \in [Token -> Timer]
      BY <2>2, <3>3 DEF TypeOK
    <3> QED BY <1>12, <2>2, <3>2, <3>4 DEF TypeOK, DownFork
  <2> QED BY <1>12, <2>1, <2>2 DEF DownFork
<1>13. ASSUME NEW c \in Cli, DownMark(c) PROVE TypeOK'
  <2>1. CASE Step(c, "d_mark", "rb_set") /\ Fault /\ marker' \in {marker, {}}
    BY <1>13, <2>1 DEF TypeOK, DownMark
  <2>2. CASE /\ Finish(c, "d_mark") /\ NoFault
             /\ marker' = {[token |-> cli[c].token, pid |-> cli[c].pid,
                             snap |-> cli[c].snap]}
    <3>1. [token |-> cli[c].token, pid |-> cli[c].pid, snap |-> cli[c].snap] \in Marker
      BY <2>2 DEF LaunchHeld, HoldsSnap, HoldsLaunch, Finish, Marker
    <3> QED BY <1>13, <2>2, <3>1 DEF TypeOK, DownMark
  <2> QED BY <1>13, <2>1, <2>2 DEF DownMark
<1>14. ASSUME NEW c \in Cli, RollbackSet(c) PROVE TypeOK'
  BY <1>14 DEF TypeOK, RollbackSet, Kept, Restore
<1>15. ASSUME NEW c \in Cli, RollbackLock(c) PROVE TypeOK'
  BY <1>15 DEF TypeOK, RollbackLock, Locked, LockFailed
<1>16. ASSUME NEW c \in Cli, RollbackSave(c) PROVE TypeOK'
  BY <1>16, TornType DEF TypeOK, RollbackSave
<1>17. ASSUME NEW c \in Cli, UpLoad(c) PROVE TypeOK'
  <2>1. PICK p \in {"u_verify", "u_kill"}, d \in {"undef", "yes", "no"},
             s \in Snap \cup {NoSnap} :
          cli' = [cli EXCEPT ![c] = [@ EXCEPT !.pc = p, !.down = d, !.snap = s]]
    BY <1>17, LoadPicks
  <2>2. [cli[c] EXCEPT !.pc = p, !.down = d, !.snap = s] \in Proc
    BY ProcType, RecordSnap, RecordLoad, RecordLaunch
  <2>3. cli' \in [Cli -> Proc]
    BY <2>1, <2>2 DEF TypeOK
  <2> QED BY <1>17, <2>3 DEF TypeOK, UpLoad
<1>18. ASSUME NEW c \in Cli, UpVerify(c) PROVE TypeOK'
  BY <1>18 DEF TypeOK, UpVerify
<1>19. ASSUME NEW c \in Cli, UpRelock(c) PROVE TypeOK'
  BY <1>19 DEF TypeOK, UpRelock, Locked, LockFailed
<1>20. ASSUME NEW c \in Cli, UpResave(c) PROVE TypeOK'
  BY <1>20, TornType DEF TypeOK, UpResave
<1>21. ASSUME NEW c \in Cli, UpKill(c) PROVE TypeOK'
  BY <1>21 DEF TypeOK, UpKill
<1>22. ASSUME NEW c \in Cli, UpKillClear(c) PROVE TypeOK'
  BY <1>22 DEF TypeOK, UpKillClear
<1>23. ASSUME NEW c \in Cli, UpRestore(c) PROVE TypeOK'
  BY <1>23 DEF TypeOK, UpRestore, Kept, Restore
<1>24. ASSUME NEW c \in Cli, UpLock(c) PROVE TypeOK'
  BY <1>24 DEF TypeOK, UpLock, Locked, LockFailed
<1>25. ASSUME NEW c \in Cli, UpFirstLock(c) PROVE TypeOK'
  BY <1>25 DEF TypeOK, UpFirstLock, Locked, LockFailed
<1>26. ASSUME NEW c \in Cli, UpChattr(c) PROVE TypeOK'
  BY <1>26, TornType DEF TypeOK, UpChattr
<1>27. ASSUME NEW c \in Cli, UpSave(c) PROVE TypeOK'
  BY <1>27, TornType DEF TypeOK, UpSave
<1>28. ASSUME NEW c \in Cli, UpClear(c) PROVE TypeOK'
  BY <1>28 DEF TypeOK, UpClear
<1>29. ASSUME NEW c \in Cli, CloseWindow(c) PROVE TypeOK'
  BY <1>29 DEF TypeOK, CloseWindow
<1>30. ASSUME NEW c \in Cli, StatusMarker(c) PROVE TypeOK'
  <2>1. CASE Finish(c, "s_marker")
    BY <1>30, <2>1 DEF TypeOK, StatusMarker
  <2>2. ASSUME NEW m \in marker,
               cli' = [cli EXCEPT ![c] = [@ EXCEPT !.pc = "s_restore", !.snap = m.snap]]
        PROVE  TypeOK'
    <3>1. [cli[c] EXCEPT !.pc = "s_restore", !.snap = m.snap] \in Proc
      BY ProcType, RecordSnap, RecordLoad, RecordLaunch DEF TypeOK, Marker
    <3>2. cli' \in [Cli -> Proc]
      BY <2>2, <3>1 DEF TypeOK
    <3> QED BY <1>30, <3>2 DEF TypeOK, StatusMarker
  <2> QED BY <1>30, <2>1, <2>2 DEF StatusMarker
<1>31. ASSUME NEW c \in Cli, StatusRestore(c) PROVE TypeOK'
  BY <1>31 DEF TypeOK, StatusRestore, Kept, Restore
<1>32. ASSUME NEW c \in Cli, StatusLock(c) PROVE TypeOK'
  BY <1>32 DEF TypeOK, StatusLock, Locked, LockFailed
<1>33. ASSUME NEW c \in Cli, StatusSave(c) PROVE TypeOK'
  BY <1>33, TornType DEF TypeOK, StatusSave
<1>34. ASSUME NEW c \in Cli, StatusClear(c) PROVE TypeOK'
  BY <1>34 DEF TypeOK, StatusClear
<1>35. ASSUME NEW t \in Token, TimerWake(t) PROVE TypeOK'
  BY <1>35 DEF TypeOK, TimerWake
<1>36. ASSUME NEW t \in Token, TimerSet(t) PROVE TypeOK'
  BY <1>36 DEF TypeOK, TimerSet, Kept, Restore
<1>37. ASSUME NEW t \in Token, TimerLock(t) PROVE TypeOK'
  BY <1>37 DEF TypeOK, TimerLock, Locked, LockFailed
<1>38. ASSUME NEW t \in Token, TimerSave(t) PROVE TypeOK'
  BY <1>38, TornType DEF TypeOK, TimerSave
<1>39. ASSUME NEW t \in Token, TimerEnd(t) PROVE TypeOK'
  BY <1>39 DEF TypeOK, TimerEnd, Own, Timer
<1>40. ASSUME NEW t \in Token, Expire(t) PROVE TypeOK'
  BY <1>40 DEF TypeOK, Expire
<1>41. ASSUME NEW p \in Pid, PidReuse(p) PROVE TypeOK'
  BY <1>41 DEF TypeOK, PidReuse
<1>42. ASSUME NEW p \in Pid, PidRelease(p) PROVE TypeOK'
  BY <1>42 DEF TypeOK, PidRelease
<1>43. ASSUME NEW c \in Cli, CliCrash(c) PROVE TypeOK'
  BY <1>43 DEF TypeOK, CliCrash, Torn, Idle, File, Proc
<1>44. ASSUME NEW t \in Token, TimerCrash(t) PROVE TypeOK'
  BY <1>44 DEF TypeOK, TimerCrash, Torn, DeadTimer, File, Timer
<1>45. ASSUME Reboot PROVE TypeOK'
  BY <1>45 DEF TypeOK, Reboot, Torn, Idle, DeadTimer, File, Timer, Proc
<1>46. ASSUME NEW s \in Snap, LoseSnapshot(s) PROVE TypeOK'
  BY <1>46 DEF TypeOK, LoseSnapshot
<1>47. CASE UNCHANGED vars
  BY <1>47 DEF TypeOK, vars
<1> QED
  BY <1>1, <1>2, <1>3, <1>4, <1>5, <1>6, <1>7, <1>8, <1>9, <1>10, <1>11, <1>12, <1>13, <1>14, <1>15, <1>16, <1>17, <1>18, <1>19, <1>20, <1>21, <1>22, <1>23, <1>24, <1>25, <1>26, <1>27, <1>28, <1>29, <1>30, <1>31, <1>32, <1>33, <1>34, <1>35, <1>36, <1>37, <1>38, <1>39, <1>40, <1>41, <1>42, <1>43, <1>44, <1>45, <1>46, <1>47
  DEF Next, Start, Down, Up, Status, TimerRuns, Environment

(***************************************************************************)
(* Launches: who holds a timer's pid, token and snapshot.                  *)
(*                                                                         *)
(* Every step but the fork is tame: no timer appears, and those that stay  *)
(* keep their pid and snapshot.  A command step keeps what the command     *)
(* holds when it does not leave the phases in which it is held.            *)
(***************************************************************************)
TimersTame == \A t \in Token :
  \/ timer'[t] \in {DeadTimer, timer[t]}
  \/ Live(t) /\ timer'[t].pid = timer[t].pid /\ timer'[t].snap = timer[t].snap

SnapPc  == {"d_apply", "d_unlock", "d_save", "d_fork", "d_mark", "rb_set", "rb_lock"}
TokenPc == {"d_mark", "rb_set", "rb_lock", "rb_save"}
Keeps(from, to) ==
  (to \in SnapPc => from \in SnapPc) /\ (from \in TokenPc => to \in TokenPc) /\ to # "d_mark"

LEMMA TameUnchanged == UNCHANGED timer => TimersTame
  BY DEF TimersTame, DeadTimer, Live

LEMMA TameSignal == ASSUME TypeOK, Signal PROVE TimersTame
  BY DEF TypeOK, TimersTame, Signal, Live, DeadTimer

LEMMA TameTimer ==
  ASSUME TypeOK, NEW t \in Token, NEW from, NEW to, from # "dead",
         TimerStep(t, from, to) \/ TimerExit(t, from)
  PROVE  TimersTame
  BY DEF TypeOK, TimersTame, TimerStep, TimerExit, Live, Timer, DeadTimer

LEMMA HeldSame == ASSUME LaunchHeld, TimersTame, UNCHANGED cli, TypeOK PROVE LaunchHeld'
  BY DEF LaunchHeld, HoldsSnap, HoldsLaunch, TimersTame, DeadTimer, Live, TypeOK, Proc

LEMMA HeldIdle ==
  ASSUME TypeOK, LaunchHeld, TimersTame, NEW c \in Cli, NEW w \in {"idle", "w_open", "d_load"},
         NEW v \in {"none", "open", "retried"},
         cli' = [cli EXCEPT ![c] = [Idle EXCEPT !.pc = w, !.window = v]]
  PROVE  LaunchHeld'
  BY NamesAssumption DEF LaunchHeld, HoldsSnap, HoldsLaunch, TimersTame, DeadTimer, Live, TypeOK, Proc, Idle

LEMMA HeldFinish ==
  ASSUME TypeOK, LaunchHeld, TimersTame, NEW c \in Cli, NEW from, Finish(c, from)
  PROVE  LaunchHeld'
  BY NamesAssumption
  DEF LaunchHeld, HoldsSnap, HoldsLaunch, TimersTame, DeadTimer, Live, TypeOK, Proc, Finish, Idle

LEMMA HeldGivesUp ==
  ASSUME TypeOK, LaunchHeld, TimersTame, NEW c \in Cli, NEW from, UpGivesUp(c, from)
  PROVE  LaunchHeld'
  BY HeldFinish, HeldIdle DEF UpGivesUp

LEMMA HeldStep ==
  ASSUME TypeOK, LaunchHeld, TimersTame, NEW c \in Cli, NEW from, NEW to \in Pcs,
         Keeps(from, to), Step(c, from, to)
  PROVE  LaunchHeld'
<1> SUFFICES ASSUME NEW d \in Cli PROVE HoldsSnap(d)' /\ HoldsLaunch(d)'
  BY DEF LaunchHeld
<1>1. CASE d # c
  BY <1>1 DEF LaunchHeld, HoldsSnap, HoldsLaunch, TimersTame, DeadTimer, Live, TypeOK, Step, Proc
<1>2. CASE d = c
  <2>1. cli'[c].pc = to /\ cli'[c].snap = cli[c].snap /\ cli'[c].token = cli[c].token
        /\ cli'[c].pid = cli[c].pid /\ cli[c].pc = from
    BY DEF TypeOK, Step, Proc
  <2>2. HoldsSnap(c)'
    BY <2>1 DEF Keeps, SnapPc, HoldsSnap, LaunchHeld
  <2>3. HoldsLaunch(c)'
    BY <2>1, ProcType DEF Keeps, TokenPc, HoldsLaunch, LaunchHeld, TimersTame, DeadTimer, Live, Proc
  <2> QED BY <1>2, <2>2, <2>3
<1> QED BY <1>1, <1>2

(* A command that holds no launch: whatever its new record says.           *)
LEMMA HeldFree ==
  ASSUME TypeOK, LaunchHeld, TimersTame, NEW c \in Cli, NEW r \in Proc,
         r.token = NoToken, r.pc # "d_mark", r.pc \in SnapPc => r.snap \in Snap,
         cli' = [cli EXCEPT ![c] = r]
  PROVE  LaunchHeld'
<1> SUFFICES ASSUME NEW d \in Cli PROVE HoldsSnap(d)' /\ HoldsLaunch(d)'
  BY DEF LaunchHeld
<1>1. CASE d # c
  BY <1>1 DEF LaunchHeld, HoldsSnap, HoldsLaunch, TimersTame, DeadTimer, Live, TypeOK, Proc
<1>2. CASE d = c
  BY <1>2 DEF HoldsSnap, HoldsLaunch, SnapPc, TypeOK
<1> QED BY <1>1, <1>2

LEMMA OwnedTame ==
  ASSUME TypeOK, PidOwned, TimersTame, others' \subseteq others
  PROVE  PidOwned'
  BY NamesAssumption DEF TypeOK, PidOwned, TimersTame, DeadTimer, Live

LEMMA MarkerTame ==
  ASSUME TypeOK, MarkerNamesItsTimer, TimersTame, marker' \subseteq marker
  PROVE  MarkerNamesItsTimer'
  BY DEF TypeOK, MarkerNamesItsTimer, TimersTame, DeadTimer, Live, Marker

(* The pid, launch and marker facts are kept by every step.                *)
LaunchFacts == PidOwned /\ LaunchHeld /\ MarkerNamesItsTimer

LEMMA FactsTame ==
  ASSUME TypeOK, LaunchFacts, TimersTame, others' \subseteq others, marker' \subseteq marker,
         LaunchHeld'
  PROVE  LaunchFacts'
  BY OwnedTame, MarkerTame DEF LaunchFacts

LEMMA LaunchNext == TypeOK /\ LaunchFacts /\ [Next]_vars => LaunchFacts'
<1> SUFFICES ASSUME TypeOK, LaunchFacts, [Next]_vars PROVE LaunchFacts'
  OBVIOUS
<1> USE TameUnchanged, TameSignal, TameTimer, HeldSame, HeldIdle, HeldFinish, HeldGivesUp,
        HeldStep, FactsTame
<1> USE DEF Pcs, DownPc, UpPc, StatusPc, Keeps, SnapPc, TokenPc, TimerSaves,
        sandboxVars, timerVars, budgets
<1> LaunchHeld
  BY DEF LaunchFacts
<1>1. ASSUME NEW c \in Cli, StartDown(c) PROVE LaunchFacts'
  BY <1>1 DEF StartDown
<1>2. ASSUME NEW c \in Cli, StartRebuild(c) PROVE LaunchFacts'
  BY <1>2 DEF StartRebuild
<1>3. ASSUME NEW c \in Cli, StartUp(c) PROVE LaunchFacts'
  BY <1>3 DEF StartUp
<1>4. ASSUME NEW c \in Cli, StartStatus(c) PROVE LaunchFacts'
  BY <1>4 DEF StartStatus
<1>5. ASSUME NEW c \in Cli, DownLoad(c) PROVE LaunchFacts'
  BY <1>5 DEF DownLoad
<1>6. ASSUME NEW c \in Cli, DownKill(c) PROVE LaunchFacts'
  BY <1>6 DEF DownKill, Signal
<1>7. ASSUME NEW c \in Cli, DownClear(c) PROVE LaunchFacts'
  BY <1>7 DEF DownClear
<1>8. ASSUME NEW c \in Cli, DownCapture(c) PROVE LaunchFacts'
  <2>1. CASE Finish(c, "d_capture")
    BY <1>8, <2>1 DEF DownCapture
  <2>2. ASSUME NEW s \in Snap, cli[c].pc = "d_capture",
               cli' = [cli EXCEPT ![c] = [@ EXCEPT !.pc = "d_apply", !.snap = s]]
        PROVE  LaunchFacts'
    <3> DEFINE r == [cli[c] EXCEPT !.pc = "d_apply", !.snap = s]
    <3>1. r \in Proc
      BY ProcType, RecordSnap
    <3>2. r.token = NoToken /\ r.pc = "d_apply" /\ r.snap \in Snap
      BY <2>2, ProcType DEF LaunchHeld, HoldsLaunch, Proc
    <3>3. TimersTame
      BY <1>8 DEF DownCapture
    <3>4. cli' = [cli EXCEPT ![c] = r]
      BY <2>2
    <3> HIDE DEF r
    <3>5. LaunchHeld'
      BY <3>1, <3>2, <3>3, <3>4, HeldFree
    <3> QED BY <1>8, <3>3, <3>5 DEF DownCapture
  <2> QED BY <1>8, <2>1, <2>2 DEF DownCapture
<1>9. ASSUME NEW c \in Cli, DownApply(c) PROVE LaunchFacts'
  BY <1>9 DEF DownApply
<1>10. ASSUME NEW c \in Cli, DownUnlock(c) PROVE LaunchFacts'
  BY <1>10 DEF DownUnlock
<1>11. ASSUME NEW c \in Cli, DownSave(c) PROVE LaunchFacts'
  BY <1>11 DEF DownSave
<1>12. ASSUME NEW c \in Cli, DownFork(c) PROVE LaunchFacts'
  <2>1. CASE Step(c, "d_fork", "rb_set") /\ UNCHANGED timer
    BY <1>12, <2>1 DEF DownFork
  <2>2. ASSUME NEW t \in Token, NEW p \in Pid, FreshToken(t), PidFree(p), cli[c].pc = "d_fork",
               timer' = [timer EXCEPT ![t] = [pc |-> "sleep", pid |-> p, snap |-> cli[c].snap]],
               cli' = [cli EXCEPT ![c] = [@ EXCEPT !.pc = "d_mark", !.token = t, !.pid = p]]
        PROVE  LaunchFacts'
    <3>1. UNCHANGED <<others, marker>>
      BY <1>12 DEF DownFork
    <3>2. /\ timer'[t] = [pc |-> "sleep", pid |-> p, snap |-> cli[c].snap]
          /\ \A u \in Token \ {t} : timer'[u] = timer[u]
      BY <2>2 DEF TypeOK
    <3>3. PidOwned'
      BY <2>2, <3>1, <3>2, NamesAssumption DEF LaunchFacts, PidOwned, PidFree, Live
    <3>4. MarkerNamesItsTimer'
      BY <2>2, <3>1, <3>2 DEF LaunchFacts, MarkerNamesItsTimer, FreshToken, Live, TypeOK, Marker
    <3>5. ASSUME NEW d \in Cli PROVE HoldsSnap(d)' /\ HoldsLaunch(d)'
      <4>1. CASE d # c
        <5>1. cli'[d] = cli[d] /\ cli[d].token \in Token \cup {NoToken} /\ cli[d].token # t
          BY <2>2, <4>1, ProcType DEF TypeOK, FreshToken, Proc
        <5>2. HoldsSnap(d)'
          BY <5>1 DEF LaunchHeld, HoldsSnap
        <5>3. cli[d].token # NoToken => timer'[cli[d].token] = timer[cli[d].token]
          BY <5>1, <3>2
        <5>4. HoldsLaunch(d)'
          BY <5>1, <5>3 DEF LaunchHeld, HoldsLaunch, Live
        <5> QED BY <5>2, <5>4
      <4>2. CASE d = c
        <5>1. /\ cli'[c].pc = "d_mark" /\ cli'[c].token = t /\ cli'[c].pid = p
              /\ cli'[c].snap = cli[c].snap
          BY <2>2, ProcType DEF TypeOK, Proc
        <5>2. cli[c].snap \in Snap
          BY <2>2 DEF LaunchHeld, HoldsSnap
        <5> QED BY <4>2, <5>1, <5>2, <3>2 DEF HoldsSnap, HoldsLaunch
      <4> QED BY <4>1, <4>2
    <3> QED BY <3>3, <3>4, <3>5 DEF LaunchFacts, LaunchHeld
  <2> QED BY <1>12, <2>1, <2>2 DEF DownFork
<1>13. ASSUME NEW c \in Cli, DownMark(c) PROVE LaunchFacts'
  <2>1. CASE Step(c, "d_mark", "rb_set") /\ UNCHANGED marker
    BY <1>13, <2>1 DEF DownMark
  <2>2. CASE /\ Finish(c, "d_mark")
             /\ marker' = {[token |-> cli[c].token, pid |-> cli[c].pid, snap |-> cli[c].snap]}
    <3>1. TimersTame /\ UNCHANGED <<timer, others>>
      BY <1>13 DEF DownMark
    <3>2. LaunchHeld'
      BY <2>2, <3>1
    <3>3. PidOwned'
      BY <3>1, OwnedTame DEF LaunchFacts
    <3>4. cli[c].token \in Token /\ cli[c].token # NoToken
      BY <2>2, NamesAssumption DEF LaunchHeld, HoldsLaunch, Finish
    <3>5. HoldsLaunch(c)
      BY DEF LaunchHeld
    <3>6. Live(cli[c].token) => /\ cli[c].pid = timer[cli[c].token].pid
                               /\ cli[c].snap = timer[cli[c].token].snap
      BY <3>4, <3>5 DEF HoldsLaunch
    <3>7. ASSUME NEW m \in marker', Live(m.token)'
          PROVE  m.pid = timer'[m.token].pid /\ m.snap = timer'[m.token].snap
      <4>1. m.token = cli[c].token /\ m.pid = cli[c].pid /\ m.snap = cli[c].snap
        BY <2>2
      <4>2. timer' = timer
        BY <3>1
      <4>3. Live(cli[c].token)
        BY <3>7, <4>1, <4>2 DEF Live
      <4> QED BY <3>6, <4>1, <4>2, <4>3
    <3>8. MarkerNamesItsTimer'
      BY <3>7 DEF MarkerNamesItsTimer
    <3> QED BY <3>2, <3>3, <3>8 DEF LaunchFacts
  <2> QED BY <1>13, <2>1, <2>2 DEF DownMark
<1>14. ASSUME NEW c \in Cli, RollbackSet(c) PROVE LaunchFacts'
  BY <1>14 DEF RollbackSet
<1>15. ASSUME NEW c \in Cli, RollbackLock(c) PROVE LaunchFacts'
  BY <1>15 DEF RollbackLock
<1>16. ASSUME NEW c \in Cli, RollbackSave(c) PROVE LaunchFacts'
  BY <1>16 DEF RollbackSave
<1>17. ASSUME NEW c \in Cli, UpLoad(c) PROVE LaunchFacts'
  <2>1. PICK p \in {"u_verify", "u_kill"}, d \in {"undef", "yes", "no"},
             s \in Snap \cup {NoSnap} :
          cli' = [cli EXCEPT ![c] = [@ EXCEPT !.pc = p, !.down = d, !.snap = s]]
    BY <1>17, LoadPicks
  <2> DEFINE r == [cli[c] EXCEPT !.pc = p, !.down = d, !.snap = s]
  <2>2. r \in Proc
    BY ProcType, RecordLoad
  <2>3. r.token = NoToken /\ r.pc = p
    BY <1>17, ProcType DEF UpLoad, LaunchHeld, HoldsLaunch, Proc
  <2>4. TimersTame
    BY <1>17 DEF UpLoad
  <2>5. cli' = [cli EXCEPT ![c] = r]
    BY <2>1
  <2> HIDE DEF r
  <2>6. LaunchHeld'
    BY <2>2, <2>3, <2>4, <2>5, HeldFree
  <2> QED BY <1>17, <2>4, <2>6 DEF UpLoad
<1>18. ASSUME NEW c \in Cli, UpVerify(c) PROVE LaunchFacts'
  BY <1>18 DEF UpVerify
<1>19. ASSUME NEW c \in Cli, UpRelock(c) PROVE LaunchFacts'
  BY <1>19 DEF UpRelock
<1>20. ASSUME NEW c \in Cli, UpResave(c) PROVE LaunchFacts'
  BY <1>20 DEF UpResave
<1>21. ASSUME NEW c \in Cli, UpKill(c) PROVE LaunchFacts'
  BY <1>21 DEF UpKill, Signal
<1>22. ASSUME NEW c \in Cli, UpKillClear(c) PROVE LaunchFacts'
  BY <1>22 DEF UpKillClear
<1>23. ASSUME NEW c \in Cli, UpRestore(c) PROVE LaunchFacts'
  BY <1>23 DEF UpRestore
<1>24. ASSUME NEW c \in Cli, UpLock(c) PROVE LaunchFacts'
  BY <1>24 DEF UpLock
<1>25. ASSUME NEW c \in Cli, UpFirstLock(c) PROVE LaunchFacts'
  BY <1>25 DEF UpFirstLock
<1>26. ASSUME NEW c \in Cli, UpChattr(c) PROVE LaunchFacts'
  BY <1>26 DEF UpChattr
<1>27. ASSUME NEW c \in Cli, UpSave(c) PROVE LaunchFacts'
  BY <1>27 DEF UpSave
<1>28. ASSUME NEW c \in Cli, UpClear(c) PROVE LaunchFacts'
  BY <1>28 DEF UpClear
<1>29. ASSUME NEW c \in Cli, CloseWindow(c) PROVE LaunchFacts'
  BY <1>29 DEF CloseWindow
<1>30. ASSUME NEW c \in Cli, StatusMarker(c) PROVE LaunchFacts'
  <2>1. CASE Finish(c, "s_marker")
    BY <1>30, <2>1 DEF StatusMarker
  <2>2. ASSUME NEW m \in marker, cli[c].pc = "s_marker",
               cli' = [cli EXCEPT ![c] = [@ EXCEPT !.pc = "s_restore", !.snap = m.snap]]
        PROVE  LaunchFacts'
    <3> DEFINE r == [cli[c] EXCEPT !.pc = "s_restore", !.snap = m.snap]
    <3>1. r \in Proc
      BY ProcType, RecordSnap DEF TypeOK, Marker
    <3>2. r.token = NoToken /\ r.pc = "s_restore"
      BY <2>2, ProcType DEF LaunchHeld, HoldsLaunch, Proc
    <3>3. TimersTame
      BY <1>30 DEF StatusMarker
    <3>4. cli' = [cli EXCEPT ![c] = r]
      BY <2>2
    <3> HIDE DEF r
    <3>5. LaunchHeld'
      BY <3>1, <3>2, <3>3, <3>4, HeldFree
    <3> QED BY <1>30, <3>3, <3>5 DEF StatusMarker
  <2> QED BY <1>30, <2>1, <2>2 DEF StatusMarker
<1>31. ASSUME NEW c \in Cli, StatusRestore(c) PROVE LaunchFacts'
  BY <1>31 DEF StatusRestore
<1>32. ASSUME NEW c \in Cli, StatusLock(c) PROVE LaunchFacts'
  BY <1>32 DEF StatusLock
<1>33. ASSUME NEW c \in Cli, StatusSave(c) PROVE LaunchFacts'
  BY <1>33 DEF StatusSave
<1>34. ASSUME NEW c \in Cli, StatusClear(c) PROVE LaunchFacts'
  BY <1>34 DEF StatusClear
<1>35. ASSUME NEW t \in Token, TimerWake(t) PROVE LaunchFacts'
  BY <1>35 DEF TimerWake, TimerStep, TimerExit
<1>36. ASSUME NEW t \in Token, TimerSet(t) PROVE LaunchFacts'
  BY <1>36 DEF TimerSet, TimerStep, TimerExit
<1>37. ASSUME NEW t \in Token, TimerLock(t) PROVE LaunchFacts'
  BY <1>37 DEF TimerLock, TimerStep, TimerExit
<1>38. ASSUME NEW t \in Token, TimerSave(t) PROVE LaunchFacts'
  BY <1>38 DEF TimerSave, TimerStep, TimerExit
<1>39. ASSUME NEW t \in Token, TimerEnd(t) PROVE LaunchFacts'
  BY <1>39 DEF TimerEnd, TimerStep, TimerExit
<1>40. ASSUME NEW t \in Token, Expire(t) PROVE LaunchFacts'
  BY <1>40 DEF Expire
<1>41. ASSUME NEW p \in Pid, PidReuse(p) PROVE LaunchFacts'
  <2>1. UNCHANGED <<timer, cli, marker>>
    BY <1>41 DEF PidReuse
  <2>2. PidOwned'
    BY <1>41, <2>1 DEF PidReuse, PidOwned, PidFree, Live, LaunchFacts
  <2>3. MarkerNamesItsTimer'
    BY <2>1, MarkerTame DEF LaunchFacts
  <2> QED BY <2>1, <2>2, <2>3 DEF LaunchFacts
<1>42. ASSUME NEW p \in Pid, PidRelease(p) PROVE LaunchFacts'
  BY <1>42 DEF PidRelease
<1>43. ASSUME NEW c \in Cli, CliCrash(c) PROVE LaunchFacts'
  <2>1. Idle \in Proc /\ Idle.token = NoToken /\ Idle.pc = "idle"
    BY DEF Idle, Proc
  <2>2. TimersTame
    BY <1>43 DEF CliCrash
  <2>3. LaunchHeld'
    BY <1>43, <2>1, <2>2, HeldFree DEF CliCrash
  <2> QED BY <1>43, <2>2, <2>3 DEF CliCrash
<1>44. ASSUME NEW t \in Token, TimerCrash(t) PROVE LaunchFacts'
  <2>1. TimersTame
    BY <1>44 DEF TimerCrash, TimersTame, TypeOK
  <2> QED BY <1>44, <2>1 DEF TimerCrash
<1>45. ASSUME Reboot PROVE LaunchFacts'
  <2>1. TimersTame
    BY <1>45 DEF Reboot, TimersTame
  <2>2. LaunchHeld'
    BY <1>45 DEF Reboot, LaunchHeld, HoldsSnap, HoldsLaunch, Idle
  <2> QED BY <1>45, <2>1, <2>2 DEF Reboot
<1>46. ASSUME NEW s \in Snap, LoseSnapshot(s) PROVE LaunchFacts'
  BY <1>46 DEF LoseSnapshot
<1>47. CASE UNCHANGED vars
  BY <1>47 DEF vars
<1> QED
  BY <1>1, <1>2, <1>3, <1>4, <1>5, <1>6, <1>7, <1>8, <1>9, <1>10, <1>11, <1>12, <1>13, <1>14, <1>15, <1>16, <1>17, <1>18, <1>19, <1>20, <1>21, <1>22, <1>23, <1>24, <1>25, <1>26, <1>27, <1>28, <1>29, <1>30, <1>31, <1>32, <1>33, <1>34, <1>35, <1>36, <1>37, <1>38, <1>39, <1>40, <1>41, <1>42, <1>43, <1>44, <1>45, <1>46, <1>47
  DEF Next, Start, Down, Up, Status, TimerRuns, Environment

LEMMA LaunchInit == Init => LaunchFacts
  BY NamesAssumption DEF Init, LaunchFacts, PidOwned, LaunchHeld, HoldsSnap, HoldsLaunch,
     MarkerNamesItsTimer, Idle, DeadTimer, Live

(***************************************************************************)
(* The theorems.                                                           *)
(***************************************************************************)

(* The inductive invariant: types, pid ownership, what a launching command *)
(* holds between its fork and its marker, and the marker itself.           *)
THEOREM InductiveInvariant == Spec => []TimerIInv
<1>1. Init => TimerIInv
  BY TypeInit, LaunchInit DEF TimerIInv, LaunchFacts
<1>2. TimerIInv /\ [Next]_vars => TimerIInv'
  <2>1. TimerIInv <=> TypeOK /\ LaunchFacts
    BY DEF TimerIInv, LaunchFacts
  <2>2. TimerIInv' <=> TypeOK' /\ LaunchFacts'
    BY DEF TimerIInv, LaunchFacts
  <2>3. LaunchFacts => LaunchHeld
    BY DEF LaunchFacts
  <2> QED BY <2>1, <2>2, <2>3, TypeNext, LaunchNext
<1> QED BY <1>1, <1>2, PTL DEF Spec

(* Every state of the shields files, timers and commands has its type.     *)
THEOREM TypeCorrect == Spec => []TypeOK
<1>1. TimerIInv => TypeOK
  BY DEF TimerIInv
<1> QED BY <1>1, InductiveInvariant, PTL

(* shieldsDown's marker names the timer it forked, by that child's own pid *)
(* and snapshot, whatever other commands, crashes and timers do in between.*)
THEOREM MarkerCorrect == Spec => []MarkerNamesItsTimer
<1>1. TimerIInv => MarkerNamesItsTimer
  BY DEF TimerIInv
<1> QED BY <1>1, InductiveInvariant, PTL

(* The pids killTimer signals are those of timers, held by nobody else.    *)
LEMMA SignalSpares == ASSUME PidOwned, TypeOK, Signal PROVE others' = others
<1>1. ASSUME NEW p \in Signalled PROVE p \notin others
  <2>1. PICK m \in marker : Verified(m) /\ m.pid = p
    BY <1>1 DEF Signalled
  <2>2. m.token \in Token
    BY <2>1 DEF TypeOK, Marker
  <2> QED BY <2>1, <2>2 DEF Verified, PidOwned
<1> QED BY <1>1 DEF Signal

(* killTimer, in `shields down' and `shields up', never signals a process  *)
(* that merely has the recorded pid.                                       *)
THEOREM KillCorrect == Spec => KillSafety
<1> DEFINE Spares == \A c \in Cli :
             cli[c].pc \in {"d_kill", "u_kill"} /\ cli'[c].pc \in {"d_clear", "u_killclear"}
             => others \subseteq others'
<1>1. TimerIInv /\ [Next]_vars => [Spares]_vars
  <2> SUFFICES ASSUME TypeOK, PidOwned, Next PROVE Spares
    BY DEF TimerIInv
  <2>1. CASE \E c \in Cli : Start(c)
    BY <2>1 DEF Start, StartDown, StartRebuild, StartUp, StartStatus, timerVars
  <2>2. CASE \E c \in Cli : Down(c)
    BY <2>2, SignalSpares DEF Down, DownLoad, DownKill, DownClear, DownCapture, DownApply,
       DownUnlock, DownSave, DownFork, DownMark, RollbackSet, RollbackLock, RollbackSave, timerVars
  <2>3. CASE \E c \in Cli : Up(c)
    BY <2>3, SignalSpares DEF Up, UpLoad, UpVerify, UpRelock, UpResave, UpKill, UpKillClear,
       UpRestore, UpLock, UpFirstLock, UpChattr, UpSave, UpClear, CloseWindow, timerVars
  <2>4. CASE \E c \in Cli : Status(c)
    BY <2>4 DEF Status, StatusMarker, StatusRestore, StatusLock, StatusSave, StatusClear, timerVars
  <2>5. CASE \E t \in Token : TimerRuns(t)
    BY <2>5 DEF TimerRuns, TimerWake, TimerSet, TimerLock, TimerSave, TimerEnd, TimerStep, TimerExit
  <2>6. CASE \E t \in Token : Expire(t) \/ TimerCrash(t)
    BY <2>6 DEF Expire, TimerCrash
  <2>7. CASE \E p \in Pid : PidReuse(p) \/ PidRelease(p)
    BY <2>7 DEF PidReuse, PidRelease
  <2>8. CASE \E c \in Cli : CliCrash(c)
    BY <2>8 DEF CliCrash, timerVars
  <2>9. CASE \E s \in Snap : LoseSnapshot(s)
    BY <2>9 DEF LoseSnapshot, timerVars
  <2>10. CASE Reboot
    BY <2>10 DEF Reboot, Idle
  <2> QED BY <2>1, <2>2, <2>3, <2>4, <2>5, <2>6, <2>7, <2>8, <2>9, <2>10 DEF Next, Environment
<1> QED BY <1>1, InductiveInvariant, PTL DEF Spec, KillSafety

(***************************************************************************)
(* One command at a time.  Nothing in the code keeps two commands on one   *)
(* sandbox apart (ShieldsRepeat shows what that can cost), so these        *)
(* theorems are about commands that take turns, by whatever process.  The  *)
(* timers, crashes and every other event still come between their steps.   *)
(***************************************************************************)
OneAtATime ==
  \A c, d \in Cli : cli[c].pc # "idle" /\ cli[d].pc # "idle" => c = d

(* No timer that still has its marker is to act.                           *)
NoneArmed  == \A t \in Token : ~Armed(t)
ArmedPc    == {"idle", "d_load", "d_kill", "u_load", "u_kill", "s_marker"}

OneMarker    == \A m, n \in marker : m = n
WorkIsArmed  == \A t \in Token : Working(t) => Armed(t)
ArmedNotUp   == \A t \in Token : Armed(t) => FileDown # "no"
ArmedPhases  == \A c \in Cli : cli[c].pc \notin ArmedPc => NoneArmed
LaunchIsDown == \A c \in Cli : cli[c].pc \in {"d_fork", "d_mark"} => FileDown # "no"
ArmIInv == OneMarker /\ WorkIsArmed /\ ArmedNotUp /\ ArmedPhases /\ LaunchIsDown

(* A step of c while every other command is idle.                          *)
Moves(c, from, to) ==
  /\ cli[c].pc = from /\ cli'[c].pc = to
  /\ \A d \in Cli \ {c} : cli[d].pc = "idle" /\ cli'[d].pc = "idle"

LEMMA MovesStep ==
  ASSUME TypeOK, OneAtATime, OneAtATime', NEW c \in Cli, NEW from, NEW to, NEW r \in Proc,
         r.pc = to, cli[c].pc = from, cli' = [cli EXCEPT ![c] = r], from # "idle" \/ to # "idle"
  PROVE  Moves(c, from, to)
<1>1. cli'[c] = r /\ \A d \in Cli \ {c} : cli'[d] = cli[d]
  BY DEF TypeOK
<1> QED BY <1>1 DEF OneAtATime, Moves

LEMMA StepMoves ==
  ASSUME TypeOK, OneAtATime, OneAtATime', NEW c \in Cli, NEW from, NEW to \in Pcs,
         Step(c, from, to), from # "idle" \/ to # "idle"
  PROVE  /\ Moves(c, from, to)
         /\ cli'[c].snap = cli[c].snap /\ cli'[c].down = cli[c].down
<1> DEFINE r == [cli[c] EXCEPT !.pc = to]
<1>1. r \in Proc /\ r.pc = to /\ r.snap = cli[c].snap /\ r.down = cli[c].down
  BY ProcType DEF Proc, Pcs
<1>2. cli' = [cli EXCEPT ![c] = r] /\ cli[c].pc = from
  BY DEF Step
<1>3. cli'[c] = r
  BY <1>2 DEF TypeOK
<1> HIDE DEF r
<1> QED BY <1>1, <1>2, <1>3, MovesStep

LEMMA FinishMoves ==
  ASSUME TypeOK, OneAtATime, OneAtATime', NEW c \in Cli, NEW from, from # "idle",
         Finish(c, from)
  PROVE  Moves(c, from, "idle")
<1>1. Idle \in Proc /\ Idle.pc = "idle"
  BY DEF Idle, Proc
<1>2. cli' = [cli EXCEPT ![c] = Idle] /\ cli[c].pc = from
  BY DEF Finish
<1> QED BY <1>1, <1>2, MovesStep

LEMMA GivesUpMoves ==
  ASSUME TypeOK, OneAtATime, OneAtATime', NEW c \in Cli, NEW from, from # "idle",
         UpGivesUp(c, from)
  PROVE  \E to \in {"idle", "w_open"} : Moves(c, from, to)
<1>1. CASE Finish(c, from)
  BY <1>1, FinishMoves
<1>2. CASE cli[c].pc = from /\ cli' = [cli EXCEPT ![c] = [Idle EXCEPT !.pc = "w_open", !.window = "retried"]]
  <2> DEFINE r == [Idle EXCEPT !.pc = "w_open", !.window = "retried"]
  <2>1. r \in Proc /\ r.pc = "w_open"
    BY DEF Idle, Proc, DownPc
  <2>2. cli' = [cli EXCEPT ![c] = r]
    BY <1>2
  <2> HIDE DEF r
  <2> QED BY <1>2, <2>1, <2>2, MovesStep
<1> QED BY <1>1, <1>2 DEF UpGivesUp

LEMMA MergedDown ==
  ASSUME NEW d, NEW s, file' = Merged(d, s)
  PROVE  FileDown' = d
  BY DEF Merged, FileDown

LEMMA ArmedVerified ==
  ASSUME NEW t \in Token, Armed(t)
  PROVE  Verified(Own(t)) /\ Own(t) \in marker
  BY DEF Armed, Matches, Own, Verified, Live

(* A step that leaves the timers and the marker alone.                     *)
LEMMA ArmQuiet ==
  ASSUME ArmIInv, NEW c \in Cli, NEW from, NEW to, Moves(c, from, to), UNCHANGED <<marker, timer>>,
         from \in ArmedPc /\ to \notin ArmedPc => NoneArmed,
         FileDown' = "no" => FileDown = "no" \/ from \notin ArmedPc,
         to \in {"d_fork", "d_mark"} => FileDown' # "no"
  PROVE  ArmIInv'
<1>1. ASSUME NEW t \in Token PROVE Armed(t)' <=> Armed(t)
  BY DEF Armed, Matches, Own
<1>2. ASSUME NEW t \in Token PROVE Working(t)' <=> Working(t)
  BY DEF Working
<1>3. OneMarker' /\ WorkIsArmed'
  BY <1>1, <1>2 DEF ArmIInv, OneMarker, WorkIsArmed
<1>4. from \notin ArmedPc \/ to \notin ArmedPc => NoneArmed
  BY DEF ArmIInv, ArmedPhases, Moves
<1>5. ArmedNotUp'
  BY <1>1, <1>4 DEF ArmIInv, ArmedNotUp, NoneArmed
<1>6. ArmedPhases'
  BY <1>1, <1>4 DEF ArmedPhases, NoneArmed, Moves, ArmedPc
<1>7. LaunchIsDown'
  BY DEF LaunchIsDown, Moves
<1> QED BY <1>3, <1>5, <1>6, <1>7 DEF ArmIInv

(* A save, done or failed, in a phase where no timer is armed.             *)
LEMMA ArmSave ==
  ASSUME ArmIInv, NEW c \in Cli, NEW from, NEW to, Moves(c, from, to), UNCHANGED <<marker, timer>>,
         from \notin ArmedPc, to \notin {"d_fork", "d_mark"}
  PROVE  ArmIInv'
  BY ArmQuiet

(* A step that leaves no timer armed.                                      *)
LEMMA ArmNone ==
  ASSUME ArmIInv, NEW c \in Cli, NEW from, NEW to, Moves(c, from, to), marker' \subseteq marker,
         NoneArmed', \A t \in Token : Working(t)' => Armed(t)',
         to \in {"d_fork", "d_mark"} => FileDown' # "no"
  PROVE  ArmIInv'
<1>1. OneMarker' /\ WorkIsArmed' /\ ArmedNotUp' /\ ArmedPhases'
  BY DEF ArmIInv, OneMarker, WorkIsArmed, ArmedNotUp, ArmedPhases, NoneArmed
<1>2. LaunchIsDown'
  BY DEF LaunchIsDown, Moves
<1> QED BY <1>1, <1>2 DEF ArmIInv

(* Removing the marker in a phase where no timer is armed.                 *)
LEMMA ArmClear ==
  ASSUME ArmIInv, NEW c \in Cli, NEW from, NEW to, Moves(c, from, to), marker' = {},
         from \notin ArmedPc, UNCHANGED timer, to \notin {"d_fork", "d_mark"}
  PROVE  ArmIInv'
<1>1. NoneArmed
  BY DEF ArmIInv, ArmedPhases, Moves
<1>2. \A t \in Token : ~Working(t)'
  BY <1>1 DEF ArmIInv, WorkIsArmed, NoneArmed, Working
<1>3. NoneArmed'
  BY DEF NoneArmed, Armed, Matches
<1> QED BY <1>2, <1>3, ArmNone

(* killTimer stops every armed timer.                                      *)
LEMMA SignalDisarms ==
  ASSUME TypeOK, ArmIInv, Signal, UNCHANGED marker
  PROVE  /\ NoneArmed' /\ \A t \in Token : ~Working(t)'
<1>1. ASSUME NEW t \in Token, Armed(t) PROVE timer'[t] = DeadTimer
  <2>1. Verified(Own(t)) /\ Own(t) \in marker
    BY <1>1, ArmedVerified
  <2>2. Own(t).pid = timer[t].pid
    BY DEF Own
  <2>3. timer[t].pid \in Signalled
    BY <2>1, <2>2 DEF Signalled
  <2> QED BY <2>3 DEF Signal
<1>2. ASSUME NEW t \in Token PROVE timer'[t] \in {timer[t], DeadTimer}
  BY DEF Signal
<1>3. ASSUME NEW t \in Token PROVE ~Armed(t)' /\ ~Working(t)'
  <2>1. CASE timer'[t] = DeadTimer
    BY <2>1 DEF Armed, Working, DeadTimer, TimerSaves
  <2>2. CASE timer'[t] = timer[t] /\ timer[t] # DeadTimer
    <3>1. ~Armed(t)
      BY <1>1, <2>2
    <3>2. Armed(t)' <=> Armed(t)
      BY <2>2 DEF Armed, Matches, Own
    <3>3. ~Working(t)
      BY <3>1 DEF ArmIInv, WorkIsArmed
    <3> QED BY <2>2, <3>1, <3>2, <3>3 DEF Working
  <2> QED BY <1>2, <2>1, <2>2
<1> QED BY <1>3 DEF NoneArmed

LEMMA ArmKill ==
  ASSUME TypeOK, ArmIInv, NEW c \in Cli, NEW from, NEW to, Moves(c, from, to), Signal,
         UNCHANGED marker, to \notin {"d_fork", "d_mark"}
  PROVE  ArmIInv'
  BY SignalDisarms, ArmNone

(* A step of the timer t, from one phase to another or to its exit.        *)
LEMMA ArmTimer ==
  ASSUME TypeOK, ArmIInv, NEW t \in Token, NEW from, NEW to, from # "dead", UNCHANGED cli,
         TimerStep(t, from, to) \/ (TimerExit(t, from) /\ to = "dead"),
         marker' = marker \/ (from = "t_end" /\ marker' = marker \ {Own(t)}),
         FileDown' = FileDown \/ FileDown' = "undef" \/ (to = "t_end" /\ from \in TimerSaves),
         from = "sleep" /\ to \notin {"dead", "t_end"} => Matches(t),
         from # "t_end" \/ to = "dead",
         from \in TimerSaves => to \in {"t_end", "dead"}
  PROVE  ArmIInv'
<1>1. \A u \in Token \ {t} : timer'[u] = timer[u]
  BY DEF TimerStep, TimerExit, TypeOK
<1>2. timer[t].pc = from /\ timer'[t].pc = to
  BY DEF TimerStep, TimerExit, TypeOK, Timer, DeadTimer
<1>3. to # "dead" => Own(t)' = Own(t)
  BY DEF TimerStep, TimerExit, TypeOK, Timer, DeadTimer, Own
<1>4. ASSUME NEW u \in Token, u # t PROVE (Armed(u)' <=> Armed(u)) /\ (Working(u)' <=> Working(u))
  <2>1. Own(u)' = Own(u) /\ Own(u) # Own(t)
    BY <1>1, <1>4 DEF Own
  <2> QED BY <1>1, <1>4, <2>1 DEF Armed, Matches, Working
<1>5. Armed(t)' => Armed(t) /\ ~(to = "t_end" /\ from \in TimerSaves)
  BY <1>2, <1>3 DEF Armed, Matches
<1>6. Working(t)' => Armed(t)'
  <2>1. CASE from = "sleep"
    BY <1>2, <1>3, <2>1 DEF Armed, Matches, Working, TimerSaves
  <2>2. CASE from # "sleep" /\ from # "t_end"
    <3>1. from \in {"t_set", "t_lock"} \cup TimerSaves
      BY <1>2, <2>2 DEF TypeOK, Timer
    <3>2. Armed(t)
      BY <1>2, <3>1 DEF ArmIInv, WorkIsArmed, Working
    <3> QED BY <1>2, <1>3, <2>2, <3>2 DEF Armed, Matches, Working, TimerSaves
  <2>3. CASE from = "t_end"
    BY <1>2, <2>3 DEF Working, TimerSaves
  <2> QED BY <2>1, <2>2, <2>3
<1>7. OneMarker'
  BY DEF ArmIInv, OneMarker
<1>8. WorkIsArmed'
  BY <1>4, <1>6 DEF ArmIInv, WorkIsArmed
<1>9. ASSUME from \in TimerSaves PROVE Armed(t) /\ \A u \in Token : u # t => ~Armed(u)
  <2>1. Armed(t)
    BY <1>2, <1>9 DEF ArmIInv, WorkIsArmed, Working
  <2>2. ASSUME NEW u \in Token, Armed(u) PROVE u = t
    <3>1. Own(u) = Own(t)
      BY <2>1, <2>2 DEF ArmIInv, OneMarker, Armed, Matches
    <3> QED BY <3>1 DEF Own
  <2> QED BY <2>1, <2>2
<1>10. ArmedNotUp'
  BY <1>4, <1>5, <1>9 DEF ArmIInv, ArmedNotUp
<1>11. ArmedPhases'
  BY <1>4, <1>5 DEF ArmIInv, ArmedPhases, NoneArmed
<1>12. LaunchIsDown'
  BY <1>9 DEF ArmIInv, LaunchIsDown, ArmedPhases, NoneArmed, ArmedPc
<1> QED BY <1>7, <1>8, <1>10, <1>11, <1>12 DEF ArmIInv

(* Timers are untouched or die, and so do commands; the marker stays.      *)
LEMMA ArmDies ==
  ASSUME ArmIInv, UNCHANGED marker, FileDown' \in {FileDown, "undef"},
         \A t \in Token : timer'[t] \in {timer[t], DeadTimer},
         \A c \in Cli : cli'[c] \in {cli[c], Idle}
  PROVE  ArmIInv'
<1>1. ASSUME NEW t \in Token PROVE (Armed(t)' => Armed(t)) /\ (Working(t)' => Armed(t)')
  <2>1. CASE timer'[t] = DeadTimer
    BY <2>1 DEF Armed, Working, DeadTimer, TimerSaves
  <2>2. CASE timer'[t] = timer[t]
    BY <2>2 DEF Armed, Working, Matches, Own, ArmIInv, WorkIsArmed
  <2> QED BY <2>1, <2>2
<1>2. \A c \in Cli : cli'[c].pc \in {cli[c].pc, "idle"}
  BY DEF Idle
<1>3. OneMarker' /\ WorkIsArmed'
  BY <1>1 DEF ArmIInv, OneMarker, WorkIsArmed
<1>4. ArmedNotUp'
  BY <1>1 DEF ArmIInv, ArmedNotUp
<1>5. ArmedPhases'
  BY <1>1, <1>2 DEF ArmIInv, ArmedPhases, NoneArmed, ArmedPc
<1>6. LaunchIsDown'
  BY <1>2 DEF ArmIInv, LaunchIsDown
<1> QED BY <1>3, <1>4, <1>5, <1>6 DEF ArmIInv

LEMMA ArmNext ==
  TypeOK /\ LaunchFacts /\ ArmIInv /\ OneAtATime /\ OneAtATime' /\ [Next]_vars => ArmIInv'
<1> SUFFICES ASSUME TypeOK, LaunchFacts, ArmIInv, OneAtATime, OneAtATime', [Next]_vars
             PROVE  ArmIInv'
  OBVIOUS
<1> USE StepMoves, FinishMoves, MergedDown
<1> USE DEF Pcs, DownPc, UpPc, StatusPc, ArmedPc, sandboxVars, timerVars, budgets
<1> LaunchHeld /\ MarkerNamesItsTimer
  BY DEF LaunchFacts
<1>0. UNCHANGED file => FileDown' = FileDown
  BY DEF FileDown
<1>1. ASSUME NEW c \in Cli, Start(c) PROVE ArmIInv'
  <2>1. CASE StartDown(c)
    BY <1>0, <2>1, ArmQuiet DEF StartDown
  <2>2. CASE StartUp(c)
    BY <1>0, <2>2, ArmQuiet DEF StartUp
  <2>3. CASE StartStatus(c)
    BY <1>0, <2>3, ArmQuiet DEF StartStatus
  <2>4. CASE StartRebuild(c)
    <3> DEFINE r == [Idle EXCEPT !.pc = "d_load", !.window = "open"]
    <3>1. r \in Proc /\ r.pc = "d_load"
      BY DEF Idle, Proc
    <3>2. cli' = [cli EXCEPT ![c] = r] /\ cli[c].pc = "idle"
      BY <2>4 DEF StartRebuild
    <3> HIDE DEF r
    <3>3. Moves(c, "idle", "d_load")
      BY <3>1, <3>2, MovesStep
    <3> QED BY <1>0, <2>4, <3>3, ArmQuiet DEF StartRebuild
  <2> QED BY <1>1, <2>1, <2>2, <2>3, <2>4 DEF Start
<1>2. ASSUME NEW c \in Cli, DownLoad(c) \/ DownKill(c) \/ DownClear(c) PROVE ArmIInv'
  <2>1. CASE DownLoad(c)
    BY <1>0, <2>1, ArmQuiet DEF DownLoad
  <2>2. CASE DownKill(c)
    BY <2>2, ArmKill DEF DownKill
  <2>3. CASE DownClear(c)
    BY <2>3, ArmClear DEF DownClear
  <2> QED BY <1>2, <2>1, <2>2, <2>3
<1>3. ASSUME NEW c \in Cli, DownCapture(c) PROVE ArmIInv'
  <2>1. CASE Finish(c, "d_capture")
    BY <1>0, <1>3, <2>1, ArmQuiet DEF DownCapture
  <2>2. ASSUME NEW s \in Snap, cli[c].pc = "d_capture",
               cli' = [cli EXCEPT ![c] = [@ EXCEPT !.pc = "d_apply", !.snap = s]]
        PROVE  ArmIInv'
    <3> DEFINE r == [cli[c] EXCEPT !.pc = "d_apply", !.snap = s]
    <3>0. r \in Proc
      BY ProcType, RecordSnap
    <3>1. r.pc = "d_apply" /\ cli' = [cli EXCEPT ![c] = r]
      BY <2>2, ProcType DEF Proc
    <3> HIDE DEF r
    <3>2. Moves(c, "d_capture", "d_apply")
      BY <2>2, <3>0, <3>1, MovesStep
    <3> QED BY <1>0, <1>3, <3>2, ArmQuiet DEF DownCapture
  <2> QED BY <1>3, <2>1, <2>2 DEF DownCapture
<1>4. ASSUME NEW c \in Cli, DownApply(c) \/ DownUnlock(c) PROVE ArmIInv'
  <2>1. CASE DownApply(c)
    BY <1>0, <2>1, ArmQuiet DEF DownApply
  <2>2. CASE DownUnlock(c)
    BY <1>0, <2>2, ArmQuiet DEF DownUnlock
  <2> QED BY <1>4, <2>1, <2>2
<1>5. ASSUME NEW c \in Cli, DownSave(c) PROVE ArmIInv'
  <2>1. UNCHANGED <<marker, timer>>
    BY <1>5 DEF DownSave
  <2>2. CASE Finish(c, "d_save") /\ Torn(TRUE)
    BY <2>1, <2>2, ArmSave
  <2>3. CASE ~(Finish(c, "d_save") /\ Torn(TRUE))
    <3>1. FileDown' = "yes"
      BY <1>5, <2>3 DEF DownSave
    <3>2. Moves(c, "d_save", IF cli[c].window = "none" THEN "d_fork" ELSE "w_open")
      BY <1>5, <2>3 DEF DownSave
    <3> QED BY <2>1, <3>1, <3>2, ArmQuiet
  <2> QED BY <2>2, <2>3
<1>6. ASSUME NEW c \in Cli, DownFork(c) PROVE ArmIInv'
  <2>1. CASE Step(c, "d_fork", "rb_set") /\ UNCHANGED timer
    <3>1. UNCHANGED <<file, marker, timer>>
      BY <1>6, <2>1 DEF DownFork
    <3>2. Moves(c, "d_fork", "rb_set")
      BY <2>1
    <3> QED BY <1>0, <3>1, <3>2, ArmQuiet
  <2>2. ASSUME NEW t \in Token, NEW p \in Pid, FreshToken(t), cli[c].pc = "d_fork",
               timer' = [timer EXCEPT ![t] = [pc |-> "sleep", pid |-> p, snap |-> cli[c].snap]],
               cli' = [cli EXCEPT ![c] = [@ EXCEPT !.pc = "d_mark", !.token = t, !.pid = p]]
        PROVE  ArmIInv'
    <3> DEFINE r == [cli[c] EXCEPT !.pc = "d_mark", !.token = t, !.pid = p]
    <3>0. r \in Proc
      BY ProcType, RecordLaunch
    <3>1. r.pc = "d_mark" /\ cli' = [cli EXCEPT ![c] = r]
      BY <2>2, ProcType DEF Proc
    <3> HIDE DEF r
    <3>2. Moves(c, "d_fork", "d_mark")
      BY <2>2, <3>0, <3>1, MovesStep
    <3>3. NoneArmed /\ \A u \in Token : ~Working(u)
      BY <2>2 DEF ArmIInv, ArmedPhases, WorkIsArmed, NoneArmed
    <3>4. \A u \in Token \ {t} : timer'[u] = timer[u]
      BY <2>2 DEF TypeOK
    <3>5. timer'[t].pc = "sleep" /\ Own(t)'.token = t
      BY <2>2 DEF TypeOK, Own
    <3>6. UNCHANGED <<marker, file>>
      BY <1>6 DEF DownFork
    <3>7. ~Armed(t)' /\ ~Working(t)'
      BY <2>2, <3>5, <3>6 DEF Armed, Matches, Working, FreshToken, TimerSaves
    <3>8. ASSUME NEW u \in Token, u # t PROVE ~Armed(u)' /\ ~Working(u)'
      <4>1. Own(u)' = Own(u)
        BY <3>4, <3>8 DEF Own
      <4>2. ~Armed(u) /\ ~Working(u)
        BY <3>3 DEF NoneArmed
      <4> QED BY <3>4, <3>6, <3>8, <4>1, <4>2 DEF Armed, Matches, Working
    <3>9. FileDown' # "no"
      BY <1>0, <2>2, <3>6 DEF ArmIInv, LaunchIsDown
    <3> QED BY <3>2, <3>6, <3>7, <3>8, <3>9, ArmNone DEF NoneArmed
  <2> QED BY <1>6, <2>1, <2>2 DEF DownFork
<1>7. ASSUME NEW c \in Cli, DownMark(c) PROVE ArmIInv'
  <2>0. CASE Step(c, "d_mark", "rb_set") /\ marker' = {}
    BY <1>7, <2>0, ArmClear DEF DownMark
  <2>1. CASE Step(c, "d_mark", "rb_set") /\ UNCHANGED marker
    BY <1>0, <1>7, <2>1, ArmQuiet DEF DownMark
  <2>2. ASSUME NEW m, Finish(c, "d_mark"), marker' = {m}
        PROVE  ArmIInv'
    <3>1. Moves(c, "d_mark", "idle") /\ UNCHANGED <<file, timer>>
      BY <1>7, <2>2 DEF DownMark
    <3>2. \A u \in Token : ~Working(u)'
      BY <3>1 DEF ArmIInv, ArmedPhases, WorkIsArmed, NoneArmed, Moves, Working
    <3>3. FileDown' # "no"
      BY <1>0, <3>1 DEF ArmIInv, LaunchIsDown, Moves
    <3>4. \A d \in Cli : cli'[d].pc = "idle"
      BY <3>1 DEF Moves
    <3> QED BY <2>2, <3>2, <3>3, <3>4
        DEF ArmIInv, OneMarker, WorkIsArmed, ArmedNotUp, ArmedPhases, LaunchIsDown
  <2> QED BY <1>7, <2>0, <2>1, <2>2 DEF DownMark
<1>8. ASSUME NEW c \in Cli, RollbackSet(c) \/ RollbackLock(c) \/ RollbackSave(c) PROVE ArmIInv'
  <2>1. CASE RollbackSet(c)
    BY <1>0, <2>1, ArmQuiet DEF RollbackSet
  <2>2. CASE RollbackLock(c)
    BY <1>0, <2>2, ArmQuiet DEF RollbackLock
  <2>3. CASE RollbackSave(c)
    BY <2>3, ArmSave DEF RollbackSave
  <2> QED BY <1>8, <2>1, <2>2, <2>3
<1>9. ASSUME NEW c \in Cli, UpLoad(c) PROVE ArmIInv'
  <2>1. PICK p \in {"u_verify", "u_kill"}, d \in {"undef", "yes", "no"},
             s \in Snap \cup {NoSnap} :
          /\ cli' = [cli EXCEPT ![c] = [@ EXCEPT !.pc = p, !.down = d, !.snap = s]]
          /\ d = FileDown /\ (p = "u_verify" <=> d = "no")
    BY <1>9, LoadPicks
  <2> DEFINE r == [cli[c] EXCEPT !.pc = p, !.down = d, !.snap = s]
  <2>0. r \in Proc
    BY ProcType, RecordLoad
  <2>2. r.pc = p /\ cli' = [cli EXCEPT ![c] = r]
    BY <2>1, ProcType DEF Proc
  <2> HIDE DEF r
  <2>3. Moves(c, "u_load", p)
    BY <1>9, <2>0, <2>2, MovesStep DEF UpLoad
  <2>4. FileDown = "no" => NoneArmed
    BY DEF ArmIInv, ArmedNotUp, NoneArmed
  <2> QED BY <1>0, <1>9, <2>1, <2>3, <2>4, ArmQuiet DEF UpLoad
<1>10. ASSUME NEW c \in Cli, UpVerify(c) \/ UpRelock(c) \/ UpResave(c) PROVE ArmIInv'
  <2>1. CASE UpVerify(c)
    BY <1>0, <2>1, ArmQuiet DEF UpVerify
  <2>2. CASE UpRelock(c)
    BY <1>0, <2>2, GivesUpMoves, ArmQuiet DEF UpRelock
  <2>3. CASE UpResave(c)
    <3>1. UNCHANGED <<marker, timer>>
      BY <2>3 DEF UpResave
    <3>2. PICK to \in {"idle", "w_open", "u_clear", "u_save"} : Moves(c, "u_resave", to)
      BY <2>3, GivesUpMoves DEF UpResave
    <3> QED BY <3>1, <3>2, ArmSave
  <2> QED BY <1>10, <2>1, <2>2, <2>3
<1>11. ASSUME NEW c \in Cli, UpKill(c) \/ UpKillClear(c) PROVE ArmIInv'
  <2>1. CASE UpKill(c)
    BY <2>1, ArmKill DEF UpKill
  <2>2. CASE UpKillClear(c)
    BY <2>2, ArmClear DEF UpKillClear
  <2> QED BY <1>11, <2>1, <2>2
<1>12. ASSUME NEW c \in Cli, UpRestore(c) \/ UpLock(c) \/ UpFirstLock(c) PROVE ArmIInv'
  <2>1. CASE UpRestore(c)
    BY <1>0, <2>1, GivesUpMoves, ArmQuiet DEF UpRestore
  <2>2. CASE UpLock(c)
    BY <1>0, <2>2, GivesUpMoves, ArmQuiet DEF UpLock
  <2>3. CASE UpFirstLock(c)
    BY <1>0, <2>3, GivesUpMoves, ArmQuiet DEF UpFirstLock
  <2> QED BY <1>12, <2>1, <2>2, <2>3
<1>13. ASSUME NEW c \in Cli, UpChattr(c) \/ UpSave(c) \/ UpClear(c) \/ CloseWindow(c) PROVE ArmIInv'
  <2>1. CASE UpChattr(c)
    <3>1. UNCHANGED <<marker, timer>>
      BY <2>1 DEF UpChattr
    <3>2. PICK to \in {"idle", "w_open", "u_clear", "u_save"} : Moves(c, "u_chattr", to)
      BY <2>1, GivesUpMoves DEF UpChattr
    <3> QED BY <3>1, <3>2, ArmSave
  <2>2. CASE UpSave(c)
    <3>1. UNCHANGED <<marker, timer>>
      BY <2>2 DEF UpSave
    <3>2. PICK to \in {"idle", "w_open", "u_clear", "u_save"} : Moves(c, "u_save", to)
      BY <2>2, GivesUpMoves DEF UpSave
    <3> QED BY <3>1, <3>2, ArmSave
  <2>3. CASE UpClear(c)
    BY <2>3, ArmClear DEF UpClear
  <2>4. CASE CloseWindow(c)
    BY <1>0, <2>4, ArmQuiet DEF CloseWindow
  <2> QED BY <1>13, <2>1, <2>2, <2>3, <2>4
<1>14. ASSUME NEW c \in Cli, StatusMarker(c) PROVE ArmIInv'
  <2>1. CASE Finish(c, "s_marker")
    BY <1>0, <1>14, <2>1, ArmQuiet DEF StatusMarker
  <2>2. ASSUME NEW m \in marker, Abandoned(m), cli[c].pc = "s_marker",
               cli' = [cli EXCEPT ![c] = [@ EXCEPT !.pc = "s_restore", !.snap = m.snap]]
        PROVE  ArmIInv'
    <3> DEFINE r == [cli[c] EXCEPT !.pc = "s_restore", !.snap = m.snap]
    <3>0. r \in Proc
      BY ProcType, RecordSnap DEF TypeOK, Marker
    <3>1. r.pc = "s_restore" /\ cli' = [cli EXCEPT ![c] = r]
      BY <2>2, ProcType DEF Proc
    <3> HIDE DEF r
    <3>2. Moves(c, "s_marker", "s_restore")
      BY <2>2, <3>0, <3>1, MovesStep
    <3>3. ASSUME NEW t \in Token PROVE ~Armed(t)
      BY <2>2, ArmedVerified DEF Abandoned, ArmIInv, OneMarker
    <3> QED BY <1>0, <1>14, <3>2, <3>3, ArmQuiet DEF StatusMarker, NoneArmed
  <2> QED BY <1>14, <2>1, <2>2 DEF StatusMarker
<1>15. ASSUME NEW c \in Cli, StatusRestore(c) \/ StatusLock(c) \/ StatusSave(c) \/ StatusClear(c)
       PROVE  ArmIInv'
  <2>1. CASE StatusRestore(c)
    BY <1>0, <2>1, ArmQuiet DEF StatusRestore
  <2>2. CASE StatusLock(c)
    BY <1>0, <2>2, ArmQuiet DEF StatusLock
  <2>3. CASE StatusSave(c)
    <3>1. UNCHANGED <<marker, timer>>
      BY <2>3 DEF StatusSave
    <3>2. PICK to \in {"idle", "s_clear"} : Moves(c, "s_save", to)
      BY <2>3 DEF StatusSave
    <3> QED BY <3>1, <3>2, ArmSave
  <2>4. CASE StatusClear(c)
    BY <2>4, ArmClear DEF StatusClear
  <2> QED BY <1>15, <2>1, <2>2, <2>3, <2>4
<1>16. ASSUME NEW t \in Token, TimerRuns(t) PROVE ArmIInv'
  <2> USE DEF TimerSaves
  <2>1. CASE TimerWake(t)
    <3>1. UNCHANGED <<file, marker, cli>>
      BY <2>1 DEF TimerWake
    <3>2. CASE TimerExit(t, "sleep")
      BY <1>0, <3>1, <3>2, ArmTimer
    <3>3. CASE TimerStep(t, "sleep", "t_end")
      BY <1>0, <3>1, <3>3, ArmTimer
    <3>4. CASE Matches(t) /\ TimerStep(t, "sleep", "t_set")
      BY <1>0, <3>1, <3>4, ArmTimer
    <3> QED BY <2>1, <3>2, <3>3, <3>4 DEF TimerWake
  <2>2. CASE TimerSet(t)
    BY <1>0, <2>2, ArmTimer DEF TimerSet
  <2>3. CASE TimerLock(t)
    BY <1>0, <2>3, ArmTimer DEF TimerLock
  <2>4. CASE TimerSave(t)
    <3>1. PICK from \in TimerSaves : TimerStep(t, from, "t_end")
      BY <2>4 DEF TimerSave
    <3>2. UNCHANGED <<marker, cli>>
      BY <2>4 DEF TimerSave
    <3> QED BY <3>1, <3>2, ArmTimer
  <2>5. CASE TimerEnd(t)
    BY <1>0, <2>5, ArmTimer DEF TimerEnd
  <2> QED BY <1>16, <2>1, <2>2, <2>3, <2>4, <2>5 DEF TimerRuns
<1>17. ASSUME Environment PROVE ArmIInv'
  <2>1. ASSUME NEW t \in Token, Expire(t) \/ TimerCrash(t) PROVE ArmIInv'
    <3>1. FileDown' \in {FileDown, "undef"} /\ UNCHANGED <<marker, cli>>
      BY <1>0, <2>1 DEF Expire, TimerCrash, Torn, FileDown
    <3>2. \A u \in Token : timer'[u] \in {timer[u], DeadTimer}
      BY <2>1 DEF Expire, TimerCrash, TypeOK
    <3> QED BY <3>1, <3>2, ArmDies
  <2>2. ASSUME NEW p \in Pid, PidReuse(p) \/ PidRelease(p) PROVE ArmIInv'
    BY <1>0, <2>2, ArmDies DEF PidReuse, PidRelease
  <2>3. ASSUME NEW c \in Cli, CliCrash(c) PROVE ArmIInv'
    <3>1. FileDown' \in {FileDown, "undef"} /\ UNCHANGED <<marker, timer>>
      BY <1>0, <2>3 DEF CliCrash, Torn, FileDown
    <3>2. \A d \in Cli : cli'[d] \in {cli[d], Idle}
      BY <2>3 DEF CliCrash, TypeOK
    <3> QED BY <3>1, <3>2, ArmDies
  <2>4. ASSUME NEW s \in Snap, LoseSnapshot(s) PROVE ArmIInv'
    BY <1>0, <2>4, ArmDies DEF LoseSnapshot
  <2>5. CASE Reboot
    <3>1. FileDown' \in {FileDown, "undef"} /\ UNCHANGED marker
      BY <1>0, <2>5 DEF Reboot, Torn, FileDown
    <3> QED BY <2>5, <3>1, ArmDies DEF Reboot
  <2> QED BY <1>17, <2>1, <2>2, <2>3, <2>4, <2>5 DEF Environment
<1>18. CASE UNCHANGED vars
  BY <1>0, <1>18, ArmDies DEF vars
<1> QED
  BY <1>1, <1>2, <1>3, <1>4, <1>5, <1>6, <1>7, <1>8, <1>9, <1>10, <1>11, <1>12, <1>13, <1>14,
     <1>15, <1>16, <1>17, <1>18
  DEF Next, Down, Up, Status

LEMMA ArmInit == Init => ArmIInv
  BY DEF Init, ArmIInv, OneMarker, WorkIsArmed, ArmedNotUp, ArmedPhases, LaunchIsDown, NoneArmed,
     Armed, Matches, Working, TimerSaves, Idle, DeadTimer, ArmedPc

(***************************************************************************)
(* Why a recorded lockdown is real, with one failing call and no kill.     *)
(***************************************************************************)
Undisturbed == crashes = 0 /\ faults <= 1 /\ ~unrecorded

(* A snapshot that does not lead to the permissive policy.                 *)
Good(s) == s \in Snap /\ content[s] # "permissive"

(* Commands that take the live policy for the restrictive one.             *)
Trusting(c) ==
  \/ cli[c].pc \in {"d_kill", "d_clear", "d_capture", "u_firstlock", "u_chattr"}
  \/ cli[c].pc \in {"u_kill", "u_killclear"} /\ cli[c].down # "yes"
ShutPc == {"rb_lock", "rb_save", "u_lock", "u_save", "u_chattr", "s_lock", "s_save"}
CliOK(c) ==
  /\ Trusting(c) => policy = "restrictive" /\ FileDown # "yes"
  /\ cli[c].pc \in {"d_apply", "d_unlock", "d_save", "d_fork", "d_mark", "rb_set"} =>
       Good(cli[c].snap) /\ (faults = 0 => cli[c].snap \in Kept)
  /\ cli[c].pc = "s_restore" => Good(cli[c].snap)
  /\ cli[c].pc \in {"u_kill", "u_killclear", "u_restore"} /\ cli[c].down = "yes"
       /\ cli[c].snap # NoSnap => Good(cli[c].snap)
  /\ cli[c].pc = "u_restore" => cli[c].down = "yes"
  /\ cli[c].pc \in {"d_fork", "d_mark"} => FileDown = "yes"
  /\ cli[c].pc \in {"rb_set", "rb_lock", "rb_save"} => faults > 0
  /\ cli[c].pc = "rb_set" => cli[c].snap \in Kept
  /\ cli[c].pc \in ShutPc => policy = "restrictive"
  /\ cli[c].pc \in {"u_verify", "u_relock", "u_resave"} => FileDown = "no"
  /\ cli[c].pc \in {"rb_save", "u_resave", "u_chattr", "u_save", "s_save"} => cfg = "locked"
TimerOK(t) ==
  /\ Live(t) => Good(timer[t].snap)
  /\ Armed(t) => FileDown = "yes"
  /\ timer[t].pc \in {"t_lock"} \cup TimerSaves => policy = "restrictive"
  /\ timer[t].pc = "t_saveUp" => cfg = "locked"

(* Whoever makes the policy permissive or unlocks the config is still at   *)
(* it, or has recorded it.                                                 *)
PolicyPc == {"d_unlock", "d_save", "rb_set"}
ConfigPc == {"d_save", "rb_set", "rb_lock"}
PolicyKept ==
  policy = "permissive" => FileDown = "yes" \/ \E c \in Cli : cli[c].pc \in PolicyPc
ConfigKept ==
  FileDown = "no" => cfg = "locked" \/ \E c \in Cli : cli[c].pc \in ConfigPc
FileOK   == FileDown = "yes" /\ file.snap # NoSnap => Good(file.snap)
MarkerOK == \A m \in marker : Good(m.snap)
LockFacts ==
  /\ \A c \in Cli : CliOK(c)
  /\ \A t \in Token : TimerOK(t)
  /\ PolicyKept /\ ConfigKept /\ FileOK /\ MarkerOK
LockIInv == Undisturbed => LockFacts

LEMMA IdleOK == ASSUME NEW c \in Cli, cli[c].pc = "idle" PROVE CliOK(c)
  BY DEF CliOK, Trusting, ShutPc
LEMMA IdleNextOK == ASSUME NEW c \in Cli, cli'[c].pc = "idle" PROVE CliOK(c)'
  BY DEF CliOK, Trusting, ShutPc

(* What the two facts about the policy and the config say of a command     *)
(* that runs alone.                                                        *)
LEMMA KeptAlone ==
  ASSUME NEW c \in Cli, NEW from, NEW to, Moves(c, from, to)
  PROVE  /\ PolicyKept /\ policy = "permissive" => FileDown = "yes" \/ from \in PolicyPc
         /\ ConfigKept /\ FileDown = "no" => cfg = "locked" \/ from \in ConfigPc
         /\ (policy' = "permissive" => FileDown' = "yes" \/ to \in PolicyPc) => PolicyKept'
         /\ (FileDown' = "no" => cfg' = "locked" \/ to \in ConfigPc) => ConfigKept'
  BY DEF Moves, PolicyKept, ConfigKept, PolicyPc, ConfigPc

(* A step of a command that leaves the timers alone.                       *)
LEMMA LockCommand ==
  ASSUME TypeOK, ArmIInv, LockFacts, NEW c \in Cli, NEW from, NEW to, Moves(c, from, to),
         UNCHANGED timer, marker' \subseteq marker, CliOK(c)',
         policy' = "permissive" => FileDown' = "yes" \/ to \in PolicyPc,
         FileDown' = "no" => cfg' = "locked" \/ to \in ConfigPc,
         \A s \in Snap : Good(s) => Good(s)',
         FileOK', from \notin ArmedPc \/ UNCHANGED <<policy, cfg, file>>
  PROVE  LockFacts'
<1>1. \A d \in Cli : CliOK(d)'
  BY IdleNextOK DEF Moves
<1>2. PolicyKept' /\ ConfigKept'
  BY KeptAlone
<1>3. ASSUME NEW s, Good(s) PROVE Good(s)'
  BY <1>3 DEF Good
<1>4. MarkerOK'
  BY <1>3 DEF LockFacts, MarkerOK
<1>5. from \notin ArmedPc => NoneArmed
  BY DEF ArmIInv, ArmedPhases, Moves
<1>6. ASSUME NEW t \in Token PROVE TimerOK(t)'
  <2>1. Live(t)' => Good(timer[t].snap)'
    BY <1>3 DEF LockFacts, TimerOK, Live
  <2>2. Armed(t)' => Armed(t)
    BY DEF Armed, Matches, Own
  <2>3. CASE from \notin ArmedPc
    <3>1. ~Armed(t) /\ ~Working(t)
      BY <1>5, <2>3 DEF NoneArmed, ArmIInv, WorkIsArmed
    <3> QED BY <2>1, <2>2, <3>1 DEF TimerOK, Working, TimerSaves
  <2>4. CASE UNCHANGED <<policy, cfg, file>>
    BY <2>1, <2>2, <2>4 DEF TimerOK, LockFacts, FileDown
  <2> QED BY <2>3, <2>4
<1> QED BY <1>1, <1>2, <1>4, <1>6 DEF LockFacts

LEMMA Budget ==
  ASSUME TypeOK, Undisturbed'
  PROVE  /\ (Crash => FALSE) /\ (Unrecorded => FALSE)
         /\ NoFault \/ Fault => Undisturbed
         /\ Fault => faults = 0 /\ faults' = 1
         /\ NoFault => faults' = faults
         /\ UNCHANGED budgets => faults' = faults /\ Undisturbed
  BY BoundsAssumption DEF TypeOK, Undisturbed, Crash, Unrecorded, NoFault, Fault, budgets

LEMMA MergedSnap ==
  ASSUME NEW d, NEW s, file' = Merged(d, s)
  PROVE  /\ FileDown' = d
         /\ file'.snap = IF s # NoSnap THEN s ELSE IF file.kind = "ok" THEN file.snap ELSE NoSnap
  BY DEF Merged, FileDown

LEMMA SameFile == UNCHANGED file => FileDown' = FileDown
  BY DEF FileDown

LEMMA SameGood ==
  UNCHANGED content => /\ \A s : Good(s) <=> Good(s)'
                       /\ Kept' = Kept
  BY DEF Good, Kept

LEMMA SameFileOK == LockFacts /\ UNCHANGED <<file, content>> => FileOK'
  BY SameFile, SameGood DEF LockFacts, FileOK

(* What holds of the command c that takes a step on its own.               *)
Told(c, from) ==
  /\ CliOK(c) /\ FileOK
  /\ policy = "permissive" => FileDown = "yes" \/ from \in PolicyPc
  /\ FileDown = "no" => cfg = "locked" \/ from \in ConfigPc

LEMMA Telling ==
  ASSUME LockFacts, NEW c \in Cli, NEW from, NEW to, Moves(c, from, to)
  PROVE  Told(c, from)
  BY KeptAlone DEF LockFacts, Told

(* A command that ends has little to show.                                 *)
LEMMA LockEnds ==
  ASSUME TypeOK, ArmIInv, LockFacts, NEW c \in Cli, NEW from, NEW to \in {"idle", "w_open", "u_clear", "s_clear"}, Moves(c, from, to),
         UNCHANGED <<timer, content>>, marker' \subseteq marker, from \notin ArmedPc \/ UNCHANGED <<policy, cfg, file>>,
         policy' = "permissive" => FileDown' = "yes",
         FileDown' = "no" => cfg' = "locked",
         FileOK'
  PROVE  LockFacts'
<1>1. CliOK(c)'
  BY DEF CliOK, Trusting, ShutPc, Moves
<1> QED BY <1>1, LockCommand, SameGood

(* A command whose write of the state file fails, back in lockdown.        *)
LEMMA LockTorn ==
  ASSUME TypeOK, ArmIInv, LockFacts, NEW c \in Cli, NEW to \in {"idle", "w_open"},
         NEW from \in {"rb_save", "u_resave", "u_chattr", "u_save", "s_save"},
         Moves(c, from, to), UNCHANGED <<timer, content, marker, policy, cfg>>, Torn(TRUE)
  PROVE  LockFacts'
<1>1. policy = "restrictive" /\ Told(c, from)
  BY Telling DEF Told, CliOK, ShutPc, Moves, PolicyPc, TypeOK
<1>2. CASE UNCHANGED file
  BY <1>1, <1>2, SameFile, SameFileOK, LockEnds DEF Told, PolicyPc, ConfigPc, ArmedPc
<1>3. CASE FileDown' = "undef"
  BY <1>1, <1>3, LockEnds DEF FileOK, ArmedPc
<1> QED BY <1>2, <1>3 DEF Torn, FileDown

(* killTimer may leave a torn state file, and no armed timer.               *)
LEMMA LockKill ==
  ASSUME TypeOK, ArmIInv, LockFacts, NEW c \in Cli, NEW to \in {"d_clear", "u_killclear"},
         NEW from \in {"d_kill", "u_kill"}, Moves(c, from, to), Signal,
         UNCHANGED <<policy, cfg, content, marker>>, CliOK(c)'
  PROVE  LockFacts'
<1>1. \A d \in Cli : CliOK(d)'
  BY IdleNextOK DEF Moves
<1>2. NoneArmed' /\ \A t \in Token : ~Working(t)'
  BY SignalDisarms
<1>3. file' = file \/ (FileDown' = "undef" /\ policy = "restrictive")
  <2>1. CASE UNCHANGED file
    BY <2>1
  <2>2. ASSUME NEW t \in Token, timer[t].pc \in TimerSaves,
               file' = [kind |-> "corrupt", down |-> "undef", snap |-> NoSnap]
        PROVE  FileDown' = "undef" /\ policy = "restrictive"
    BY <2>2 DEF FileDown, LockFacts, TimerOK
  <2> QED BY <2>1, <2>2 DEF Signal, Torn
<1>4. PolicyKept' /\ ConfigKept' /\ FileOK'
  <2>1. CASE file' = file
    BY <2>1, KeptAlone, SameFile, SameFileOK DEF LockFacts, PolicyPc, ConfigPc
  <2>2. CASE FileDown' = "undef" /\ policy = "restrictive"
    BY <2>2 DEF PolicyKept, ConfigKept, FileOK
  <2> QED BY <1>3, <2>1, <2>2
<1>5. MarkerOK'
  BY SameGood DEF LockFacts, MarkerOK
<1>6. ASSUME NEW t \in Token PROVE TimerOK(t)'
  <2>1. timer'[t] \in {timer[t], DeadTimer}
    BY DEF Signal
  <2>2. Live(t)' => Live(t) /\ timer'[t] = timer[t]
    BY <2>1 DEF Live, DeadTimer
  <2>3. Live(t)' => Good(timer[t].snap)'
    BY <2>2, SameGood DEF LockFacts, TimerOK
  <2>4. ~Armed(t)' /\ timer'[t].pc \notin {"t_lock"} \cup TimerSaves
    BY <1>2 DEF NoneArmed, Working
  <2> QED BY <2>3, <2>4 DEF TimerOK, TimerSaves
<1> QED BY <1>1, <1>4, <1>5, <1>6 DEF LockFacts

LEMMA LockStart ==
  ASSUME TypeOK, ArmIInv, OneAtATime, OneAtATime', LockFacts, Undisturbed', Undisturbed,
         NEW c \in Cli, Start(c)
  PROVE  LockFacts'
<1> USE SameFile, SameGood, SameFileOK, MergedSnap, Budget, Telling
<1> USE DEF Pcs, DownPc, UpPc, StatusPc, ArmedPc, PolicyPc, ConfigPc, ShutPc, sandboxVars,
        timerVars, budgets
<1>1. ASSUME StartDown(c) PROVE LockFacts'
  <2>1. UNCHANGED <<timer, policy, cfg, content, file, marker>>
    BY <1>1 DEF StartDown
  <2>2. CASE Step(c, "idle", "d_load")
    <3>1. Moves(c, "idle", "d_load") /\ cli'[c].snap = cli[c].snap /\ cli'[c].down = cli[c].down
      BY <2>2, StepMoves
    <3>2. CliOK(c)'
      BY <2>1, <2>2, <3>1 DEF Told, CliOK, Trusting, Moves
    <3> QED BY <1>1, <2>1, <2>2, <3>1, <3>2, LockCommand DEF Told, StartDown
  <2> QED BY <1>1, <2>2 DEF StartDown
<1>2. ASSUME StartUp(c) PROVE LockFacts'
  <2>1. UNCHANGED <<timer, policy, cfg, content, file, marker>>
    BY <1>2 DEF StartUp
  <2>2. CASE Step(c, "idle", "u_load")
    <3>1. Moves(c, "idle", "u_load") /\ cli'[c].snap = cli[c].snap /\ cli'[c].down = cli[c].down
      BY <2>2, StepMoves
    <3>2. CliOK(c)'
      BY <2>1, <2>2, <3>1 DEF Told, CliOK, Trusting, Moves
    <3> QED BY <1>2, <2>1, <2>2, <3>1, <3>2, LockCommand DEF Told, StartUp
  <2> QED BY <1>2, <2>2 DEF StartUp
<1>3. ASSUME StartStatus(c) PROVE LockFacts'
  <2>1. UNCHANGED <<timer, policy, cfg, content, file, marker>>
    BY <1>3 DEF StartStatus
  <2>2. CASE Step(c, "idle", "s_marker")
    <3>1. Moves(c, "idle", "s_marker") /\ cli'[c].snap = cli[c].snap /\ cli'[c].down = cli[c].down
      BY <2>2, StepMoves
    <3>2. CliOK(c)'
      BY <2>1, <2>2, <3>1 DEF Told, CliOK, Trusting, Moves
    <3> QED BY <1>3, <2>1, <2>2, <3>1, <3>2, LockCommand DEF Told, StartStatus
  <2> QED BY <1>3, <2>2 DEF StartStatus
<1>4. ASSUME StartRebuild(c) PROVE LockFacts'
  <2> DEFINE r == [Idle EXCEPT !.pc = "d_load", !.window = "open"]
  <2>1. r \in Proc /\ r.pc = "d_load"
    BY DEF Idle, Proc
  <2>2. cli' = [cli EXCEPT ![c] = r] /\ cli[c].pc = "idle"
    BY <1>4 DEF StartRebuild
  <2> HIDE DEF r
  <2>3. Moves(c, "idle", "d_load")
    BY <2>1, <2>2, MovesStep
  <2>4. CliOK(c)'
    BY <2>3 DEF CliOK, Trusting, Moves
  <2> QED BY <1>4, <2>3, <2>4, LockCommand DEF Told, StartRebuild
<1> QED BY <1>1, <1>2, <1>3, <1>4 DEF Start

LEMMA LockDown ==
  ASSUME TypeOK, ArmIInv, OneAtATime, OneAtATime', LockFacts, Undisturbed', Undisturbed,
         NEW c \in Cli, Down(c)
  PROVE  LockFacts'
<1> USE SameFile, SameGood, SameFileOK, MergedSnap, Budget, Telling
<1> USE DEF Pcs, DownPc, UpPc, StatusPc, ArmedPc, PolicyPc, ConfigPc, ShutPc, sandboxVars,
        timerVars, budgets
<1>1. ASSUME DownLoad(c) PROVE LockFacts'
  <2>1. UNCHANGED <<timer, policy, cfg, content, file, marker>>
    BY <1>1 DEF DownLoad
  <2>2. CASE Finish(c, "d_load")
    <3>1. Moves(c, "d_load", "idle")
      BY <2>2, FinishMoves
    <3> QED BY <1>1, <2>1, <2>2, <3>1, LockEnds DEF Told, DownLoad
  <2>3. CASE Step(c, "d_load", "d_kill") /\ FileDown # "yes"
    <3>1. Moves(c, "d_load", "d_kill") /\ cli'[c].snap = cli[c].snap /\ cli'[c].down = cli[c].down
      BY <2>3, StepMoves
    <3>2. CliOK(c)'
      BY <2>1, <2>3, <3>1 DEF Told, CliOK, Trusting, Moves, TypeOK
    <3> QED BY <1>1, <2>1, <2>3, <3>1, <3>2, LockCommand DEF Told, DownLoad
  <2> QED BY <1>1, <2>2, <2>3 DEF DownLoad
<1>2. ASSUME DownKill(c) PROVE LockFacts'
  <2>1. Moves(c, "d_kill", "d_clear")
    BY <1>2, StepMoves DEF DownKill
  <2>2. CliOK(c)'
    BY <1>2, <2>1 DEF Told, CliOK, Trusting, Moves, DownKill, Signal, Torn, FileDown
  <2> QED BY <1>2, <2>1, <2>2, LockKill DEF DownKill
<1>3. ASSUME DownClear(c) PROVE LockFacts'
  <2>1. UNCHANGED <<timer, policy, cfg, content, file>>
    BY <1>3 DEF DownClear
  <2>2. CASE Step(c, "d_clear", "d_capture")
    <3>1. Moves(c, "d_clear", "d_capture") /\ cli'[c].snap = cli[c].snap /\ cli'[c].down = cli[c].down
      BY <2>2, StepMoves
    <3>2. CliOK(c)'
      BY <2>1, <2>2, <3>1 DEF Told, CliOK, Trusting, Moves
    <3> QED BY <1>3, <2>1, <2>2, <3>1, <3>2, LockCommand DEF Told, DownClear
  <2> QED BY <1>3, <2>2 DEF DownClear
<1>4. ASSUME DownCapture(c) PROVE LockFacts'
  <2>1. UNCHANGED <<timer, policy, cfg, file, marker>>
    BY <1>4 DEF DownCapture
  <2>2. CASE Finish(c, "d_capture") /\ UNCHANGED content
    <3>1. Moves(c, "d_capture", "idle")
      BY <2>2, FinishMoves
    <3> QED BY <2>1, <2>2, <3>1, LockEnds DEF Told
  <2>3. ASSUME NEW s \in Snap, cli[c].pc = "d_capture", NoFault,
               content' = [content EXCEPT ![s] = policy],
               cli' = [cli EXCEPT ![c] = [@ EXCEPT !.pc = "d_apply", !.snap = s]]
        PROVE  LockFacts'
    <3> DEFINE r == [cli[c] EXCEPT !.pc = "d_apply", !.snap = s]
    <3>1. r \in Proc
      BY ProcType, RecordSnap
    <3>2. r.pc = "d_apply" /\ r.snap = s /\ cli' = [cli EXCEPT ![c] = r]
      BY <2>3, ProcType DEF Proc
    <3> HIDE DEF r
    <3>3. Moves(c, "d_capture", "d_apply") /\ cli'[c].snap = s
      BY <2>3, <3>1, <3>2, MovesStep DEF TypeOK
    <3>4. policy = "restrictive"
      BY <3>3 DEF Told, CliOK, Trusting, Moves
    <3>5. content'[s] = "restrictive" /\ \A u \in Snap \ {s} : content'[u] = content[u]
      BY <2>3, <3>4 DEF TypeOK
    <3>6. \A u \in Snap : Good(u) => Good(u)'
      BY <3>5 DEF Good
    <3>7. Good(s)' /\ s \in Kept'
      BY <3>5 DEF Good, Kept
    <3>8. CliOK(c)'
      BY <3>3, <3>7 DEF CliOK, Trusting, Moves
    <3>9. FileOK'
      BY <2>1, <3>3, <3>6 DEF Told, FileOK, FileDown, Good
    <3> QED BY <2>1, <3>3, <3>4, <3>6, <3>8, <3>9, LockCommand DEF Told
  <2> QED BY <1>4, <2>2, <2>3 DEF DownCapture
<1>5. ASSUME DownApply(c) PROVE LockFacts'
  <2>1. UNCHANGED <<timer, cfg, content, file, marker>>
    BY <1>5 DEF DownApply
  <2>2. CASE Step(c, "d_apply", "d_unlock") /\ NoFault /\ policy' = "permissive"
    <3>1. Moves(c, "d_apply", "d_unlock") /\ cli'[c].snap = cli[c].snap /\ cli'[c].down = cli[c].down
      BY <2>2, StepMoves
    <3>2. CliOK(c)'
      BY <2>1, <2>2, <3>1 DEF Told, CliOK, Trusting, Moves
    <3> QED BY <1>5, <2>1, <2>2, <3>1, <3>2, LockCommand DEF Told, DownApply
  <2>3. CASE Finish(c, "d_apply") /\ UNCHANGED policy
    <3>1. Moves(c, "d_apply", "idle")
      BY <2>3, FinishMoves
    <3> QED BY <1>5, <2>1, <2>3, <3>1, LockEnds DEF Told, DownApply
  <2>4. ~Unrecorded
    BY Budget
  <2> QED BY <1>5, <2>2, <2>3, <2>4 DEF DownApply
<1>6. ASSUME DownUnlock(c) PROVE LockFacts'
  <2>1. UNCHANGED <<timer, policy, content, file, marker>>
    BY <1>6 DEF DownUnlock
  <2>2. CASE Step(c, "d_unlock", "d_save") /\ NoFault /\ Unlocked
    <3>1. Moves(c, "d_unlock", "d_save") /\ cli'[c].snap = cli[c].snap /\ cli'[c].down = cli[c].down
      BY <2>2, StepMoves
    <3>2. CliOK(c)'
      BY <2>1, <2>2, <3>1 DEF Told, CliOK, Trusting, Moves
    <3> QED BY <1>6, <2>1, <2>2, <3>1, <3>2, LockCommand DEF Told, DownUnlock
  <2>3. CASE Step(c, "d_unlock", "rb_set") /\ Fault
    <3>1. Moves(c, "d_unlock", "rb_set") /\ cli'[c].snap = cli[c].snap /\ cli'[c].down = cli[c].down
      BY <2>3, StepMoves
    <3>2. CliOK(c)'
      BY <2>1, <2>3, <3>1 DEF Told, CliOK, Trusting, Moves
    <3> QED BY <1>6, <2>1, <2>3, <3>1, <3>2, LockCommand DEF Told, DownUnlock
  <2> QED BY <1>6, <2>2, <2>3 DEF DownUnlock
<1>7. ASSUME DownSave(c) PROVE LockFacts'
  <2>0. ~Unrecorded
    BY Budget
  <2> file' = Merged("yes", cli[c].snap)
    BY <1>7, <2>0 DEF DownSave
  <2>1. UNCHANGED <<timer, policy, cfg, content, marker, faults>> /\ FileDown' = "yes"
    BY <1>7, <2>0 DEF DownSave, NoFault
  <2>2. PICK to \in {"d_fork", "w_open"} : Step(c, "d_save", to)
    BY <1>7, <2>0 DEF DownSave
  <2>3. Moves(c, "d_save", to) /\ cli'[c].snap = cli[c].snap
    BY <2>2, StepMoves
  <2>4. Good(cli[c].snap)
    BY <2>3 DEF Told, CliOK, Moves
  <2>5. CliOK(c)'
    BY <2>1, <2>3 DEF Told, CliOK, Trusting, Moves
  <2>6. FileOK'
    BY <1>7, <2>0, <2>1, <2>4, NamesAssumption DEF DownSave, FileOK, Good
  <2> QED BY <2>1, <2>3, <2>5, <2>6, LockCommand DEF Told
<1>8. ASSUME DownFork(c) PROVE LockFacts'
  <2>1. UNCHANGED <<policy, cfg, content, file, marker>>
    BY <1>8 DEF DownFork
  <2>2. CASE Step(c, "d_fork", "rb_set") /\ Fault /\ UNCHANGED timer
    <3>1. Moves(c, "d_fork", "rb_set") /\ cli'[c].snap = cli[c].snap
      BY <2>2, StepMoves
    <3>2. CliOK(c)'
      BY <2>1, <2>2, <3>1 DEF Told, CliOK, Trusting, Moves
    <3> QED BY <2>1, <2>2, <3>1, <3>2, LockCommand DEF Told
  <2>3. ASSUME NEW t \in Token, NEW p \in Pid, FreshToken(t), cli[c].pc = "d_fork", NoFault,
               timer' = [timer EXCEPT ![t] = [pc |-> "sleep", pid |-> p, snap |-> cli[c].snap]],
               cli' = [cli EXCEPT ![c] = [@ EXCEPT !.pc = "d_mark", !.token = t, !.pid = p]]
        PROVE  LockFacts'
    <3> DEFINE r == [cli[c] EXCEPT !.pc = "d_mark", !.token = t, !.pid = p]
    <3>1. r \in Proc
      BY ProcType, RecordLaunch
    <3>2. r.pc = "d_mark" /\ r.snap = cli[c].snap /\ cli' = [cli EXCEPT ![c] = r]
      BY <2>3, ProcType DEF Proc
    <3> HIDE DEF r
    <3>3. Moves(c, "d_fork", "d_mark") /\ cli'[c].snap = cli[c].snap
      BY <2>3, <3>1, <3>2, MovesStep DEF TypeOK
    <3>4. Good(cli[c].snap) /\ FileDown = "yes"
      BY <3>3 DEF Told, CliOK, Moves
    <3>5. CliOK(c)'
      BY <2>1, <2>3, <3>3 DEF Told, CliOK, Trusting, Moves
    <3>6. \A d \in Cli : CliOK(d)'
      BY <3>3, <3>5, IdleNextOK DEF Moves
    <3>7. timer'[t].pc = "sleep" /\ timer'[t].snap = cli[c].snap
      BY <2>3 DEF TypeOK
    <3>8. TimerOK(t)'
      BY <2>1, <3>4, <3>7 DEF TimerOK, TimerSaves
    <3>9. ASSUME NEW u \in Token, u # t PROVE TimerOK(u)'
      <4>1. timer'[u] = timer[u]
        BY <2>3, <3>9 DEF TypeOK
      <4>2. TimerOK(u)
        BY DEF LockFacts
      <4> QED BY <2>1, <4>1, <4>2 DEF TimerOK, Live, Armed, Matches, Own
    <3>10. PolicyKept' /\ ConfigKept'
      BY <2>1, <3>3, <3>4, KeptAlone
    <3> QED BY <2>1, <3>6, <3>8, <3>9, <3>10 DEF LockFacts, MarkerOK
  <2> QED BY <1>8, <2>2, <2>3 DEF DownFork
<1>9. ASSUME DownMark(c) PROVE LockFacts'
  <2>1. UNCHANGED <<policy, cfg, content, file, timer>>
    BY <1>9 DEF DownMark
  <2>2. CASE Step(c, "d_mark", "rb_set") /\ Fault /\ marker' \in {marker, {}}
    <3>1. Moves(c, "d_mark", "rb_set") /\ cli'[c].snap = cli[c].snap
      BY <2>2, StepMoves
    <3>2. CliOK(c)'
      BY <2>1, <2>2, <3>1 DEF Told, CliOK, Trusting, Moves
    <3> QED BY <2>1, <2>2, <3>1, <3>2, LockCommand DEF Told
  <2>3. CASE /\ Finish(c, "d_mark")
             /\ marker' = {[token |-> cli[c].token, pid |-> cli[c].pid, snap |-> cli[c].snap]}
    <3>1. Moves(c, "d_mark", "idle")
      BY <2>3, FinishMoves
    <3>2. Good(cli[c].snap) /\ FileDown = "yes"
      BY <3>1 DEF Told, CliOK, Moves
    <3>3. \A d \in Cli : CliOK(d)'
      BY <3>1, IdleNextOK DEF Moves
    <3>4. MarkerOK'
      BY <2>1, <2>3, <3>2 DEF MarkerOK
    <3>5. ASSUME NEW u \in Token PROVE TimerOK(u)'
      <4>1. TimerOK(u)
        BY DEF LockFacts
      <4> QED BY <2>1, <3>2, <4>1 DEF TimerOK, Live
    <3>6. PolicyKept' /\ ConfigKept'
      BY <2>1, <3>1, <3>2, KeptAlone
    <3> QED BY <2>1, <3>3, <3>4, <3>5, <3>6 DEF LockFacts
  <2> QED BY <1>9, <2>2, <2>3 DEF DownMark
<1>10. ASSUME RollbackSet(c) PROVE LockFacts'
  <2>1. UNCHANGED <<timer, cfg, content, file, marker>>
    BY <1>10 DEF RollbackSet
  <2>2. CASE Step(c, "rb_set", "rb_lock") /\ NoFault /\ Restore(cli[c].snap)
    <3>1. Moves(c, "rb_set", "rb_lock") /\ cli'[c].snap = cli[c].snap /\ cli'[c].down = cli[c].down
      BY <2>2, StepMoves
    <3>2. CliOK(c)' /\ policy' = "restrictive"
      BY <2>1, <2>2, <3>1 DEF Told, CliOK, Trusting, Moves, Restore, Good, Kept, TypeOK
    <3> QED BY <1>10, <2>1, <2>2, <3>1, <3>2, LockCommand DEF Told, RollbackSet
  <2>3. CASE Finish(c, "rb_set") /\ (Fault \/ cli[c].snap \notin Kept)
    <3>1. Moves(c, "rb_set", "idle")
      BY <2>3, FinishMoves
    <3> QED BY <2>3, <3>1 DEF Told, CliOK, Moves
  <2> QED BY <1>10, <2>2, <2>3 DEF RollbackSet
<1>11. ASSUME RollbackLock(c) PROVE LockFacts'
  <2>1. UNCHANGED <<timer, policy, content, file, marker>>
    BY <1>11 DEF RollbackLock
  <2>2. CASE Step(c, "rb_lock", "rb_save") /\ NoFault /\ Locked
    <3>1. Moves(c, "rb_lock", "rb_save") /\ cli'[c].snap = cli[c].snap /\ cli'[c].down = cli[c].down
      BY <2>2, StepMoves
    <3>2. CliOK(c)'
      BY <2>1, <2>2, <3>1 DEF Told, CliOK, Trusting, Moves, Locked
    <3> QED BY <1>11, <2>1, <2>2, <3>1, <3>2, LockCommand DEF Told, RollbackLock, Locked
  <2>3. CASE Finish(c, "rb_lock") /\ Fault
    <3>1. Moves(c, "rb_lock", "idle")
      BY <2>3, FinishMoves
    <3> QED BY <2>3, <3>1 DEF Told, CliOK, Moves
  <2> QED BY <1>11, <2>2, <2>3 DEF RollbackLock
<1>12. ASSUME RollbackSave(c) PROVE LockFacts'
  <2>1. UNCHANGED <<timer, policy, cfg, content, marker>>
    BY <1>12 DEF RollbackSave
  <2>2. Moves(c, "rb_save", "idle")
    BY <1>12, FinishMoves DEF RollbackSave
  <2>3. CASE Torn(TRUE)
    BY <2>1, <2>2, <2>3, LockTorn
  <2>4. CASE file' = Merged("no", NoSnap)
    BY <2>1, <2>2, <2>4, LockEnds DEF Told, CliOK, Moves, FileOK
  <2> QED BY <1>12, <2>3, <2>4 DEF RollbackSave
<1> QED BY <1>1, <1>2, <1>3, <1>4, <1>5, <1>6, <1>7, <1>8, <1>9, <1>10, <1>11, <1>12 DEF Down

LEMMA LockUp ==
  ASSUME TypeOK, ArmIInv, OneAtATime, OneAtATime', LockFacts, Undisturbed', Undisturbed,
         NEW c \in Cli, Up(c)
  PROVE  LockFacts'
<1> USE SameFile, SameGood, SameFileOK, MergedSnap, Budget, Telling
<1> USE DEF Pcs, DownPc, UpPc, StatusPc, ArmedPc, PolicyPc, ConfigPc, ShutPc, sandboxVars,
        timerVars, budgets
<1>1. ASSUME UpLoad(c) PROVE LockFacts'
  <2>1. PICK p \in {"u_verify", "u_kill"}, d \in {"undef", "yes", "no"},
             s \in Snap \cup {NoSnap} :
          /\ cli' = [cli EXCEPT ![c] = [@ EXCEPT !.pc = p, !.down = d, !.snap = s]]
          /\ d = FileDown /\ (p = "u_verify" <=> d = "no")
          /\ d = "yes" => s = file.snap
    BY <1>1, LoadPicks
  <2> DEFINE r == [cli[c] EXCEPT !.pc = p, !.down = d, !.snap = s]
  <2>2. r \in Proc
    BY ProcType, RecordLoad
  <2>3. r.pc = p /\ r.down = d /\ r.snap = s /\ cli' = [cli EXCEPT ![c] = r]
    BY <2>1, ProcType DEF Proc
  <2> HIDE DEF r
  <2>4. Moves(c, "u_load", p) /\ cli'[c].down = d /\ cli'[c].snap = s
    BY <1>1, <2>2, <2>3, MovesStep DEF UpLoad, TypeOK
  <2>5. UNCHANGED <<policy, cfg, content, file, timer, marker>>
    BY <1>1 DEF UpLoad
  <2>6. CliOK(c)'
    BY <2>1, <2>4, <2>5 DEF Told, CliOK, Trusting, Moves, TypeOK, FileOK
  <2> QED BY <2>4, <2>5, <2>6, LockCommand DEF Told
<1>2. ASSUME UpVerify(c) PROVE LockFacts'
  <2>1. UNCHANGED <<timer, policy, cfg, content, file, marker>>
    BY <1>2 DEF UpVerify
  <2>2. CASE Step(c, "u_verify", "u_clear")
    <3>1. Moves(c, "u_verify", "u_clear") /\ cli'[c].snap = cli[c].snap /\ cli'[c].down = cli[c].down
      BY <2>2, StepMoves
    <3>2. CliOK(c)'
      BY <2>1, <2>2, <3>1 DEF Told, CliOK, Trusting, Moves
    <3> QED BY <1>2, <2>1, <2>2, <3>1, <3>2, LockCommand DEF Told, UpVerify
  <2>3. CASE Step(c, "u_verify", "u_relock")
    <3>1. Moves(c, "u_verify", "u_relock") /\ cli'[c].snap = cli[c].snap /\ cli'[c].down = cli[c].down
      BY <2>3, StepMoves
    <3>2. CliOK(c)'
      BY <2>1, <2>3, <3>1 DEF Told, CliOK, Trusting, Moves
    <3> QED BY <1>2, <2>1, <2>3, <3>1, <3>2, LockCommand DEF Told, UpVerify
  <2> QED BY <1>2, <2>2, <2>3 DEF UpVerify
<1>3. ASSUME UpRelock(c) PROVE LockFacts'
  <2>1. UNCHANGED <<timer, policy, content, file, marker>>
    BY <1>3 DEF UpRelock
  <2>2. CASE Step(c, "u_relock", "u_resave") /\ NoFault /\ Locked
    <3>1. Moves(c, "u_relock", "u_resave") /\ cli'[c].snap = cli[c].snap /\ cli'[c].down = cli[c].down
      BY <2>2, StepMoves
    <3>2. CliOK(c)'
      BY <2>1, <2>2, <3>1 DEF Told, CliOK, Trusting, Moves, Locked
    <3> QED BY <1>3, <2>1, <2>2, <3>1, <3>2, LockCommand DEF Told, UpRelock, Locked
  <2>3. CASE UpGivesUp(c, "u_relock") /\ LockFailed
    <3>1. PICK to \in {"idle", "w_open"} : Moves(c, "u_relock", to)
      BY <2>3, GivesUpMoves
    <3> QED BY <1>3, <2>1, <2>3, <3>1, LockEnds DEF Told, UpRelock, LockFailed
  <2> QED BY <1>3, <2>2, <2>3 DEF UpRelock
<1>4. ASSUME UpResave(c) PROVE LockFacts'
  <2>1. UNCHANGED <<timer, policy, cfg, content, marker>>
    BY <1>4 DEF UpResave
  <2>2. CASE Step(c, "u_resave", "u_clear") /\ file' = Merged("no", NoSnap)
    <3>1. Moves(c, "u_resave", "u_clear") /\ cli'[c].snap = cli[c].snap /\ cli'[c].down = cli[c].down
      BY <2>2, StepMoves
    <3>2. CliOK(c)'
      BY <2>1, <2>2, <3>1 DEF Told, CliOK, Trusting, Moves, FileOK
    <3> QED BY <2>1, <2>2, <3>1, <3>2, LockCommand DEF Told, CliOK, Moves, FileOK
  <2>3. CASE UpGivesUp(c, "u_resave") /\ Torn(TRUE)
    BY <2>1, <2>3, GivesUpMoves, LockTorn
  <2> QED BY <1>4, <2>2, <2>3 DEF UpResave
<1>5. ASSUME UpKill(c) PROVE LockFacts'
  <2>1. Moves(c, "u_kill", "u_killclear") /\ cli'[c].snap = cli[c].snap /\ cli'[c].down = cli[c].down
    BY <1>5, StepMoves DEF UpKill
  <2>2. CliOK(c)'
    BY <1>5, <2>1 DEF Told, CliOK, Trusting, Moves, UpKill, Signal, Torn, FileDown
  <2> QED BY <1>5, <2>1, <2>2, LockKill DEF UpKill
<1>6. ASSUME UpKillClear(c) PROVE LockFacts'
  <2>1. UNCHANGED <<timer, policy, cfg, content, file, faults>> /\ marker' = {}
    BY <1>6 DEF UpKillClear
  <2>2. PICK to \in {"u_restore", "u_firstlock"} :
          Step(c, "u_killclear", to) /\ (to = "u_restore" <=> cli[c].down = "yes")
    BY <1>6 DEF UpKillClear
  <2>3. Moves(c, "u_killclear", to) /\ cli'[c].snap = cli[c].snap /\ cli'[c].down = cli[c].down
    BY <2>2, StepMoves
  <2>4. CliOK(c)'
    BY <2>1, <2>2, <2>3 DEF Told, CliOK, Trusting, Moves
  <2> QED BY <2>1, <2>3, <2>4, LockCommand DEF Told
<1>7. ASSUME UpRestore(c) PROVE LockFacts'
  <2>1. UNCHANGED <<timer, cfg, content, file, marker>>
    BY <1>7 DEF UpRestore
  <2>2. CASE Step(c, "u_restore", "u_lock") /\ NoFault /\ Restore(cli[c].snap)
    <3>1. Moves(c, "u_restore", "u_lock") /\ cli'[c].snap = cli[c].snap /\ cli'[c].down = cli[c].down
      BY <2>2, StepMoves
    <3>2. CliOK(c)' /\ policy' = "restrictive"
      BY <2>1, <2>2, <3>1, NamesAssumption DEF Told, CliOK, Trusting, Moves, Restore, Good, Kept, TypeOK
    <3> QED BY <1>7, <2>1, <2>2, <3>1, <3>2, LockCommand DEF Told, UpRestore
  <2>3. CASE UpGivesUp(c, "u_restore") /\ UNCHANGED policy
    <3>1. PICK to \in {"idle", "w_open"} : Moves(c, "u_restore", to)
      BY <2>3, GivesUpMoves
    <3> QED BY <1>7, <2>1, <2>3, <3>1, LockEnds DEF Told, UpRestore
  <2> QED BY <1>7, <2>2, <2>3 DEF UpRestore
<1>8. ASSUME UpLock(c) PROVE LockFacts'
  <2>1. UNCHANGED <<timer, policy, content, file, marker>>
    BY <1>8 DEF UpLock
  <2>2. CASE Step(c, "u_lock", "u_save") /\ NoFault /\ Locked
    <3>1. Moves(c, "u_lock", "u_save") /\ cli'[c].snap = cli[c].snap /\ cli'[c].down = cli[c].down
      BY <2>2, StepMoves
    <3>2. CliOK(c)'
      BY <2>1, <2>2, <3>1 DEF Told, CliOK, Trusting, Moves, Locked
    <3> QED BY <1>8, <2>1, <2>2, <3>1, <3>2, LockCommand DEF Told, UpLock, Locked
  <2>3. CASE UpGivesUp(c, "u_lock") /\ LockFailed
    <3>1. PICK to \in {"idle", "w_open"} : Moves(c, "u_lock", to)
      BY <2>3, GivesUpMoves
    <3> QED BY <1>8, <2>1, <2>3, <3>1, LockEnds DEF Told, UpLock, LockFailed, CliOK, Moves
  <2> QED BY <1>8, <2>2, <2>3 DEF UpLock
<1>9. ASSUME UpFirstLock(c) PROVE LockFacts'
  <2>1. UNCHANGED <<timer, policy, content, file, marker>>
    BY <1>9 DEF UpFirstLock
  <2>2. CASE Step(c, "u_firstlock", "u_chattr") /\ NoFault /\ Locked
    <3>1. Moves(c, "u_firstlock", "u_chattr") /\ cli'[c].snap = cli[c].snap /\ cli'[c].down = cli[c].down
      BY <2>2, StepMoves
    <3>2. CliOK(c)'
      BY <2>1, <2>2, <3>1 DEF Told, CliOK, Trusting, Moves, Locked
    <3> QED BY <1>9, <2>1, <2>2, <3>1, <3>2, LockCommand DEF Told, UpFirstLock, Locked
  <2>3. CASE UpGivesUp(c, "u_firstlock") /\ LockFailed
    <3>1. PICK to \in {"idle", "w_open"} : Moves(c, "u_firstlock", to)
      BY <2>3, GivesUpMoves
    <3> QED BY <1>9, <2>1, <2>3, <3>1, LockEnds DEF Told, UpFirstLock, LockFailed, CliOK, Trusting, Moves
  <2> QED BY <1>9, <2>2, <2>3 DEF UpFirstLock
<1>10. ASSUME UpChattr(c) PROVE LockFacts'
  <2>1. UNCHANGED <<timer, policy, cfg, content, marker>>
    BY <1>10 DEF UpChattr
  <2>2. CASE Step(c, "u_chattr", "u_save") /\ file' = Merged(FileDown, NoSnap)
    <3>1. Moves(c, "u_chattr", "u_save") /\ cli'[c].snap = cli[c].snap /\ cli'[c].down = cli[c].down
      BY <2>2, StepMoves
    <3>2. CliOK(c)'
      BY <2>1, <2>2, <3>1 DEF Told, CliOK, Trusting, Moves, FileOK
    <3> QED BY <2>1, <2>2, <3>1, <3>2, LockCommand DEF Told, CliOK, Moves, FileOK
  <2>3. CASE UpGivesUp(c, "u_chattr") /\ Torn(TRUE)
    BY <2>1, <2>3, GivesUpMoves, LockTorn
  <2> QED BY <1>10, <2>2, <2>3 DEF UpChattr
<1>11. ASSUME UpSave(c) PROVE LockFacts'
  <2>1. UNCHANGED <<timer, policy, cfg, content, marker>>
    BY <1>11 DEF UpSave
  <2>2. CASE Step(c, "u_save", "u_clear") /\ file' = Merged("no", NoSnap)
    <3>1. Moves(c, "u_save", "u_clear") /\ cli'[c].snap = cli[c].snap /\ cli'[c].down = cli[c].down
      BY <2>2, StepMoves
    <3>2. CliOK(c)'
      BY <2>1, <2>2, <3>1 DEF Told, CliOK, Trusting, Moves, FileOK
    <3> QED BY <2>1, <2>2, <3>1, <3>2, LockCommand DEF Told, CliOK, Moves, FileOK
  <2>3. CASE UpGivesUp(c, "u_save") /\ Torn(TRUE)
    BY <2>1, <2>3, GivesUpMoves, LockTorn
  <2> QED BY <1>11, <2>2, <2>3 DEF UpSave
<1>12. ASSUME UpClear(c) PROVE LockFacts'
  <2>1. UNCHANGED <<timer, policy, cfg, content, file>>
    BY <1>12 DEF UpClear
  <2>2. CASE Finish(c, "u_clear")
    <3>1. Moves(c, "u_clear", "idle")
      BY <2>2, FinishMoves
    <3> QED BY <1>12, <2>1, <2>2, <3>1, LockEnds DEF Told, UpClear
  <2> QED BY <1>12, <2>2 DEF UpClear
<1>13. ASSUME CloseWindow(c) PROVE LockFacts'
  <2>1. UNCHANGED <<timer, policy, cfg, content, file, marker>>
    BY <1>13 DEF CloseWindow
  <2>2. CASE Step(c, "w_open", "u_load")
    <3>1. Moves(c, "w_open", "u_load") /\ cli'[c].snap = cli[c].snap /\ cli'[c].down = cli[c].down
      BY <2>2, StepMoves
    <3>2. CliOK(c)'
      BY <2>1, <2>2, <3>1 DEF Told, CliOK, Trusting, Moves
    <3> QED BY <1>13, <2>1, <2>2, <3>1, <3>2, LockCommand DEF Told, CloseWindow
  <2> QED BY <1>13, <2>2 DEF CloseWindow
<1> QED BY <1>1, <1>2, <1>3, <1>4, <1>5, <1>6, <1>7, <1>8, <1>9, <1>10, <1>11, <1>12, <1>13 DEF Up

LEMMA LockStatus ==
  ASSUME TypeOK, ArmIInv, OneAtATime, OneAtATime', LockFacts, Undisturbed', Undisturbed,
         NEW c \in Cli, Status(c)
  PROVE  LockFacts'
<1> USE SameFile, SameGood, SameFileOK, MergedSnap, Budget, Telling
<1> USE DEF Pcs, DownPc, UpPc, StatusPc, ArmedPc, PolicyPc, ConfigPc, ShutPc, sandboxVars,
        timerVars, budgets
<1>1. ASSUME StatusMarker(c) PROVE LockFacts'
  <2>1. UNCHANGED <<policy, cfg, content, file, timer, marker>>
    BY <1>1 DEF StatusMarker
  <2>2. CASE Finish(c, "s_marker")
    <3>1. Moves(c, "s_marker", "idle")
      BY <2>2, FinishMoves
    <3> QED BY <2>1, <3>1, LockEnds DEF Told
  <2>3. ASSUME NEW m \in marker, Abandoned(m), cli[c].pc = "s_marker",
               cli' = [cli EXCEPT ![c] = [@ EXCEPT !.pc = "s_restore", !.snap = m.snap]]
        PROVE  LockFacts'
    <3> DEFINE r == [cli[c] EXCEPT !.pc = "s_restore", !.snap = m.snap]
    <3>1. r \in Proc
      BY ProcType, RecordSnap DEF TypeOK, Marker
    <3>2. r.pc = "s_restore" /\ r.snap = m.snap /\ cli' = [cli EXCEPT ![c] = r]
      BY <2>3, ProcType DEF Proc
    <3> HIDE DEF r
    <3>3. Moves(c, "s_marker", "s_restore") /\ cli'[c].snap = m.snap
      BY <2>3, <3>1, <3>2, MovesStep DEF TypeOK
    <3>4. Good(m.snap)
      BY DEF LockFacts, MarkerOK
    <3>5. CliOK(c)'
      BY <2>1, <3>3, <3>4 DEF CliOK, Trusting, Moves
    <3>6. NoneArmed
      BY <2>3, ArmedVerified DEF Abandoned, ArmIInv, OneMarker, NoneArmed
    <3> QED BY <2>1, <3>3, <3>5, LockCommand DEF Told
  <2> QED BY <1>1, <2>2, <2>3 DEF StatusMarker
<1>2. ASSUME StatusRestore(c) PROVE LockFacts'
  <2>1. UNCHANGED <<timer, cfg, content, file, marker>>
    BY <1>2 DEF StatusRestore
  <2>2. CASE Step(c, "s_restore", "s_lock") /\ NoFault /\ Restore(cli[c].snap)
    <3>1. Moves(c, "s_restore", "s_lock") /\ cli'[c].snap = cli[c].snap /\ cli'[c].down = cli[c].down
      BY <2>2, StepMoves
    <3>2. CliOK(c)' /\ policy' = "restrictive"
      BY <2>1, <2>2, <3>1 DEF Told, CliOK, Trusting, Moves, Restore, Good, Kept, TypeOK
    <3> QED BY <1>2, <2>1, <2>2, <3>1, <3>2, LockCommand DEF Told, StatusRestore
  <2>3. CASE Finish(c, "s_restore") /\ UNCHANGED policy
    <3>1. Moves(c, "s_restore", "idle")
      BY <2>3, FinishMoves
    <3> QED BY <1>2, <2>1, <2>3, <3>1, LockEnds DEF Told, StatusRestore
  <2> QED BY <1>2, <2>2, <2>3 DEF StatusRestore
<1>3. ASSUME StatusLock(c) PROVE LockFacts'
  <2>1. UNCHANGED <<timer, policy, content, file, marker>>
    BY <1>3 DEF StatusLock
  <2>2. CASE Step(c, "s_lock", "s_save") /\ NoFault /\ Locked
    <3>1. Moves(c, "s_lock", "s_save") /\ cli'[c].snap = cli[c].snap /\ cli'[c].down = cli[c].down
      BY <2>2, StepMoves
    <3>2. CliOK(c)'
      BY <2>1, <2>2, <3>1 DEF Told, CliOK, Trusting, Moves, Locked
    <3> QED BY <1>3, <2>1, <2>2, <3>1, <3>2, LockCommand DEF Told, StatusLock, Locked
  <2>3. CASE Finish(c, "s_lock") /\ LockFailed
    <3>1. Moves(c, "s_lock", "idle")
      BY <2>3, FinishMoves
    <3> QED BY <1>3, <2>1, <2>3, <3>1, LockEnds DEF Told, StatusLock, LockFailed
  <2> QED BY <1>3, <2>2, <2>3 DEF StatusLock
<1>4. ASSUME StatusSave(c) PROVE LockFacts'
  <2>1. UNCHANGED <<timer, policy, cfg, content, marker>>
    BY <1>4 DEF StatusSave
  <2>2. CASE Step(c, "s_save", "s_clear") /\ file' = Merged("no", NoSnap)
    <3>1. Moves(c, "s_save", "s_clear") /\ cli'[c].snap = cli[c].snap /\ cli'[c].down = cli[c].down
      BY <2>2, StepMoves
    <3>2. CliOK(c)'
      BY <2>1, <2>2, <3>1 DEF Told, CliOK, Trusting, Moves, FileOK
    <3> QED BY <2>1, <2>2, <3>1, <3>2, LockCommand DEF Told, CliOK, Moves, FileOK
  <2>3. CASE Finish(c, "s_save") /\ Torn(TRUE)
    BY <2>1, <2>3, FinishMoves, LockTorn
  <2> QED BY <1>4, <2>2, <2>3 DEF StatusSave
<1>5. ASSUME StatusClear(c) PROVE LockFacts'
  <2>1. UNCHANGED <<timer, policy, cfg, content, file>>
    BY <1>5 DEF StatusClear
  <2>2. CASE Finish(c, "s_clear")
    <3>1. Moves(c, "s_clear", "idle")
      BY <2>2, FinishMoves
    <3> QED BY <1>5, <2>1, <2>2, <3>1, LockEnds DEF Told, StatusClear
  <2> QED BY <1>5, <2>2 DEF StatusClear
<1> QED BY <1>1, <1>2, <1>3, <1>4, <1>5 DEF Status

(* A timer at work meets no command that trusts the live policy.           *)
LEMMA CalmCli ==
  ASSUME LockFacts, ArmIInv, NEW t \in Token, Armed(t), NEW c \in Cli, UNCHANGED <<cli, content>>
  PROVE  CliOK(c)'
<1>1. cli[c].pc \in ArmedPc /\ FileDown = "yes" /\ CliOK(c)
  BY DEF ArmIInv, ArmedPhases, NoneArmed, LockFacts, TimerOK
<1>2. cli'[c] = cli[c] /\ \A s : Good(s) <=> Good(s)'
  BY SameGood
<1> QED BY <1>1, <1>2 DEF CliOK, Trusting, ShutPc, ArmedPc

LEMMA OnlyOneArmed ==
  ASSUME ArmIInv, NEW t \in Token, NEW u \in Token, Armed(t), u # t
  PROVE  ~Armed(u) /\ ~Working(u)
<1>1. ASSUME Armed(u) PROVE FALSE
  <2>1. Own(u) = Own(t)
    BY <1>1 DEF ArmIInv, OneMarker, Armed, Matches
  <2> QED BY <2>1 DEF Own
<1> QED BY <1>1 DEF ArmIInv, WorkIsArmed

(* A step of the timer t, which keeps its snapshot or ends.                *)
LEMMA LockTimer ==
  ASSUME TypeOK, ArmIInv, LockFacts, NEW t \in Token, NEW from, NEW to, from # "dead",
         TimerStep(t, from, to) \/ (TimerExit(t, from) /\ to = "dead"),
         UNCHANGED <<cli, content>>, marker' \subseteq marker,
         Armed(t) \/ UNCHANGED <<policy, cfg, file, faults>>,
         policy' = "permissive" => FileDown' = "yes" \/ UNCHANGED <<policy, file>>,
         FileDown' = "no" => cfg' = "locked" \/ UNCHANGED <<cfg, file>>,
         FileOK', to \in {"t_set", "t_lock"} \cup TimerSaves => FileDown' = "yes",
         to \in {"t_lock"} \cup TimerSaves => policy' = "restrictive",
         to = "t_saveUp" => cfg' = "locked",
         to \in {"dead", "t_end", "t_set", "t_lock"} \cup TimerSaves
  PROVE  LockFacts'
<1>1. /\ timer[t].pc = from /\ timer'[t].pc = to
      /\ \A u \in Token \ {t} : timer'[u] = timer[u]
      /\ to # "dead" => timer'[t].snap = timer[t].snap
  BY DEF TimerStep, TimerExit, TypeOK, Timer, DeadTimer
<1>2. \A s : Good(s) <=> Good(s)'
  BY SameGood
<1>3. TimerOK(t)'
  <2>1. Live(t)' => Good(timer[t].snap) /\ timer'[t].snap = timer[t].snap
    BY <1>1 DEF LockFacts, TimerOK, Live
  <2>2. Armed(t)' => FileDown' = "yes"
    BY <1>1 DEF Armed
  <2> QED BY <1>1, <1>2, <2>1, <2>2 DEF TimerOK, TimerSaves
<1>4. ASSUME NEW u \in Token, u # t PROVE TimerOK(u)'
  <2>1. TimerOK(u) /\ timer'[u] = timer[u]
    BY <1>1, <1>4 DEF LockFacts
  <2>2. Armed(u)' => Armed(u)
    BY <2>1 DEF Armed, Matches, Own
  <2>3. CASE UNCHANGED <<policy, cfg, file, faults>>
    BY <1>2, <2>1, <2>2, <2>3, SameFile DEF TimerOK, Live
  <2>4. CASE Armed(t)
    BY <1>2, <1>4, <2>1, <2>2, <2>4, OnlyOneArmed DEF TimerOK, Live, Working, TimerSaves
  <2> QED BY <2>3, <2>4
<1>5. ASSUME NEW c \in Cli PROVE CliOK(c)'
  <2>1. CASE UNCHANGED <<policy, cfg, file, faults>>
    BY <1>2, <2>1, SameFile, SameGood DEF LockFacts, CliOK, Trusting
  <2>2. CASE Armed(t)
    BY <2>2, CalmCli
  <2> QED BY <2>1, <2>2
<1>6. PolicyKept' /\ ConfigKept'
  BY SameFile DEF LockFacts, PolicyKept, ConfigKept
<1>7. MarkerOK'
  BY <1>2 DEF LockFacts, MarkerOK
<1> QED BY <1>3, <1>4, <1>5, <1>6, <1>7 DEF LockFacts

LEMMA LockExit ==
  ASSUME TypeOK, ArmIInv, LockFacts, NEW t \in Token, NEW from, from # "dead", TimerExit(t, from),
         UNCHANGED <<cli, content, policy, cfg, file, faults>>, marker' \subseteq marker
  PROVE  LockFacts'
<1>1. FileOK' /\ (FileDown' = "no" => FileDown = "no")
  BY SameFile, SameFileOK
<1> QED BY <1>1, LockTimer DEF TimerSaves

LEMMA LockTimers ==
  ASSUME TypeOK, TypeOK', ArmIInv, LockFacts, Undisturbed', Undisturbed, NEW t \in Token, TimerRuns(t)
  PROVE  LockFacts'
<1> USE SameFile, SameFileOK, LockTimer
<1> USE DEF TimerSaves, sandboxVars, timerVars, budgets
<1>0. ASSUME Working(t) PROVE Armed(t) /\ FileDown = "yes" /\ TimerOK(t) /\ Good(timer[t].snap)
  BY <1>0 DEF ArmIInv, WorkIsArmed, LockFacts, TimerOK, Working, Live
<1>1. CASE TimerWake(t)
  <2>1. UNCHANGED <<file, policy, cfg, content, marker, cli, faults>>
    BY <1>1 DEF TimerWake
  <2>2. CASE TimerExit(t, "sleep")
    BY <2>1, <2>2, LockExit
  <2>3. CASE TimerStep(t, "sleep", "t_end")
    BY <2>1, <2>3
  <2>4. CASE Matches(t) /\ TimerStep(t, "sleep", "t_set")
    <3>1. Armed(t) /\ FileDown = "yes"
      BY <2>4 DEF Armed, TimerStep, LockFacts, TimerOK
    <3> QED BY <2>1, <2>4, <3>1
  <2> QED BY <1>1, <2>2, <2>3, <2>4 DEF TimerWake
<1>2. CASE TimerSet(t)
  <2>1. UNCHANGED <<file, cfg, content, marker, cli>> /\ timer[t].pc = "t_set"
    BY <1>2 DEF TimerSet, TimerStep
  <2>2. Armed(t) /\ FileDown = "yes" /\ Good(timer[t].snap)
    BY <1>0, <2>1 DEF Working
  <2>3. CASE TimerStep(t, "t_set", "t_lock") /\ Restore(timer[t].snap)
    <3>1. policy' = "restrictive"
      BY <2>2, <2>3 DEF Restore, Good, Kept, TypeOK
    <3> QED BY <2>1, <2>2, <2>3, <3>1
  <2>4. CASE TimerStep(t, "t_set", "t_end") /\ UNCHANGED policy
    BY <2>1, <2>2, <2>4
  <2> QED BY <1>2, <2>3, <2>4 DEF TimerSet
<1>3. CASE TimerLock(t)
  <2>1. UNCHANGED <<file, policy, content, marker, cli>> /\ timer[t].pc = "t_lock"
    BY <1>3 DEF TimerLock, TimerStep
  <2>2. Armed(t) /\ FileDown = "yes" /\ policy = "restrictive"
    BY <1>0, <2>1 DEF Working, TimerOK
  <2>3. CASE TimerStep(t, "t_lock", "t_saveUp") /\ Locked
    BY <2>1, <2>2, <2>3 DEF Locked
  <2>4. CASE TimerStep(t, "t_lock", "t_saveDown")
    BY <2>1, <2>2, <2>4
  <2> QED BY <1>3, <2>3, <2>4 DEF TimerLock
<1>4. CASE TimerSave(t)
  <2>1. UNCHANGED <<policy, cfg, content, marker, cli>> /\ timer[t].pc \in TimerSaves
    BY <1>4 DEF TimerSave, TimerStep
  <2>2. Armed(t) /\ FileDown = "yes" /\ policy = "restrictive" /\ TimerOK(t)
    BY <1>0, <2>1 DEF Working, TimerOK
  <2>3. CASE TimerStep(t, "t_saveUp", "t_end") /\ file' = Merged("no", NoSnap)
    <3>1. FileDown' = "no" /\ cfg = "locked"
      BY <2>2, <2>3, MergedSnap DEF TimerOK, TimerStep
    <3>2. FileOK'
      BY <3>1 DEF FileOK
    <3> QED BY <2>1, <2>2, <2>3, <3>1, <3>2
  <2>4. CASE TimerStep(t, "t_saveDown", "t_end") /\ file' = Merged("yes", NoSnap)
    <3>1. FileDown' = "yes" /\ file'.snap \in {file.snap, NoSnap}
      BY <2>4, MergedSnap
    <3>2. FileOK'
      BY <2>1, <2>2, <3>1, SameGood DEF FileOK, LockFacts
    <3> QED BY <2>1, <2>2, <2>4, <3>1, <3>2
  <2>5. ASSUME NEW from \in TimerSaves, TimerStep(t, from, "t_end"), Torn(TRUE)
        PROVE  LockFacts'
    <3>1. CASE UNCHANGED file
      BY <2>1, <2>2, <2>5, <3>1
    <3>2. CASE FileDown' = "undef"
      BY <2>1, <2>2, <2>5, <3>2 DEF FileOK
    <3> QED BY <2>5, <3>1, <3>2 DEF Torn, FileDown
  <2> QED BY <1>4, <2>3, <2>4, <2>5 DEF TimerSave
<1>5. CASE TimerEnd(t)
  <2>1. UNCHANGED <<file, policy, cfg, content, cli, faults>> /\ marker' \subseteq marker
    BY <1>5 DEF TimerEnd
  <2>2. TimerExit(t, "t_end")
    BY <1>5 DEF TimerEnd
  <2> QED BY <2>1, <2>2, LockExit
<1> QED BY <1>1, <1>2, <1>3, <1>4, <1>5 DEF TimerRuns

(* Nothing changes but the clock, unrelated processes or a lost snapshot.  *)
LEMMA LockSame ==
  ASSUME LockFacts, UNCHANGED <<file, policy, cfg, marker, timer, cli>>,
         UNCHANGED <<content, faults>> \/ (faults = 0 /\ faults' = 1),
         \A s \in Snap : content'[s] \in {content[s], "missing"}
  PROVE  LockFacts'
<1>1. ASSUME NEW s, Good(s) PROVE Good(s)'
  BY <1>1 DEF Good
<1>2. FileOK' /\ MarkerOK' /\ PolicyKept' /\ ConfigKept'
  BY <1>1 DEF LockFacts, FileOK, FileDown, MarkerOK, PolicyKept, ConfigKept
<1>3. ASSUME NEW t \in Token PROVE TimerOK(t)'
  BY <1>1 DEF LockFacts, TimerOK, Live, Armed, Matches, Own, FileDown
<1>4. ASSUME NEW c \in Cli PROVE CliOK(c)'
  <2>1. CliOK(c) /\ FileDown' = FileDown /\ cli' = cli
    BY SameFile DEF LockFacts
  <2>2. CASE UNCHANGED <<content, faults>>
    BY <1>1, <2>1, <2>2, SameGood DEF CliOK, Trusting
  <2>3. CASE faults = 0 /\ faults' = 1
    BY <1>1, <2>1, <2>3 DEF CliOK, Trusting
  <2> QED BY <2>2, <2>3
<1> QED BY <1>2, <1>3, <1>4 DEF LockFacts

LEMMA Budgeted == Next => Crash \/ NoFault \/ Fault \/ Unrecorded \/ UNCHANGED budgets
  BY ZenonT(60) DEF Next, Start, Down, Up, Status, TimerRuns, Environment, StartDown, StartUp,
     StartStatus, StartRebuild, DownLoad, DownKill, DownClear, DownCapture, DownApply,
     DownUnlock, DownSave, DownFork, DownMark, RollbackSet, RollbackLock, RollbackSave,
     UpLoad, UpVerify, UpRelock, UpResave, UpKill, UpKillClear, UpRestore, UpLock,
     UpFirstLock, UpChattr, UpSave, UpClear, CloseWindow, StatusMarker, StatusRestore,
     StatusLock, StatusSave, StatusClear, TimerWake, TimerSet, TimerLock, TimerSave, TimerEnd,
     Expire, TimerCrash, PidReuse, PidRelease, CliCrash, LoseSnapshot, Reboot, budgets

LEMMA LockNext ==
  TypeOK /\ TypeOK' /\ ArmIInv /\ OneAtATime /\ OneAtATime' /\ LockIInv /\ [Next]_vars => LockIInv'
<1> SUFFICES ASSUME TypeOK, TypeOK', ArmIInv, OneAtATime, OneAtATime', LockIInv, [Next]_vars,
                    Undisturbed'
             PROVE  LockFacts'
  BY DEF LockIInv
<1>1. CASE UNCHANGED vars
  <2>1. LockFacts
    BY <1>1 DEF LockIInv, Undisturbed, vars, budgets
  <2> QED BY <1>1, <2>1, LockSame DEF vars, sandboxVars, timerVars, budgets
<1>2. CASE Next
  <2>1. Undisturbed /\ ~Crash
    BY <1>2, Budget, Budgeted
  <2>2. LockFacts
    BY <2>1 DEF LockIInv
  <2>3. ASSUME NEW c \in Cli, Start(c) \/ Down(c) \/ Up(c) \/ Status(c) PROVE LockFacts'
    BY <2>1, <2>2, <2>3, LockStart, LockDown, LockUp, LockStatus
  <2>4. ASSUME NEW t \in Token, TimerRuns(t) PROVE LockFacts'
    BY <2>1, <2>2, <2>4, LockTimers
  <2>5. CASE Environment
    <3>1. ASSUME NEW t \in Token, Expire(t) PROVE LockFacts'
      BY <2>2, <3>1, LockSame DEF Expire, sandboxVars, budgets
    <3>2. ASSUME NEW p \in Pid, PidReuse(p) \/ PidRelease(p) PROVE LockFacts'
      BY <2>2, <3>2, LockSame DEF PidReuse, PidRelease, sandboxVars, budgets
    <3>3. ASSUME NEW s \in Snap, LoseSnapshot(s) PROVE LockFacts'
      <4>1. faults = 0 /\ faults' = 1
        BY <3>3, Budget DEF LoseSnapshot
      <4>2. \A u \in Snap : content'[u] \in {content[u], "missing"}
        BY <3>3 DEF LoseSnapshot, TypeOK
      <4> QED BY <2>2, <3>3, <4>1, <4>2, LockSame DEF LoseSnapshot, sandboxVars, timerVars
    <3> QED BY <2>1, <2>5, <3>1, <3>2, <3>3 DEF Environment, TimerCrash, CliCrash, Reboot
  <2> QED BY <1>2, <2>3, <2>4, <2>5 DEF Next
<1> QED BY <1>1, <1>2

LEMMA LockInit == Init => LockIInv
<1> SUFFICES ASSUME Init PROVE LockFacts
  BY DEF LockIInv
<1>1. \A c \in Cli : CliOK(c)
  BY IdleOK DEF Init, Idle
<1>2. \A t \in Token : TimerOK(t)
  BY DEF Init, TimerOK, Live, Armed, DeadTimer, TimerSaves
<1> QED BY <1>1, <1>2 DEF Init, LockFacts, PolicyKept, ConfigKept, FileOK, MarkerOK, FileDown


(***************************************************************************)
(* Why an open sandbox is watched, as long as no call fails and no process *)
(* is killed.                                                              *)
(***************************************************************************)
Unharmed == crashes = 0 /\ faults = 0 /\ ~unrecorded

(* What a command has, and the marker a timer that ends may still have.    *)
(* The timer just launched sleeps, or woke before it had a marker.         *)
Launched(c) ==
  LET t == cli[c].token IN timer[t].pc = "sleep" \/ (timer[t].pc = "dead" /\ t \in due)
UnmarkedPc == {"d_capture", "d_apply", "d_unlock", "d_save", "d_fork", "d_mark"}
WatchCli(c) ==
  /\ cli[c].pc \in {"u_kill", "u_killclear", "u_restore"} /\ cli[c].down = "yes" =>
       LeadsBack(cli[c].snap)
  /\ cli[c].pc \in {"d_apply", "d_unlock", "d_save", "d_fork", "d_mark", "s_restore"} =>
       LeadsBack(cli[c].snap)
  /\ cli[c].pc \in UnmarkedPc => marker = {}
  /\ cli[c].pc \in {"u_clear", "s_clear"} => FileDown # "yes"
  /\ cli[c].pc = "d_mark" => Launched(c)
WatchTimer(t) ==
  /\ Live(t) => LeadsBack(timer[t].snap) /\ timer[t].pc # "t_saveDown"
  /\ timer[t].pc = "t_end" /\ Matches(t) => FileDown # "yes"

(* While the sandbox is open somebody is at it or watches it.              *)
BusyPc      == {"d_fork", "d_mark", "w_open"} \cup OpeningPc \cup ClosingPc
WatchFile   == FileDown = "yes" => LeadsBack(file.snap)
OpenWatched == FileDown = "yes" => Watched \/ \E c \in Cli : cli[c].pc \in BusyPc
WatchFacts ==
  /\ \A c \in Cli : WatchCli(c)
  /\ \A t \in Token : WatchTimer(t)
  /\ WatchFile /\ OpenWatched /\ \A m \in marker : LeadsBack(m.snap)
WatchIInv == Unharmed => WatchFacts

LEMMA IdleWatch == ASSUME NEW c \in Cli, cli'[c].pc = "idle" PROVE WatchCli(c)'
  BY DEF WatchCli, UnmarkedPc

(* A step of a command that leaves the timers alone.                       *)
LEMMA WatchCommand ==
  ASSUME TypeOK, WatchFacts, NEW c \in Cli, NEW from, NEW to, Moves(c, from, to),
         UNCHANGED <<timer, due>>, \A s : LeadsBack(s) => LeadsBack(s)', WatchCli(c)', WatchFile',
         marker' = marker \/ (marker' = {} /\ (FileDown' = "yes" => to \in BusyPc)),
         FileDown' = "yes" => FileDown = "yes" \/ marker = {},
         FileDown' = "yes" => to \in BusyPc \/ (FileDown = "yes" /\ from \notin BusyPc)
  PROVE  WatchFacts'
<1>1. \A d \in Cli : WatchCli(d)'
  BY IdleWatch DEF Moves
<1>2. \A m \in marker' : LeadsBack(m.snap)'
  BY DEF WatchFacts
<1>3. ASSUME NEW t \in Token PROVE WatchTimer(t)'
  <2>1. WatchTimer(t)
    BY DEF WatchFacts
  <2>2. Live(t)' => LeadsBack(timer[t].snap)' /\ timer'[t].pc # "t_saveDown"
    BY <2>1 DEF WatchTimer, Live
  <2>3. Matches(t)' => Matches(t)
    BY DEF Matches, Own
  <2>4. Matches(t) => marker # {}
    BY DEF Matches
  <2> QED BY <2>1, <2>2, <2>3, <2>4 DEF WatchTimer
<1>4. OpenWatched'
  <2> SUFFICES ASSUME FileDown' = "yes", to \notin BusyPc PROVE Watched'
    BY DEF OpenWatched, Moves
  <2>1. marker' = marker /\ FileDown = "yes" /\ from \notin BusyPc
    OBVIOUS
  <2>2. Watched /\ \A d \in Cli : cli[d].pc \notin {"d_fork", "d_mark", "w_open"}
    BY <2>1 DEF WatchFacts, OpenWatched, Moves, BusyPc, OpeningPc, ClosingPc
  <2>3. ASSUME NEW t \in Token, Armed(t), LeadsBack(timer[t].snap) PROVE Watched'
    BY <2>1, <2>3 DEF Watched, Armed, Matches, Own
  <2>4. ASSUME NEW m \in marker, Abandoned(m), LeadsBack(m.snap) PROVE Watched'
    BY <2>1, <2>4 DEF Watched, Abandoned, Verified, Live
  <2> QED BY <2>2, <2>3, <2>4 DEF Watched
<1> QED BY <1>1, <1>2, <1>3, <1>4 DEF WatchFacts

LEMMA SameBack == UNCHANGED content => \A s : LeadsBack(s)' <=> LeadsBack(s)
  BY DEF LeadsBack
LEMMA SameWatchFile == WatchFacts /\ UNCHANGED <<file, content>> => WatchFile'
  BY SameFile, SameBack DEF WatchFacts, WatchFile

LEMMA WatchQuiet ==
  ASSUME TypeOK, WatchFacts, NEW c \in Cli, NEW from, NEW to, Moves(c, from, to),
         UNCHANGED <<timer, due, content, marker, file>>, WatchCli(c)',
         FileDown = "yes" /\ from \in BusyPc => to \in BusyPc
  PROVE  WatchFacts'
  BY WatchCommand, SameFile, SameBack, SameWatchFile

(* A command that records something else than an open sandbox.             *)
LEMMA WatchShut ==
  ASSUME TypeOK, WatchFacts, NEW c \in Cli, NEW from, NEW to, Moves(c, from, to),
         UNCHANGED <<timer, due, content>>, marker' \in {marker, {}}, FileDown' # "yes", WatchCli(c)'
  PROVE  WatchFacts'
  BY WatchCommand, SameBack DEF WatchFile

LEMMA WatchKill ==
  ASSUME TypeOK, ArmIInv, WatchFacts, NEW c \in Cli, NEW from \in {"d_kill", "u_kill"},
         NEW to \in {"d_clear", "u_killclear"}, Moves(c, from, to), Signal,
         UNCHANGED <<content, marker>>, WatchCli(c)', FileDown = "yes" => to = "u_killclear"
  PROVE  WatchFacts'
<1>1. \A d \in Cli : WatchCli(d)'
  BY IdleWatch DEF Moves
<1>2. file' = file \/ FileDown' = "undef"
  BY DEF Signal, Torn, FileDown
<1>3. WatchFile' /\ OpenWatched'
  BY <1>2, SameFile, SameBack DEF WatchFacts, WatchFile, OpenWatched, BusyPc, ClosingPc, Moves
<1>4. ASSUME NEW t \in Token PROVE WatchTimer(t)'
  <2>1. WatchTimer(t) /\ timer'[t] \in {timer[t], DeadTimer}
    BY DEF WatchFacts, Signal
  <2>2. CASE timer'[t] = DeadTimer
    BY <2>2 DEF WatchTimer, Live, DeadTimer
  <2>3. CASE timer'[t] = timer[t]
    BY <1>2, <2>1, <2>3, SameFile, SameBack DEF WatchTimer, Live, Matches, Own
  <2> QED BY <2>1, <2>2, <2>3
<1>5. \A m \in marker' : LeadsBack(m.snap)'
  BY SameBack DEF WatchFacts
<1> QED BY <1>1, <1>3, <1>4, <1>5 DEF WatchFacts

(* What a step knows that no failing call is part of.                      *)
LEMMA Calm ==
  ASSUME TypeOK, Unharmed'
  PROVE  /\ (Fault => FALSE) /\ (Crash => FALSE) /\ (Unrecorded => FALSE)
         /\ NoFault \/ UNCHANGED budgets => Unharmed
  BY BoundsAssumption DEF TypeOK, Unharmed, Fault, Crash, Unrecorded, NoFault, budgets

LEMMA StartMoves ==
  ASSUME TypeOK, OneAtATime, OneAtATime', NEW c \in Cli, Start(c)
  PROVE  \E to \in {"d_load", "u_load", "s_marker"} : Moves(c, "idle", to)
<1> USE DEF Pcs, DownPc, UpPc, StatusPc
<1>1. CASE StartRebuild(c)
  <2> DEFINE r == [Idle EXCEPT !.pc = "d_load", !.window = "open"]
  <2>1. r \in Proc /\ r.pc = "d_load"
    BY DEF Idle, Proc
  <2>2. cli' = [cli EXCEPT ![c] = r] /\ cli[c].pc = "idle"
    BY <1>1 DEF StartRebuild
  <2> HIDE DEF r
  <2> QED BY <2>1, <2>2, MovesStep
<1>2. CASE StartDown(c)
  BY <1>2, StepMoves DEF StartDown
<1>3. CASE StartUp(c)
  BY <1>3, StepMoves DEF StartUp
<1>4. CASE StartStatus(c)
  BY <1>4, StepMoves DEF StartStatus
<1> QED BY <1>1, <1>2, <1>3, <1>4 DEF Start

LEMMA WatchStart ==
  ASSUME TypeOK, OneAtATime, OneAtATime', WatchFacts, NEW c \in Cli, Start(c)
  PROVE  WatchFacts'
<1>1. UNCHANGED <<timer, due, content, marker, file>>
  BY DEF Start, StartDown, StartUp, StartStatus, StartRebuild, timerVars
<1>2. PICK to \in {"d_load", "u_load", "s_marker"} : Moves(c, "idle", to)
  BY StartMoves
<1>3. WatchCli(c)'
  BY <1>2 DEF WatchCli, UnmarkedPc, Moves
<1> QED BY <1>1, <1>2, <1>3, WatchQuiet DEF BusyPc, OpeningPc, ClosingPc

LEMMA WatchDown ==
  ASSUME TypeOK, ArmIInv, LaunchFacts, OneAtATime, OneAtATime', LockFacts, WatchFacts, Unharmed',
         NEW c \in Cli, Down(c)
  PROVE  WatchFacts'
<1> USE SameFile, SameBack, SameWatchFile, MergedSnap, Calm, StepMoves, FinishMoves
<1> USE DEF Pcs, DownPc, UpPc, StatusPc, sandboxVars, timerVars, BusyPc, OpeningPc, ClosingPc
<1>0. WatchCli(c) /\ CliOK(c)
  BY DEF WatchFacts, LockFacts
<1>1. CASE DownLoad(c)
  <2>1. UNCHANGED <<timer, due, content, marker, file>>
    BY <1>1 DEF DownLoad
  <2>2. PICK to \in {"idle", "d_kill"} : Moves(c, "d_load", to)
    BY <1>1 DEF DownLoad
  <2>3. WatchCli(c)'
    BY <2>2 DEF WatchCli, UnmarkedPc, Moves
  <2> QED BY <2>1, <2>2, <2>3, WatchQuiet
<1>2. CASE DownKill(c)
  <2>1. Moves(c, "d_kill", "d_clear")
    BY <1>2 DEF DownKill
  <2>2. WatchCli(c)'
    BY <2>1 DEF WatchCli, UnmarkedPc, Moves
  <2>3. FileDown # "yes"
    BY <1>0, <2>1 DEF CliOK, Trusting, Moves
  <2> QED BY <1>2, <2>1, <2>2, <2>3, WatchKill DEF DownKill
<1>3. CASE DownClear(c)
  <2>1. UNCHANGED <<timer, due, content, file>> /\ marker' = {}
    BY <1>3 DEF DownClear
  <2>2. Moves(c, "d_clear", "d_capture")
    BY <1>3 DEF DownClear
  <2>3. WatchCli(c)'
    BY <2>1, <2>2 DEF WatchCli, Moves
  <2>4. FileDown' # "yes"
    BY <1>0, <2>1, <2>2 DEF CliOK, Trusting, Moves
  <2> QED BY <2>1, <2>2, <2>3, <2>4, WatchShut
<1>4. CASE DownCapture(c)
  <2>1. PICK s \in Snap : /\ cli[c].pc = "d_capture" /\ content' = [content EXCEPT ![s] = policy]
                          /\ cli' = [cli EXCEPT ![c] = [@ EXCEPT !.pc = "d_apply", !.snap = s]]
    BY <1>4 DEF DownCapture
  <2> DEFINE r == [cli[c] EXCEPT !.pc = "d_apply", !.snap = s]
  <2>2. r \in Proc
    BY ProcType, RecordSnap
  <2>3. r.pc = "d_apply" /\ r.snap = s /\ cli' = [cli EXCEPT ![c] = r]
    BY <2>1, ProcType DEF Proc
  <2> HIDE DEF r
  <2>4. Moves(c, "d_capture", "d_apply") /\ cli'[c].snap = s
    BY <2>1, <2>2, <2>3, MovesStep DEF TypeOK
  <2>5. content'[s] = "restrictive" /\ \A u \in Snap \ {s} : content'[u] = content[u]
    BY <1>0, <2>1 DEF TypeOK, CliOK, Trusting
  <2>6. LeadsBack(s)' /\ \A u : LeadsBack(u) => LeadsBack(u)'
    BY <2>5 DEF LeadsBack
  <2>7. UNCHANGED <<timer, due, marker, file>> /\ marker = {} /\ FileDown' # "yes"
    BY <1>0, <1>4, <2>4 DEF DownCapture, WatchCli, UnmarkedPc, CliOK, Trusting, Moves
  <2>8. WatchCli(c)'
    BY <2>4, <2>6, <2>7 DEF WatchCli, UnmarkedPc, Moves
  <2> QED BY <2>4, <2>6, <2>7, <2>8, WatchCommand DEF WatchFile
<1>5. CASE DownApply(c)
  <2>1. UNCHANGED <<timer, due, content, marker, file>>
    BY <1>5 DEF DownApply
  <2>2. Moves(c, "d_apply", "d_unlock") /\ cli'[c].snap = cli[c].snap
    BY <1>5 DEF DownApply
  <2>3. WatchCli(c)'
    BY <1>0, <2>1, <2>2 DEF WatchCli, UnmarkedPc, Moves
  <2> QED BY <2>1, <2>2, <2>3, WatchQuiet
<1>6. CASE DownUnlock(c)
  <2>1. UNCHANGED <<timer, due, content, marker, file>>
    BY <1>6 DEF DownUnlock
  <2>2. Moves(c, "d_unlock", "d_save") /\ cli'[c].snap = cli[c].snap
    BY <1>6 DEF DownUnlock
  <2>3. WatchCli(c)'
    BY <1>0, <2>1, <2>2 DEF WatchCli, UnmarkedPc, Moves
  <2> QED BY <2>1, <2>2, <2>3, WatchQuiet
<1>7. CASE DownSave(c)
  <2>1. UNCHANGED <<timer, due, content, marker>> /\ file' = Merged("yes", cli[c].snap)
    BY <1>7 DEF DownSave
  <2>2. PICK to \in {"d_fork", "w_open"} : Step(c, "d_save", to)
    BY <1>7 DEF DownSave
  <2>3. Moves(c, "d_save", to) /\ cli'[c].snap = cli[c].snap
    BY <2>2
  <2>4. LeadsBack(cli[c].snap) /\ marker = {}
    BY <1>0, <2>3 DEF WatchCli, UnmarkedPc, Moves
  <2>5. FileDown' = "yes" /\ file'.snap = cli[c].snap
    BY <2>1, <2>4, NamesAssumption DEF LeadsBack
  <2>6. WatchCli(c)' /\ WatchFile'
    BY <2>1, <2>3, <2>4, <2>5 DEF WatchCli, UnmarkedPc, Moves, WatchFile
  <2> QED BY <2>1, <2>3, <2>4, <2>6, WatchCommand
<1>8. CASE DownFork(c)
  <2>1. PICK t \in Token, p \in Pid :
          /\ cli[c].pc = "d_fork" /\ due' = due \ {t}
          /\ timer' = [timer EXCEPT ![t] = [pc |-> "sleep", pid |-> p, snap |-> cli[c].snap]]
          /\ cli' = [cli EXCEPT ![c] = [@ EXCEPT !.pc = "d_mark", !.token = t, !.pid = p]]
    BY <1>8 DEF DownFork
  <2> DEFINE r == [cli[c] EXCEPT !.pc = "d_mark", !.token = t, !.pid = p]
  <2>2. r \in Proc
    BY ProcType, RecordLaunch
  <2>3. r.pc = "d_mark" /\ r.snap = cli[c].snap /\ r.token = t /\ cli' = [cli EXCEPT ![c] = r]
    BY <2>1, ProcType DEF Proc
  <2> HIDE DEF r
  <2>4. Moves(c, "d_fork", "d_mark") /\ cli'[c].snap = cli[c].snap /\ cli'[c].token = t
    BY <2>1, <2>2, <2>3, MovesStep DEF TypeOK
  <2>5. UNCHANGED <<file, content, marker>> /\ marker = {} /\ LeadsBack(cli[c].snap)
    BY <1>0, <1>8, <2>4 DEF DownFork, WatchCli, UnmarkedPc, Moves
  <2>6. timer'[t].pc = "sleep" /\ timer'[t].snap = cli[c].snap
    BY <2>1 DEF TypeOK
  <2>7. WatchCli(c)'
    BY <2>4, <2>5, <2>6 DEF WatchCli, UnmarkedPc, Moves, Launched
  <2>8. \A d \in Cli : WatchCli(d)'
    BY <2>4, <2>7, IdleWatch DEF Moves
  <2>9. ASSUME NEW u \in Token PROVE WatchTimer(u)'
    <3>1. CASE u = t
      BY <2>5, <2>6, <3>1 DEF WatchTimer
    <3>2. CASE u # t
      <4>1. timer'[u] = timer[u]
        BY <2>1, <3>2 DEF TypeOK
      <4> QED BY <2>5, <4>1 DEF WatchFacts, WatchTimer, Live, Matches
    <3> QED BY <3>1, <3>2
  <2>10. OpenWatched'
    BY <2>4 DEF OpenWatched, Moves
  <2> QED BY <2>5, <2>8, <2>9, <2>10 DEF WatchFacts
<1>9. CASE DownMark(c)
  <2>0. PICK m : m = [token |-> cli[c].token, pid |-> cli[c].pid, snap |-> cli[c].snap]
    OBVIOUS
  <2>1. UNCHANGED <<file, content, timer, due>> /\ Finish(c, "d_mark") /\ marker' = {m}
    BY <1>9, <2>0 DEF DownMark
  <2>2. Moves(c, "d_mark", "idle")
    BY <2>1
  <2>3. LeadsBack(cli[c].snap) /\ Launched(c)
    BY <1>0, <2>2 DEF WatchCli, Moves
  <2>4. PICK t \in Token : t = cli[c].token /\ (Live(t) => Own(t) = m)
    BY <2>0, <2>2, NamesAssumption DEF LaunchFacts, LaunchHeld, HoldsLaunch, Moves, Own
  <2>5. \A d \in Cli : WatchCli(d)'
    BY <2>2, IdleWatch DEF Moves
  <2>6. m \in marker' /\ m.token = t /\ m.snap = cli[c].snap
    BY <2>0, <2>1, <2>4
  <2>7. Watched'
    <3>1. CASE timer[t].pc = "sleep"
      <4>1. Own(t) = m
        BY <2>4, <3>1 DEF Live
      <4>2. timer[t].snap = cli[c].snap
        BY <2>6, <4>1 DEF Own
      <4>3. Armed(t)' /\ LeadsBack(timer[t].snap)'
        BY <2>1, <2>3, <2>6, <3>1, <4>1, <4>2 DEF Armed, Matches, Own
      <4> QED BY <4>3 DEF Watched
    <3>2. CASE timer[t].pc = "dead" /\ t \in due
      <4>1. Abandoned(m)'
        BY <2>1, <2>6, <3>2 DEF Abandoned, Verified, Live
      <4> QED BY <2>1, <2>3, <2>6, <4>1 DEF Watched
    <3> QED BY <2>3, <2>4, <3>1, <3>2 DEF Launched
  <2>8. ASSUME NEW u \in Token PROVE WatchTimer(u)'
    <3>1. ASSUME timer[u].pc = "t_end", Matches(u)' PROVE FALSE
      <4>1. Own(u) = m
        BY <2>1, <3>1 DEF Matches, Own
      <4>2. u = t
        BY <2>6, <4>1 DEF Own
      <4> QED BY <2>3, <2>4, <3>1, <4>2 DEF Launched
    <3> QED BY <2>1, <3>1 DEF WatchFacts, WatchTimer, Live
  <2> QED BY <2>1, <2>3, <2>5, <2>6, <2>7, <2>8 DEF WatchFacts, OpenWatched
<1>10. CASE RollbackSet(c) \/ RollbackLock(c) \/ RollbackSave(c)
  <2>1. cli[c].pc \in {"rb_set", "rb_lock", "rb_save"}
    BY <1>10 DEF RollbackSet, RollbackLock, RollbackSave, Step, Finish
  <2>2. faults > 0
    BY <1>0, <2>1 DEF CliOK
  <2>3. faults = 0
    BY <1>10 DEF RollbackSet, RollbackLock, RollbackSave, Unharmed, budgets
  <2> QED BY <2>2, <2>3
<1> QED BY <1>1, <1>2, <1>3, <1>4, <1>5, <1>6, <1>7, <1>8, <1>9, <1>10 DEF Down

LEMMA WatchUp ==
  ASSUME TypeOK, ArmIInv, OneAtATime, OneAtATime', LockFacts, WatchFacts, Unharmed',
         NEW c \in Cli, Up(c)
  PROVE  WatchFacts'
<1> USE SameFile, SameBack, SameWatchFile, MergedSnap, Calm, StepMoves, FinishMoves
<1> USE DEF Pcs, DownPc, UpPc, StatusPc, sandboxVars, timerVars, BusyPc, OpeningPc, ClosingPc
<1>0. WatchCli(c) /\ CliOK(c) /\ WatchFile
  BY DEF WatchFacts, LockFacts
<1>1. CASE UpLoad(c)
  <2>1. PICK p \in {"u_verify", "u_kill"}, d \in {"undef", "yes", "no"},
             s \in Snap \cup {NoSnap} :
          /\ cli' = [cli EXCEPT ![c] = [@ EXCEPT !.pc = p, !.down = d, !.snap = s]]
          /\ d = FileDown /\ (p = "u_verify" <=> d = "no")
          /\ d = "yes" => s = file.snap
    BY <1>1, LoadPicks
  <2> DEFINE r == [cli[c] EXCEPT !.pc = p, !.down = d, !.snap = s]
  <2>2. r \in Proc
    BY ProcType, RecordLoad
  <2>3. r.pc = p /\ r.down = d /\ r.snap = s /\ cli' = [cli EXCEPT ![c] = r]
    BY <2>1, ProcType DEF Proc
  <2> HIDE DEF r
  <2>4. Moves(c, "u_load", p) /\ cli'[c].down = d /\ cli'[c].snap = s
    BY <1>1, <2>2, <2>3, MovesStep DEF UpLoad, TypeOK
  <2>5. UNCHANGED <<timer, due, content, marker, file>>
    BY <1>1 DEF UpLoad
  <2>6. WatchCli(c)'
    BY <1>0, <2>1, <2>4, <2>5 DEF WatchCli, UnmarkedPc, Moves, WatchFile
  <2> QED BY <2>4, <2>5, <2>6, WatchQuiet
<1>2. CASE UpVerify(c)
  <2>1. UNCHANGED <<timer, due, content, marker, file>>
    BY <1>2 DEF UpVerify
  <2>2. PICK to \in {"u_clear", "u_relock"} : Moves(c, "u_verify", to)
    BY <1>2 DEF UpVerify
  <2>3. FileDown' # "yes"
    BY <1>0, <2>1, <2>2 DEF CliOK, Moves
  <2>4. WatchCli(c)'
    BY <2>2, <2>3 DEF WatchCli, UnmarkedPc, Moves
  <2> QED BY <2>1, <2>2, <2>3, <2>4, WatchShut
<1>3. CASE UpRelock(c) \/ UpLock(c) \/ UpFirstLock(c)
  <2>1. UNCHANGED <<timer, due, content, marker, file>>
    BY <1>3 DEF UpRelock, UpLock, UpFirstLock
  <2>2. PICK from \in {"u_relock", "u_lock", "u_firstlock"}, to \in {"u_resave", "u_save", "u_chattr"} :
          Moves(c, from, to)
    BY <1>3 DEF UpRelock, UpLock, UpFirstLock
  <2>3. WatchCli(c)'
    BY <2>2 DEF WatchCli, UnmarkedPc, Moves
  <2> QED BY <2>1, <2>2, <2>3, WatchQuiet
<1>4. CASE UpResave(c) \/ UpSave(c) \/ UpChattr(c)
  <2>1. UNCHANGED <<timer, due, content, marker>>
    BY <1>4 DEF UpResave, UpSave, UpChattr
  <2>2. PICK from \in {"u_resave", "u_save", "u_chattr"}, to \in {"u_clear", "u_save"} : Moves(c, from, to)
    BY <1>4 DEF UpResave, UpSave, UpChattr
  <2>3. FileDown' # "yes"
    <3>1. CASE UpResave(c) \/ UpSave(c)
      <4>1. file' = Merged("no", NoSnap)
        BY <3>1 DEF UpResave, UpSave
      <4> QED BY <4>1, MergedSnap
    <3>2. CASE UpChattr(c)
      <4>1. cli[c].pc = "u_chattr" /\ FileDown' = FileDown
        BY <3>2 DEF UpChattr, Step
      <4> QED BY <1>0, <4>1 DEF CliOK, Trusting
    <3> QED BY <1>4, <3>1, <3>2
  <2>4. WatchCli(c)'
    BY <2>2, <2>3 DEF WatchCli, UnmarkedPc, Moves
  <2> QED BY <2>1, <2>2, <2>3, <2>4, WatchShut
<1>5. CASE UpKill(c)
  <2>1. /\ Moves(c, "u_kill", "u_killclear")
        /\ cli'[c].snap = cli[c].snap /\ cli'[c].down = cli[c].down
    BY <1>5 DEF UpKill
  <2>2. UNCHANGED <<content, marker>> /\ Signal
    BY <1>5 DEF UpKill
  <2>3. WatchCli(c)'
    BY <1>0, <2>1, <2>2 DEF WatchCli, UnmarkedPc, Moves
  <2> QED BY <2>1, <2>2, <2>3, WatchKill
<1>6. CASE UpKillClear(c)
  <2>1. UNCHANGED <<timer, due, content, file>> /\ marker' = {}
    BY <1>6 DEF UpKillClear
  <2>2. PICK to \in {"u_restore", "u_firstlock"} : Step(c, "u_killclear", to)
    BY <1>6 DEF UpKillClear
  <2>3. /\ Moves(c, "u_killclear", to)
        /\ cli'[c].snap = cli[c].snap /\ cli'[c].down = cli[c].down
    BY <2>2
  <2>4. WatchCli(c)'
    BY <1>0, <2>1, <2>3 DEF WatchCli, UnmarkedPc, Moves
  <2>5. WatchFile'
    BY <2>1
  <2> QED BY <2>1, <2>3, <2>4, <2>5, WatchCommand
<1>7. CASE UpRestore(c)
  <2>1. UNCHANGED <<timer, due, content, marker, file>> /\ cli[c].pc = "u_restore"
    BY <1>7 DEF UpRestore, Step, Finish, UpGivesUp
  <2>2. cli[c].snap \in Kept
    BY <1>0, <2>1 DEF WatchCli, CliOK, LeadsBack, Kept
  <2>3. Moves(c, "u_restore", "u_lock")
    BY <1>7, <2>2 DEF UpRestore
  <2>4. WatchCli(c)'
    BY <2>3 DEF WatchCli, UnmarkedPc, Moves
  <2> QED BY <2>1, <2>3, <2>4, WatchQuiet
<1>8. CASE UpClear(c)
  <2>1. UNCHANGED <<timer, due, content, file>> /\ marker' = {}
    BY <1>8 DEF UpClear
  <2>2. Moves(c, "u_clear", "idle")
    BY <1>8 DEF UpClear
  <2>3. FileDown' # "yes"
    BY <1>0, <2>1, <2>2 DEF WatchCli, Moves
  <2>4. WatchCli(c)'
    BY <2>2, IdleWatch DEF Moves
  <2> QED BY <2>1, <2>2, <2>3, <2>4, WatchShut
<1>9. CASE CloseWindow(c)
  <2>1. UNCHANGED <<timer, due, content, marker, file>>
    BY <1>9 DEF CloseWindow
  <2>2. Moves(c, "w_open", "u_load")
    BY <1>9 DEF CloseWindow
  <2>3. WatchCli(c)'
    BY <2>2 DEF WatchCli, UnmarkedPc, Moves
  <2> QED BY <2>1, <2>2, <2>3, WatchQuiet
<1> QED BY <1>1, <1>2, <1>3, <1>4, <1>5, <1>6, <1>7, <1>8, <1>9 DEF Up

LEMMA WatchStatus ==
  ASSUME TypeOK, ArmIInv, OneAtATime, OneAtATime', LockFacts, WatchFacts, Unharmed',
         NEW c \in Cli, Status(c)
  PROVE  WatchFacts'
<1> USE SameFile, SameBack, SameWatchFile, MergedSnap, Calm, StepMoves, FinishMoves
<1> USE DEF Pcs, DownPc, UpPc, StatusPc, sandboxVars, timerVars, BusyPc, OpeningPc, ClosingPc
<1>0. WatchCli(c) /\ CliOK(c)
  BY DEF WatchFacts, LockFacts
<1>1. CASE StatusMarker(c)
  <2>1. UNCHANGED <<timer, due, content, marker, file>>
    BY <1>1 DEF StatusMarker
  <2>2. CASE Finish(c, "s_marker")
    <3>1. Moves(c, "s_marker", "idle") /\ WatchCli(c)'
      BY <2>2, IdleWatch DEF Moves
    <3> QED BY <2>1, <3>1, WatchQuiet
  <2>3. ASSUME NEW m \in marker, cli[c].pc = "s_marker",
               cli' = [cli EXCEPT ![c] = [@ EXCEPT !.pc = "s_restore", !.snap = m.snap]]
        PROVE  WatchFacts'
    <3> DEFINE r == [cli[c] EXCEPT !.pc = "s_restore", !.snap = m.snap]
    <3>1. r \in Proc
      BY ProcType, RecordSnap DEF TypeOK, Marker
    <3>2. r.pc = "s_restore" /\ r.snap = m.snap /\ cli' = [cli EXCEPT ![c] = r]
      BY <2>3, ProcType DEF Proc
    <3> HIDE DEF r
    <3>3. Moves(c, "s_marker", "s_restore") /\ cli'[c].snap = m.snap
      BY <2>3, <3>1, <3>2, MovesStep DEF TypeOK
    <3>4. LeadsBack(m.snap)'
      BY <2>1 DEF WatchFacts
    <3>5. WatchCli(c)'
      BY <3>3, <3>4 DEF WatchCli, UnmarkedPc, Moves
    <3> QED BY <2>1, <3>3, <3>5, WatchQuiet
  <2> QED BY <1>1, <2>2, <2>3 DEF StatusMarker
<1>2. CASE StatusRestore(c)
  <2>1. UNCHANGED <<timer, due, content, marker, file>> /\ cli[c].pc = "s_restore"
    BY <1>2 DEF StatusRestore, Step, Finish
  <2>2. cli[c].snap \in Kept
    BY <1>0, <2>1 DEF WatchCli, LeadsBack, Kept
  <2>3. Moves(c, "s_restore", "s_lock")
    BY <1>2, <2>2 DEF StatusRestore
  <2>4. WatchCli(c)'
    BY <2>3 DEF WatchCli, UnmarkedPc, Moves
  <2> QED BY <2>1, <2>3, <2>4, WatchQuiet
<1>3. CASE StatusLock(c)
  <2>1. UNCHANGED <<timer, due, content, marker, file>>
    BY <1>3 DEF StatusLock
  <2>2. Moves(c, "s_lock", "s_save")
    BY <1>3 DEF StatusLock
  <2>3. WatchCli(c)'
    BY <2>2 DEF WatchCli, UnmarkedPc, Moves
  <2> QED BY <2>1, <2>2, <2>3, WatchQuiet
<1>4. CASE StatusSave(c)
  <2>1. UNCHANGED <<timer, due, content, marker>> /\ FileDown' = "no"
    BY <1>4 DEF StatusSave
  <2>2. Moves(c, "s_save", "s_clear")
    BY <1>4 DEF StatusSave
  <2>3. WatchCli(c)'
    BY <2>1, <2>2 DEF WatchCli, UnmarkedPc, Moves
  <2> QED BY <2>1, <2>2, <2>3, WatchShut
<1>5. CASE StatusClear(c)
  <2>1. UNCHANGED <<timer, due, content, file>> /\ marker' = {}
    BY <1>5 DEF StatusClear
  <2>2. Moves(c, "s_clear", "idle")
    BY <1>5 DEF StatusClear
  <2>3. FileDown' # "yes"
    BY <1>0, <2>1, <2>2 DEF WatchCli, Moves
  <2>4. WatchCli(c)'
    BY <2>2, IdleWatch DEF Moves
  <2> QED BY <2>1, <2>2, <2>3, <2>4, WatchShut
<1> QED BY <1>1, <1>2, <1>3, <1>4, <1>5 DEF Status

(* A step of the timer t, which keeps its marker or closes the sandbox.    *)
LEMMA WatchTimerStep ==
  ASSUME TypeOK, LaunchFacts, WatchFacts, NEW t \in Token, NEW from, NEW to, from # "dead",
         TimerStep(t, from, to) \/ (TimerExit(t, from) /\ to = "dead"), UNCHANGED <<cli, content>>,
         UNCHANGED marker \/ (FileDown' # "yes" /\ marker' \subseteq marker),
         FileDown' = "yes" => UNCHANGED file, from = "sleep" /\ to = "dead" => t \in due,
         Matches(t) \/ to = "dead",
         Matches(t) /\ to \in {"dead", "t_end"} => FileDown' # "yes", to # "t_saveDown"
  PROVE  WatchFacts'
<1>1. /\ timer[t].pc = from /\ timer'[t].pc = to
      /\ \A u \in Token \ {t} : timer'[u] = timer[u]
      /\ to # "dead" => timer'[t].snap = timer[t].snap /\ timer'[t].pid = timer[t].pid
      /\ due' = due
  BY DEF TimerStep, TimerExit, TypeOK, Timer, DeadTimer
<1>2. ASSUME NEW u \in Token, timer'[u].pc # "dead" PROVE Own(u)' = Own(u) /\ (Matches(u)' => Matches(u))
  BY <1>1, <1>2 DEF Own, Matches
<1>3. ASSUME NEW c \in Cli PROVE WatchCli(c)'
  <2>1. WatchCli(c)
    BY DEF WatchFacts
  <2>2. ASSUME cli[c].pc = "d_mark" PROVE Launched(c)'
    <3>1. Launched(c) /\ marker = {}
      BY <2>1, <2>2 DEF WatchCli, UnmarkedPc
    <3>2. to = "dead"
      BY <3>1 DEF Matches
    <3>3. cli[c].token \in Token
      BY <2>2 DEF LaunchFacts, LaunchHeld, HoldsLaunch
    <3> QED BY <1>1, <3>1, <3>2, <3>3 DEF Launched
  <2> QED BY <2>1, <2>2, SameBack, SameFile DEF WatchCli
<1>4. ASSUME NEW u \in Token PROVE WatchTimer(u)'
  <2>1. WatchTimer(u)
    BY DEF WatchFacts
  <2>2. CASE u = t
    BY <1>1, <1>2, <2>1, <2>2, SameBack DEF WatchTimer, Live
  <2>3. CASE u # t
    <3>1. timer'[u] = timer[u]
      BY <1>1, <2>3
    <3> QED BY <1>2, <2>1, <3>1, SameBack, SameFile DEF WatchTimer, Live
  <2> QED BY <2>2, <2>3
<1>5. WatchFile' /\ \A m \in marker' : LeadsBack(m.snap)'
  BY SameBack, SameFile DEF WatchFacts, WatchFile
<1>6. OpenWatched'
  <2> SUFFICES ASSUME FileDown' = "yes", \A c \in Cli : cli[c].pc \notin BusyPc PROVE Watched'
    BY DEF OpenWatched
  <2>1. FileDown = "yes" /\ UNCHANGED marker
    BY SameFile
  <2>2. Watched
    BY <2>1 DEF WatchFacts, OpenWatched
  <2>3. ASSUME NEW u \in Token, Armed(u), LeadsBack(timer[u].snap) PROVE Watched'
    <3>1. timer'[u].pc \notin {"dead", "t_end"} /\ timer'[u].snap = timer[u].snap
      BY <1>1, <2>3 DEF Armed
    <3>2. Armed(u)'
      BY <1>2, <2>1, <2>3, <3>1 DEF Armed, Matches
    <3> QED BY <2>3, <3>1, <3>2, SameBack DEF Watched
  <2>4. ASSUME NEW m \in marker, Abandoned(m), LeadsBack(m.snap) PROVE Watched'
    <3>1. m.token \in Token
      BY DEF TypeOK, Marker
    <3>2. Abandoned(m)'
      BY <1>1, <2>4, <3>1 DEF Abandoned, Verified, Live
    <3> QED BY <2>1, <2>4, <3>2, SameBack DEF Watched
  <2> QED BY <2>2, <2>3, <2>4 DEF Watched, BusyPc
<1> QED BY <1>3, <1>4, <1>5, <1>6 DEF WatchFacts

LEMMA WatchTimers ==
  ASSUME TypeOK, ArmIInv, LaunchFacts, WatchFacts, Unharmed', NEW t \in Token, TimerRuns(t)
  PROVE  WatchFacts'
<1> USE SameFile, MergedSnap, Calm, WatchTimerStep
<1> USE DEF TimerSaves, sandboxVars, timerVars
<1>0. /\ WatchTimer(t)
      /\ Working(t) => Matches(t)
      /\ Live(t) => timer[t].snap \in Kept
  BY DEF WatchFacts, WatchTimer, ArmIInv, WorkIsArmed, Armed, LeadsBack, Kept
<1>1. CASE TimerWake(t)
  <2>1. UNCHANGED <<file, content, marker, cli>> /\ t \in due
    BY <1>1 DEF TimerWake
  <2>2. CASE ~Matches(t) /\ TimerExit(t, "sleep")
    BY <2>1, <2>2
  <2>3. CASE Matches(t) /\ TimerStep(t, "sleep", "t_set")
    BY <2>1, <2>3
  <2>4. timer[t].snap \in Kept
    BY <1>0, <1>1 DEF TimerWake, TimerStep, TimerExit, Live
  <2> QED BY <1>1, <2>2, <2>3, <2>4 DEF TimerWake
<1>2. CASE TimerSet(t)
  <2>1. UNCHANGED <<file, content, marker, cli>> /\ timer[t].pc = "t_set"
    BY <1>2 DEF TimerSet, TimerStep
  <2>2. timer[t].snap \in Kept /\ Matches(t)
    BY <1>0, <2>1 DEF Live, Working
  <2>3. TimerStep(t, "t_set", "t_lock")
    BY <1>2, <2>2 DEF TimerSet
  <2> QED BY <2>1, <2>2, <2>3
<1>3. CASE TimerLock(t)
  <2>1. UNCHANGED <<file, content, marker, cli>> /\ TimerStep(t, "t_lock", "t_saveUp")
    BY <1>3 DEF TimerLock
  <2>2. Matches(t)
    BY <1>0, <2>1 DEF TimerStep, Working
  <2> QED BY <2>1, <2>2
<1>4. CASE TimerSave(t)
  <2>1. UNCHANGED <<content, marker, cli>>
    BY <1>4 DEF TimerSave
  <2>2. timer[t].pc # "t_saveDown"
    BY <1>0 DEF WatchTimer, Live
  <2>3. TimerStep(t, "t_saveUp", "t_end") /\ FileDown' = "no"
    BY <1>4, <2>2 DEF TimerSave, TimerStep
  <2>4. Matches(t)
    BY <1>0, <2>3 DEF TimerStep, Working
  <2> QED BY <2>1, <2>3, <2>4
<1>5. CASE TimerEnd(t)
  <2>1. UNCHANGED <<file, content, cli>> /\ TimerExit(t, "t_end") /\ marker' = marker \ {Own(t)}
    BY <1>5 DEF TimerEnd
  <2>2. Matches(t) => FileDown' # "yes"
    BY <1>0, <2>1 DEF WatchTimer, TimerExit
  <2>3. ~Matches(t) => UNCHANGED marker
    BY <2>1 DEF Matches
  <2> QED BY <2>1, <2>2, <2>3
<1> QED BY <1>1, <1>2, <1>3, <1>4, <1>5 DEF TimerRuns

(* Nothing changes but the clock and unrelated processes.                  *)
LEMMA WatchSame ==
  ASSUME WatchFacts, UNCHANGED <<file, content, marker, timer, cli>>, due \subseteq due'
  PROVE  WatchFacts'
<1>1. (\A c \in Cli : WatchCli(c)') /\ (\A t \in Token : WatchTimer(t)')
  BY SameBack, SameFile DEF WatchFacts, WatchCli, WatchTimer, Launched, Live, Matches, Own
<1>2. WatchFile' /\ \A m \in marker' : LeadsBack(m.snap)'
  BY SameBack, SameFile DEF WatchFacts, WatchFile
<1>3. Watched => Watched'
  BY SameBack DEF Watched, Armed, Matches, Own, Abandoned, Verified, Live
<1> QED BY <1>1, <1>2, <1>3, SameFile DEF WatchFacts, OpenWatched

LEMMA WatchNext ==
  ASSUME TypeOK, TypeOK', ArmIInv, LaunchFacts, OneAtATime, OneAtATime', LockIInv, WatchIInv,
         [Next]_vars
  PROVE  WatchIInv'
<1> SUFFICES ASSUME Unharmed' PROVE WatchFacts'
  BY DEF WatchIInv
<1>1. CASE UNCHANGED vars
  <2>1. WatchFacts
    BY <1>1 DEF WatchIInv, Unharmed, vars, budgets
  <2> QED BY <1>1, <2>1, WatchSame DEF vars, timerVars
<1>2. CASE Next
  <2>1. Unharmed /\ ~Crash /\ ~Fault
    BY <1>2, Calm, Budgeted
  <2>2. WatchFacts /\ LockFacts
    BY <2>1 DEF WatchIInv, LockIInv, Unharmed, Undisturbed
  <2>3. ASSUME NEW c \in Cli, Start(c) \/ Down(c) \/ Up(c) \/ Status(c) PROVE WatchFacts'
    BY <2>2, <2>3, WatchStart, WatchDown, WatchUp, WatchStatus
  <2>4. ASSUME NEW t \in Token, TimerRuns(t) PROVE WatchFacts'
    BY <2>2, <2>4, WatchTimers
  <2>5. CASE Environment
    <3>1. ASSUME NEW t \in Token, Expire(t) PROVE WatchFacts'
      BY <2>2, <3>1, WatchSame DEF Expire
    <3>2. ASSUME NEW p \in Pid, PidReuse(p) \/ PidRelease(p) PROVE WatchFacts'
      BY <2>2, <3>2, WatchSame DEF PidReuse, PidRelease
    <3> QED BY <2>1, <2>5, <3>1, <3>2 DEF Environment, TimerCrash, CliCrash, Reboot, LoseSnapshot
  <2> QED BY <1>2, <2>3, <2>4, <2>5 DEF Next
<1> QED BY <1>1, <1>2

LEMMA WatchInit == Init => WatchIInv
<1> SUFFICES ASSUME Init PROVE WatchFacts
  BY DEF WatchIInv
<1>1. FileDown = "undef" /\ marker = {} /\ \A c \in Cli : cli[c].pc = "idle"
  BY DEF Init, FileDown, Idle
<1>2. \A t \in Token : WatchTimer(t)
  BY DEF Init, WatchTimer, Live, DeadTimer
<1>3. \A c \in Cli : WatchCli(c)
  BY <1>1 DEF WatchCli, UnmarkedPc
<1> QED BY <1>1, <1>2, <1>3 DEF WatchFacts, WatchFile, OpenWatched

(***************************************************************************)
(* The shields implement Lockdown, as long as commands take turns.         *)
(***************************************************************************)
Allowed == L!Begin \/ L!Open \/ L!Opened \/ L!Failed \/ L!Close \/ L!Closed

(* What a step may cost, and that the promise still holds.                 *)
LEMMA HarmSteps ==
  ASSUME TypeOK, Undisturbed'
  PROVE  /\ Fault => Harm' = Harm + 1
         /\ Unrecorded => FALSE
         /\ NoFault \/ UNCHANGED budgets => Harm' = Harm
         /\ NoFault \/ Fault \/ UNCHANGED budgets => Undisturbed /\ Harm < 2
<1>1. faults \in Nat /\ crashes \in Nat
  BY BoundsAssumption DEF TypeOK
<1>2. Undisturbed => Harm = faults
  BY <1>1 DEF Undisturbed, Harm
<1>3. NoFault \/ Fault \/ UNCHANGED budgets => Harm' = faults'
  BY <1>1 DEF Undisturbed, Harm, NoFault, Fault, budgets
<1>4. NoFault \/ Fault \/ UNCHANGED budgets => Undisturbed
  BY <1>1 DEF Undisturbed, NoFault, Fault, budgets
<1>5. Undisturbed => faults < 2
  BY <1>1 DEF Undisturbed
<1>6. (Fault => faults' = faults + 1) /\ (NoFault \/ UNCHANGED budgets => faults' = faults)
  BY DEF Fault, NoFault, budgets
<1>7. Unrecorded => FALSE
  BY DEF Undisturbed, Unrecorded
<1> QED BY <1>2, <1>3, <1>4, <1>5, <1>6, <1>7

LEMMA PromiseKept == TypeOK /\ LockIInv /\ WatchIInv => L!Promise
<1> SUFFICES ASSUME TypeOK, LockIInv, WatchIInv, Harm < 2, AtWork = "rest"
             PROVE  /\ FileDown # "yes" => policy = "restrictive"
                    /\ FileDown = "no" => cfg = "locked"
                    /\ FileDown = "yes" /\ Harm = 0 => Watched
  BY DEF L!Promise
<1>1. LockFacts /\ (Harm = 0 => WatchFacts)
  BY BoundsAssumption DEF TypeOK, Harm, LockIInv, WatchIInv, Undisturbed, Unharmed
<1>2. \A c \in Cli : cli[c].pc \notin OpeningPc \cup ClosingPc
  BY DEF AtWork
<1>3. \A c \in Cli : cli[c].pc \notin PolicyPc \cup ConfigPc
  BY <1>2 DEF OpeningPc, ClosingPc, PolicyPc, ConfigPc
<1>4. FileDown = "yes" /\ Harm = 0 => Watched
  BY <1>1, <1>2 DEF WatchFacts, OpenWatched, BusyPc, Watched
<1>5. policy \in {"restrictive", "permissive"}
  BY DEF TypeOK
<1> QED BY <1>1, <1>3, <1>4, <1>5 DEF LockFacts, PolicyKept, ConfigKept

(* What is under way when only c is about a command.                       *)
Phase(pc) == IF pc \in OpeningPc THEN "opening" ELSE IF pc \in ClosingPc THEN "closing" ELSE "rest"
LEMMA PhaseOf ==
  ASSUME NEW c \in Cli, \A d \in Cli \ {c} : cli[d].pc = "idle"
  PROVE  /\ cli[c].pc \notin OpeningPc => AtWork # "opening"
         /\ (\A t \in Token : ~Working(t)) => AtWork = Phase(cli[c].pc)
         /\ cli[c].pc \in OpeningPc \cup ClosingPc => AtWork = Phase(cli[c].pc)
  BY DEF AtWork, Phase, OpeningPc, ClosingPc
LEMMA PhaseMoves ==
  ASSUME ArmIInv, NEW c \in Cli, NEW from, NEW to, Moves(c, from, to)
  PROVE  /\ from \notin OpeningPc => AtWork # "opening"
         /\ to \notin OpeningPc => AtWork' # "opening"
         /\ from \in OpeningPc \cup ClosingPc \/ from \notin ArmedPc => AtWork = Phase(from)
         /\ from \notin ArmedPc /\ (\A t \in Token : Working(t)' => Working(t)) => AtWork' = Phase(to)
         /\ to \in OpeningPc \cup ClosingPc => AtWork' = Phase(to)
<1>1. from \notin ArmedPc => \A t \in Token : ~Working(t)
  BY DEF ArmIInv, WorkIsArmed, ArmedPhases, NoneArmed, Moves
<1>2. (\A d \in Cli \ {c} : cli[d].pc = "idle") /\ cli[c].pc = from
  BY DEF Moves
<1>3. (\A d \in Cli \ {c} : cli'[d].pc = "idle") /\ cli'[c].pc = to
  BY DEF Moves
<1>4. /\ to \notin OpeningPc => AtWork' # "opening"
      /\ (\A t \in Token : ~Working(t)') => AtWork' = Phase(to)
      /\ to \in OpeningPc \cup ClosingPc => AtWork' = Phase(to)
  BY <1>3 DEF AtWork, Phase, OpeningPc, ClosingPc
<1> QED BY <1>1, <1>2, <1>4, PhaseOf

(* Steps that move neither the record, the policy nor the config.          *)
LEMMA QuietAllowed ==
  ASSUME UNCHANGED <<FileDown, policy, cfg>>, Harm' \in {Harm, Harm + 1},
         AtWork' = AtWork \/ (AtWork # "opening" /\ AtWork' # "opening")
  PROVE  Allowed
<1>1. AtWork \in {"rest", "opening", "closing"}
  BY DEF AtWork
<1>2. CASE AtWork = "rest"
  BY <1>2 DEF Allowed, L!Begin
<1>3. CASE AtWork = "opening"
  BY <1>3 DEF Allowed, L!Open
<1>4. CASE AtWork = "closing"
  BY <1>4 DEF Allowed, L!Close
<1> QED BY <1>1, <1>2, <1>3, <1>4

LEMMA QuietCommand ==
  ASSUME ArmIInv, NEW c \in Cli, NEW from, NEW to, Moves(c, from, to), UNCHANGED <<FileDown, policy, cfg>>,
         Harm' \in {Harm, Harm + 1}, from \notin OpeningPc, to \notin OpeningPc
  PROVE  Allowed
  BY QuietAllowed, PhaseMoves

(* A command on its way back to lockdown, and one that records it.         *)
LEMMA CloseCommand ==
  ASSUME ArmIInv, NEW c \in Cli, NEW from \in ClosingPc, NEW to, Moves(c, from, to),
         Harm' \in {Harm, Harm + 1}, to \notin OpeningPc,
         policy' \in {policy, "restrictive"}, cfg = "locked" => cfg' = "locked",
         FileDown' = FileDown \/ (FileDown' = "undef" /\ to \in ClosingPc)
  PROVE  Allowed
<1>1. AtWork = "closing" /\ AtWork' # "opening" /\ (to \in ClosingPc => AtWork' = "closing")
  BY PhaseMoves DEF Phase, OpeningPc, ClosingPc
<1> QED BY <1>1 DEF Allowed, L!Close
LEMMA ClosedCommand ==
  ASSUME ArmIInv, NEW c \in Cli, NEW from \in ClosingPc, NEW to, Moves(c, from, to),
         to \notin OpeningPc, policy = "restrictive", cfg = "locked",
         UNCHANGED <<policy, cfg, Harm>>, FileDown' = "no"
  PROVE  Allowed
<1>1. AtWork = "closing" /\ AtWork' # "opening"
  BY PhaseMoves DEF Phase, OpeningPc, ClosingPc
<1> QED BY <1>1 DEF Allowed, L!Closed, L!Shut

(* A failing save ends the command, or leaves a rebuild to try again.      *)
LEMMA TornCommand ==
  ASSUME ArmIInv, NEW c \in Cli, NEW from \in ClosingPc, NEW to, Moves(c, from, to),
         Harm' = Harm + 1, to \notin OpeningPc, UNCHANGED <<policy, cfg>>, Torn(TRUE)
  PROVE  Allowed
<1>1. AtWork = "closing" /\ AtWork' # "opening"
  BY PhaseMoves DEF Phase, OpeningPc, ClosingPc
<1>2. FileDown' \in {FileDown, "undef"}
  BY DEF Torn, FileDown
<1> QED BY <1>1, <1>2 DEF Allowed, L!Close

LEMMA AllowStart ==
  ASSUME TypeOK, ArmIInv, OneAtATime, OneAtATime', Undisturbed', NEW c \in Cli, Start(c)
  PROVE  Allowed
<1> USE DEF Pcs, DownPc, UpPc, StatusPc, sandboxVars, timerVars
<1>1. UNCHANGED <<file, policy, cfg, budgets>>
  BY DEF Start, StartDown, StartUp, StartStatus, StartRebuild
<1>2. PICK to \in {"d_load", "u_load", "s_marker"} : Moves(c, "idle", to)
  BY StartMoves
<1> QED BY <1>1, <1>2, QuietCommand, SameFile, HarmSteps DEF OpeningPc

LEMMA AllowDown ==
  ASSUME TypeOK, ArmIInv, OneAtATime, OneAtATime', LockFacts, Undisturbed', NEW c \in Cli, Down(c)
  PROVE  Allowed
<1> USE SameFile, MergedSnap, HarmSteps, StepMoves, FinishMoves, QuietCommand
<1> USE DEF Pcs, DownPc, UpPc, StatusPc, sandboxVars, timerVars, OpeningPc, ClosingPc
<1>0. CliOK(c)
  BY DEF LockFacts
<1>1. CASE DownLoad(c)
  <2>1. UNCHANGED <<file, policy, cfg, budgets>>
    BY <1>1 DEF DownLoad
  <2>2. PICK to \in {"idle", "d_kill"} : Moves(c, "d_load", to)
    BY <1>1 DEF DownLoad
  <2> QED BY <2>1, <2>2
<1>2. CASE DownKill(c)
  <2>1. UNCHANGED <<policy, cfg, budgets>> /\ Moves(c, "d_kill", "d_clear")
    BY <1>2 DEF DownKill
  <2>2. FileDown # "yes"
    BY <1>0, <2>1 DEF CliOK, Trusting, Moves
  <2>3. \A t \in Token : ~Working(t)
    BY <2>2 DEF ArmIInv, WorkIsArmed, LockFacts, TimerOK
  <2>4. UNCHANGED file
    BY <1>2, <2>3 DEF DownKill, Signal, Torn, Working
  <2> QED BY <2>1, <2>4
<1>3. CASE DownClear(c)
  <2>1. UNCHANGED <<file, policy, cfg, budgets>> /\ Moves(c, "d_clear", "d_capture")
    BY <1>3 DEF DownClear
  <2> QED BY <2>1
<1>4. CASE DownCapture(c)
  <2>1. UNCHANGED <<file, policy, cfg, timer>>
    BY <1>4 DEF DownCapture
  <2>2. CASE Finish(c, "d_capture") /\ Fault
    <3>1. Moves(c, "d_capture", "idle")
      BY <2>2
    <3> QED BY <2>1, <2>2, <3>1
  <2>3. ASSUME NoFault, NEW s \in Snap, cli[c].pc = "d_capture",
               cli' = [cli EXCEPT ![c] = [@ EXCEPT !.pc = "d_apply", !.snap = s]]
        PROVE  Allowed
    <3> DEFINE r == [cli[c] EXCEPT !.pc = "d_apply", !.snap = s]
    <3>1. r \in Proc
      BY ProcType, RecordSnap
    <3>2. r.pc = "d_apply" /\ cli' = [cli EXCEPT ![c] = r]
      BY <2>3, ProcType DEF Proc
    <3> HIDE DEF r
    <3>3. Moves(c, "d_capture", "d_apply")
      BY <2>3, <3>1, <3>2, MovesStep
    <3>4. AtWork = "rest" /\ FileDown # "yes"
      BY <1>0, <3>3, PhaseMoves DEF CliOK, Trusting, Moves, Phase, ArmedPc
    <3> QED BY <2>1, <2>3, <3>4 DEF Allowed, L!Begin
  <2> QED BY <1>4, <2>2, <2>3 DEF DownCapture
<1>5. CASE DownApply(c) \/ DownUnlock(c)
  <2>1. UNCHANGED <<file, timer>>
    BY <1>5 DEF DownApply, DownUnlock
  <2>2. PICK from \in {"d_apply", "d_unlock"}, to \in {"d_unlock", "d_save", "idle", "rb_set"} :
          /\ Moves(c, from, to)
          /\ IF to \in OpeningPc THEN NoFault ELSE Fault
    BY <1>5 DEF DownApply, DownUnlock
  <2>3. AtWork = "opening" /\ AtWork' = Phase(to)
    BY <2>1, <2>2, PhaseMoves DEF Phase, ArmedPc, Working
  <2> QED BY <2>1, <2>2, <2>3 DEF Phase, Allowed, L!Open, L!Failed
<1>6. CASE DownSave(c)
  <2>1. UNCHANGED <<policy, cfg, timer>> /\ NoFault /\ FileDown' = "yes"
    BY <1>6 DEF DownSave
  <2>2. PICK to \in {"d_fork", "w_open"} : Step(c, "d_save", to)
    BY <1>6 DEF DownSave
  <2>3. Moves(c, "d_save", to)
    BY <2>2
  <2>4. AtWork = "opening" /\ AtWork' = "rest"
    BY <2>1, <2>3, PhaseMoves DEF Phase, ArmedPc, Working
  <2> QED BY <2>1, <2>4 DEF Allowed, L!Opened
<1>7. CASE DownFork(c)
  <2>1. UNCHANGED <<file, policy, cfg>>
    BY <1>7 DEF DownFork
  <2>2. CASE Step(c, "d_fork", "rb_set") /\ Fault
    <3>1. Moves(c, "d_fork", "rb_set")
      BY <2>2
    <3> QED BY <2>1, <2>2, <3>1
  <2>3. ASSUME NEW t \in Token, NEW p \in Pid, cli[c].pc = "d_fork", NoFault,
               cli' = [cli EXCEPT ![c] = [@ EXCEPT !.pc = "d_mark", !.token = t, !.pid = p]]
        PROVE  Allowed
    <3> DEFINE r == [cli[c] EXCEPT !.pc = "d_mark", !.token = t, !.pid = p]
    <3>1. r \in Proc
      BY ProcType, RecordLaunch
    <3>2. r.pc = "d_mark" /\ cli' = [cli EXCEPT ![c] = r]
      BY <2>3, ProcType DEF Proc
    <3> HIDE DEF r
    <3>3. Moves(c, "d_fork", "d_mark")
      BY <2>3, <3>1, <3>2, MovesStep
    <3> QED BY <2>1, <2>3, <3>3
  <2> QED BY <1>7, <2>2, <2>3 DEF DownFork
<1>8. CASE DownMark(c)
  <2>1. UNCHANGED <<file, policy, cfg>>
    BY <1>8 DEF DownMark
  <2>2. PICK to \in {"idle", "rb_set"} : Moves(c, "d_mark", to) /\ (NoFault \/ Fault)
    BY <1>8 DEF DownMark
  <2> QED BY <2>1, <2>2
<1>9. CASE RollbackSet(c)
  <2>1. UNCHANGED <<file, cfg, content>> /\ cli[c].pc = "rb_set" /\ (NoFault \/ Fault)
    BY <1>9 DEF RollbackSet, Step, Finish
  <2>2. policy' \in {policy, "restrictive"}
    BY <1>0, <1>9, <2>1 DEF RollbackSet, Restore, CliOK, Good, Kept, TypeOK
  <2>3. PICK to \in {"rb_lock", "idle"} : Moves(c, "rb_set", to)
    BY <1>9 DEF RollbackSet
  <2> QED BY <2>1, <2>2, <2>3, CloseCommand
<1>10. CASE RollbackLock(c)
  <2>1. UNCHANGED <<file, policy>> /\ (NoFault \/ Fault) /\ (cfg = "locked" => cfg' = "locked")
    BY <1>10 DEF RollbackLock, Locked, LockFailed
  <2>2. PICK to \in {"rb_save", "idle"} : Moves(c, "rb_lock", to)
    BY <1>10 DEF RollbackLock
  <2> QED BY <2>1, <2>2, CloseCommand
<1>11. CASE RollbackSave(c)
  <2>1. UNCHANGED <<policy, cfg>> /\ Moves(c, "rb_save", "idle")
    BY <1>11 DEF RollbackSave
  <2>2. policy = "restrictive" /\ cfg = "locked"
    BY <1>0, <2>1 DEF CliOK, ShutPc, Moves
  <2>3. CASE Fault /\ Torn(TRUE)
    BY <2>1, <2>3, TornCommand
  <2>4. CASE NoFault /\ FileDown' = "no"
    BY <2>1, <2>2, <2>4, ClosedCommand
  <2> QED BY <1>11, <2>3, <2>4 DEF RollbackSave
<1> QED BY <1>1, <1>2, <1>3, <1>4, <1>5, <1>6, <1>7, <1>8, <1>9, <1>10, <1>11 DEF Down

LEMMA TornUp ==
  ASSUME TypeOK, ArmIInv, OneAtATime, OneAtATime', Undisturbed', NEW c \in Cli,
         NEW from \in {"u_resave", "u_save", "u_chattr"},
         UpGivesUp(c, from), Fault, Torn(TRUE), UNCHANGED <<policy, cfg>>
  PROVE  Allowed
<1>1. PICK to \in {"idle", "w_open"} : Moves(c, from, to)
  BY GivesUpMoves
<1>2. from \in ClosingPc /\ to \notin OpeningPc
  BY DEF ClosingPc, OpeningPc
<1>3. Harm' = Harm + 1
  BY HarmSteps
<1> QED BY <1>1, <1>2, <1>3, TornCommand

LEMMA AllowUp ==
  ASSUME TypeOK, ArmIInv, OneAtATime, OneAtATime', LockFacts, Undisturbed', NEW c \in Cli, Up(c)
  PROVE  Allowed
<1> USE SameFile, MergedSnap, HarmSteps, StepMoves, FinishMoves, CloseCommand
<1> USE DEF Pcs, DownPc, UpPc, StatusPc, sandboxVars, timerVars, OpeningPc, ClosingPc
<1>0. CliOK(c) /\ PolicyKept
  BY DEF LockFacts
<1>1. CASE UpLoad(c)
  <2>1. UNCHANGED <<file, policy, cfg, budgets>>
    BY <1>1 DEF UpLoad
  <2>2. PICK p \in {"u_verify", "u_kill"}, d \in {"undef", "yes", "no"},
             s \in Snap \cup {NoSnap} :
          /\ cli' = [cli EXCEPT ![c] = [@ EXCEPT !.pc = p, !.down = d, !.snap = s]]
          /\ d = FileDown /\ (p = "u_verify" <=> d = "no")
          /\ d = "yes" => s = file.snap
    BY <1>1, LoadPicks
  <2> DEFINE r == [cli[c] EXCEPT !.pc = p, !.down = d, !.snap = s]
  <2>3. r \in Proc
    BY ProcType, RecordLoad
  <2>4. r.pc = p /\ cli' = [cli EXCEPT ![c] = r]
    BY <2>2, ProcType DEF Proc
  <2> HIDE DEF r
  <2>5. Moves(c, "u_load", p)
    BY <1>1, <2>3, <2>4, MovesStep DEF UpLoad
  <2> QED BY <2>1, <2>5
<1>2. CASE UpVerify(c)
  <2>1. UNCHANGED <<file, policy, cfg>> /\ (NoFault \/ Fault)
    BY <1>2 DEF UpVerify
  <2>2. PICK to \in {"u_clear", "u_relock"} : Moves(c, "u_verify", to)
    BY <1>2 DEF UpVerify
  <2> QED BY <2>1, <2>2
<1>3. CASE UpRelock(c) \/ UpLock(c) \/ UpFirstLock(c)
  <2>1. UNCHANGED <<file, policy>> /\ (NoFault \/ Fault) /\ (cfg = "locked" => cfg' = "locked")
    BY <1>3 DEF UpRelock, UpLock, UpFirstLock, Locked, LockFailed
  <2>2. PICK from \in {"u_relock", "u_lock", "u_firstlock"},
             to \in {"u_resave", "u_save", "u_chattr", "idle", "w_open"} : Moves(c, from, to)
    BY <1>3, GivesUpMoves DEF UpRelock, UpLock, UpFirstLock
  <2> QED BY <2>1, <2>2
<1>4. CASE UpResave(c) \/ UpSave(c)
  <2>1. UNCHANGED <<policy, cfg>>
    BY <1>4 DEF UpResave, UpSave
  <2>2. PICK from \in {"u_resave", "u_save"}, to \in {"u_clear", "idle", "w_open"} : Moves(c, from, to)
    BY <1>4, GivesUpMoves DEF UpResave, UpSave
  <2>3. cfg = "locked"
    BY <1>0, <2>2 DEF CliOK, Moves
  <2>4. policy = "restrictive"
    BY <1>0, <2>2, KeptAlone DEF CliOK, ShutPc, PolicyPc, Moves, TypeOK
  <2>5. UpGivesUp(c, "u_resave") /\ Fault /\ Torn(TRUE) => Allowed
    BY <2>1, TornUp
  <2>7. UpGivesUp(c, "u_save") /\ Fault /\ Torn(TRUE) => Allowed
    BY <2>1, TornUp
  <2>6. CASE NoFault /\ FileDown' = "no"
    BY <2>1, <2>2, <2>3, <2>4, <2>6, ClosedCommand
  <2> QED BY <1>4, <2>5, <2>6, <2>7 DEF UpResave, UpSave
<1>5. CASE UpKill(c)
  <2>1. UNCHANGED <<policy, cfg, budgets>> /\ Moves(c, "u_kill", "u_killclear")
    BY <1>5 DEF UpKill
  <2>2. FileDown' \in {FileDown, "undef"}
    BY <1>5 DEF UpKill, Signal, Torn, FileDown
  <2> QED BY <2>1, <2>2
<1>6. CASE UpKillClear(c)
  <2>1. UNCHANGED <<file, policy, cfg, budgets>>
    BY <1>6 DEF UpKillClear
  <2>2. PICK to \in {"u_restore", "u_firstlock"} : Step(c, "u_killclear", to)
    BY <1>6 DEF UpKillClear
  <2>3. Moves(c, "u_killclear", to)
    BY <2>2
  <2> QED BY <2>1, <2>3
<1>7. CASE UpRestore(c)
  <2>1. UNCHANGED <<file, cfg>> /\ cli[c].pc = "u_restore" /\ (NoFault \/ Fault)
    BY <1>7 DEF UpRestore, Step, Finish, UpGivesUp
  <2>2. policy' \in {policy, "restrictive"}
    BY <1>0, <1>7, <2>1, NamesAssumption DEF UpRestore, Restore, CliOK, Good, Kept, TypeOK
  <2>3. PICK to \in {"u_lock", "idle", "w_open"} : Moves(c, "u_restore", to)
    BY <1>7, GivesUpMoves DEF UpRestore
  <2> QED BY <2>1, <2>2, <2>3
<1>8. CASE UpChattr(c)
  <2>1. UNCHANGED <<policy, cfg>>
    BY <1>8 DEF UpChattr
  <2>2. PICK to \in {"u_save", "idle", "w_open"} : Moves(c, "u_chattr", to)
    BY <1>8, GivesUpMoves DEF UpChattr
  <2>3. CASE UpGivesUp(c, "u_chattr") /\ Fault /\ Torn(TRUE)
    BY <2>1, <2>3, TornUp
  <2>4. CASE NoFault /\ FileDown' = FileDown
    BY <2>1, <2>2, <2>4
  <2> QED BY <1>8, <2>3, <2>4 DEF UpChattr
<1>9. CASE UpClear(c)
  <2>1. UNCHANGED <<file, policy, cfg, budgets>> /\ Moves(c, "u_clear", "idle")
    BY <1>9 DEF UpClear
  <2> QED BY <2>1, QuietCommand
<1>10. CASE CloseWindow(c)
  <2>1. UNCHANGED <<file, policy, cfg, budgets>> /\ Moves(c, "w_open", "u_load")
    BY <1>10 DEF CloseWindow
  <2> QED BY <2>1, QuietCommand
<1> QED BY <1>1, <1>2, <1>3, <1>4, <1>5, <1>6, <1>7, <1>8, <1>9, <1>10 DEF Up

LEMMA AllowStatus ==
  ASSUME TypeOK, ArmIInv, OneAtATime, OneAtATime', LockFacts, Undisturbed', NEW c \in Cli, Status(c)
  PROVE  Allowed
<1> USE SameFile, MergedSnap, HarmSteps, StepMoves, FinishMoves, CloseCommand, QuietCommand
<1> USE DEF Pcs, DownPc, UpPc, StatusPc, sandboxVars, timerVars, OpeningPc, ClosingPc
<1>0. CliOK(c)
  BY DEF LockFacts
<1>1. CASE StatusMarker(c)
  <2>1. UNCHANGED <<file, policy, cfg, budgets>>
    BY <1>1 DEF StatusMarker
  <2>2. CASE Finish(c, "s_marker")
    <3>1. Moves(c, "s_marker", "idle")
      BY <2>2
    <3> QED BY <2>1, <3>1
  <2>3. ASSUME NEW m \in marker, cli[c].pc = "s_marker",
               cli' = [cli EXCEPT ![c] = [@ EXCEPT !.pc = "s_restore", !.snap = m.snap]]
        PROVE  Allowed
    <3> DEFINE r == [cli[c] EXCEPT !.pc = "s_restore", !.snap = m.snap]
    <3>1. r \in Proc
      BY ProcType, RecordSnap DEF TypeOK, Marker
    <3>2. r.pc = "s_restore" /\ cli' = [cli EXCEPT ![c] = r]
      BY <2>3, ProcType DEF Proc
    <3> HIDE DEF r
    <3>3. Moves(c, "s_marker", "s_restore")
      BY <2>3, <3>1, <3>2, MovesStep
    <3> QED BY <2>1, <3>3
  <2> QED BY <1>1, <2>2, <2>3 DEF StatusMarker
<1>2. CASE StatusRestore(c)
  <2>1. UNCHANGED <<file, cfg>> /\ cli[c].pc = "s_restore" /\ (NoFault \/ Fault)
    BY <1>2 DEF StatusRestore, Step, Finish
  <2>2. policy' \in {policy, "restrictive"}
    BY <1>0, <1>2, <2>1 DEF StatusRestore, Restore, CliOK, Good, Kept, TypeOK
  <2>3. PICK to \in {"s_lock", "idle"} : Moves(c, "s_restore", to)
    BY <1>2 DEF StatusRestore
  <2> QED BY <2>1, <2>2, <2>3
<1>3. CASE StatusLock(c)
  <2>1. UNCHANGED <<file, policy>> /\ (NoFault \/ Fault) /\ (cfg = "locked" => cfg' = "locked")
    BY <1>3 DEF StatusLock, Locked, LockFailed
  <2>2. PICK to \in {"s_save", "idle"} : Moves(c, "s_lock", to)
    BY <1>3 DEF StatusLock
  <2> QED BY <2>1, <2>2
<1>4. CASE StatusSave(c)
  <2>1. UNCHANGED <<policy, cfg>>
    BY <1>4 DEF StatusSave
  <2>2. PICK to \in {"s_clear", "idle"} : Moves(c, "s_save", to)
    BY <1>4 DEF StatusSave
  <2>3. policy = "restrictive" /\ cfg = "locked"
    BY <1>0, <2>2 DEF CliOK, ShutPc, Moves
  <2>4. CASE Fault /\ Torn(TRUE)
    BY <2>1, <2>2, <2>4, TornCommand
  <2>5. CASE NoFault /\ FileDown' = "no"
    BY <2>1, <2>2, <2>3, <2>5, ClosedCommand
  <2> QED BY <1>4, <2>4, <2>5 DEF StatusSave
<1>5. CASE StatusClear(c)
  <2>1. UNCHANGED <<file, policy, cfg, budgets>> /\ Moves(c, "s_clear", "idle")
    BY <1>5 DEF StatusClear
  <2> QED BY <2>1
<1> QED BY <1>1, <1>2, <1>3, <1>4, <1>5 DEF Status

(* A timer at work leaves the sandbox to no command, and only closes it.   *)
LEMMA TimerPhase ==
  ASSUME ArmIInv, NEW t \in Token, Working(t), UNCHANGED cli
  PROVE  AtWork = "closing" /\ AtWork' # "opening"
<1>1. \A c \in Cli : cli[c].pc \in ArmedPc
  BY DEF ArmIInv, WorkIsArmed, ArmedPhases, NoneArmed
<1> QED BY <1>1 DEF AtWork, ArmedPc, OpeningPc

LEMMA QuietTimer ==
  ASSUME UNCHANGED <<file, policy, cfg, cli>>, Harm' \in {Harm, Harm + 1}
  PROVE  Allowed
<1>1. AtWork' = AtWork \/ (AtWork # "opening" /\ AtWork' # "opening")
  BY DEF AtWork
<1> QED BY <1>1, QuietAllowed, SameFile

LEMMA AllowTimers ==
  ASSUME TypeOK, ArmIInv, LockFacts, Undisturbed', NEW t \in Token, TimerRuns(t)
  PROVE  Allowed
<1> USE SameFile, MergedSnap, HarmSteps
<1> USE DEF sandboxVars, timerVars, TimerSaves
<1>0. TimerOK(t)
  BY DEF LockFacts
<1>1. CASE TimerWake(t) \/ TimerEnd(t)
  <2>1. UNCHANGED <<file, policy, cfg, cli, budgets>>
    BY <1>1 DEF TimerWake, TimerEnd
  <2> QED BY <2>1, QuietTimer
<1>2. CASE TimerSet(t)
  <2>1. UNCHANGED <<file, cfg, cli>> /\ timer[t].pc = "t_set" /\ (NoFault \/ Fault)
    BY <1>2 DEF TimerSet, TimerStep
  <2>2. policy' \in {policy, "restrictive"}
    BY <1>0, <1>2, <2>1 DEF TimerSet, Restore, TimerOK, Live, Good, Kept, TypeOK
  <2>3. AtWork = "closing" /\ AtWork' # "opening"
    BY <2>1, TimerPhase DEF Working
  <2> QED BY <2>1, <2>2, <2>3 DEF Allowed, L!Close
<1>3. CASE TimerLock(t)
  <2>1. UNCHANGED <<file, policy, cli>> /\ timer[t].pc = "t_lock" /\ (NoFault \/ Fault)
    BY <1>3 DEF TimerLock, TimerStep
  <2>2. cfg = "locked" => cfg' = "locked"
    BY <1>3 DEF TimerLock, Locked, LockFailed
  <2>3. AtWork = "closing" /\ AtWork' # "opening"
    BY <2>1, TimerPhase DEF Working
  <2> QED BY <2>1, <2>2, <2>3 DEF Allowed, L!Close
<1>4. CASE TimerSave(t)
  <2>1. UNCHANGED <<policy, cfg, cli>> /\ timer[t].pc \in {"t_saveUp", "t_saveDown"}
    BY <1>4 DEF TimerSave, TimerStep
  <2>2. AtWork = "closing" /\ AtWork' # "opening"
    BY <2>1, TimerPhase DEF Working
  <2>3. policy = "restrictive" /\ FileDown = "yes" /\ (timer[t].pc = "t_saveUp" => cfg = "locked")
    BY <1>0, <2>1 DEF TimerOK, ArmIInv, WorkIsArmed, Working
  <2>4. \/ NoFault /\ FileDown' = "no" /\ timer[t].pc = "t_saveUp"
        \/ NoFault /\ FileDown' = "yes"
        \/ Fault /\ FileDown' \in {FileDown, "undef"}
    BY <1>4 DEF TimerSave, TimerStep, Torn, FileDown
  <2> QED BY <2>1, <2>2, <2>3, <2>4 DEF Allowed, L!Close, L!Closed, L!Shut
<1> QED BY <1>1, <1>2, <1>3, <1>4 DEF TimerRuns

LEMMA LockdownNext ==
  ASSUME TypeOK, TypeOK', ArmIInv, LockIInv, LockIInv', WatchIInv', OneAtATime, OneAtATime', [Next]_vars
  PROVE  [L!Next]_(L!lockdownVars)
<1>1. CASE UNCHANGED vars
  <2>1. UNCHANGED <<FileDown, policy, cfg, Watched, AtWork, Harm>>
    BY <1>1 DEF vars, sandboxVars, timerVars, budgets, FileDown, Watched, AtWork, Harm, Armed, Matches, Own,
       LeadsBack, Abandoned, Verified, Live, Working
  <2> QED BY <2>1 DEF L!lockdownVars
<1>2. CASE Next /\ Harm' = 2
  BY <1>2 DEF L!Next, L!Lose
<1>3. CASE Next /\ Harm' # 2
  <2>1. Undisturbed'
    BY <1>3, BoundsAssumption DEF TypeOK, Undisturbed, Harm
  <2>2. Undisturbed /\ Harm < 2 /\ ~Crash
    BY <1>3, <2>1, HarmSteps, Budget, Budgeted
  <2>3. LockFacts
    BY <2>2 DEF LockIInv
  <2>4. ASSUME NEW c \in Cli, Start(c) \/ Down(c) \/ Up(c) \/ Status(c) PROVE Allowed
    BY <2>1, <2>3, <2>4, AllowStart, AllowDown, AllowUp, AllowStatus
  <2>5. ASSUME NEW t \in Token, TimerRuns(t) PROVE Allowed
    BY <2>1, <2>3, <2>5, AllowTimers
  <2>6. ASSUME Environment PROVE Allowed
    <3>1. ASSUME NEW t \in Token, Expire(t) PROVE Allowed
      BY <2>1, <3>1, HarmSteps, QuietTimer DEF Expire, sandboxVars
    <3>2. ASSUME NEW p \in Pid, PidReuse(p) \/ PidRelease(p) PROVE Allowed
      BY <2>1, <3>2, HarmSteps, QuietTimer DEF PidReuse, PidRelease, sandboxVars
    <3>3. ASSUME NEW s \in Snap, LoseSnapshot(s) PROVE Allowed
      BY <2>1, <3>3, HarmSteps, QuietTimer DEF LoseSnapshot, sandboxVars
    <3> QED BY <2>2, <2>6, <3>1, <3>2, <3>3 DEF Environment, TimerCrash, CliCrash, Reboot
  <2>7. Allowed
    BY <1>3, <2>4, <2>5, <2>6 DEF Next
  <2>8. L!Promise'
    BY PromiseKept, PTL
  <2> QED BY <2>2, <2>7, <2>8 DEF L!Next, Allowed
<1> QED BY <1>1, <1>2, <1>3

LEMMA LockdownInit == Init => L!Init
<1> SUFFICES ASSUME Init PROVE L!Init
  OBVIOUS
<1>1. FileDown = "undef" /\ marker = {} /\ Harm = 0
  BY DEF Init, FileDown, Harm
<1>2. (\A c \in Cli : cli[c].pc = "idle") /\ \A t \in Token : timer[t].pc = "dead"
  BY DEF Init, Idle, DeadTimer
<1>3. AtWork = "rest"
  BY <1>2 DEF AtWork, OpeningPc, ClosingPc, Working, TimerSaves
<1>4. Watched = FALSE
  BY <1>1, <1>2 DEF Watched, Armed
<1> QED BY <1>1, <1>3, <1>4 DEF Init, L!Init

(* Commands that take turns keep all four invariants.                      *)
LEMMA TurnsInvariant ==
  Spec /\ []OneAtATime => [](TimerIInv /\ ArmIInv /\ LockIInv /\ WatchIInv)
<1> DEFINE IInv == TimerIInv /\ ArmIInv /\ LockIInv /\ WatchIInv
<1>1. Init => ArmIInv /\ LockIInv /\ WatchIInv
  BY ArmInit, LockInit, WatchInit
<1>2. TimerIInv => TypeOK /\ LaunchFacts
  BY DEF TimerIInv, LaunchFacts
<1>3. TimerIInv' => TypeOK'
  BY DEF TimerIInv
<1>4. /\ TimerIInv /\ TimerIInv' /\ ArmIInv /\ LockIInv /\ WatchIInv
      /\ OneAtATime /\ OneAtATime' /\ [Next]_vars
      => ArmIInv' /\ LockIInv' /\ WatchIInv'
  BY <1>2, <1>3, ArmNext, LockNext, WatchNext
<1> QED BY <1>1, <1>4, InductiveInvariant, PTL DEF Spec

(* The whole of src/lib/shields promises what Lockdown says: with commands *)
(* that do not overlap, whatever the timers do and whichever call fails,   *)
(* every step opens, closes or leaves alone as Lockdown allows, and at     *)
(* rest the record is true and an open sandbox has somebody to close it.   *)
(* What it does not promise is said by Harm: nothing after a kill, after a *)
(* second failing call, or after an opening that ended without its record. *)
THEOREM LockdownImplemented == Spec /\ []OneAtATime => ImplementsLockdown
<1>1. TimerIInv => TypeOK
  BY DEF TimerIInv
<1>2. TimerIInv' => TypeOK'
  BY DEF TimerIInv
<1>3. /\ TimerIInv /\ TimerIInv' /\ ArmIInv /\ LockIInv /\ LockIInv' /\ WatchIInv'
      /\ OneAtATime /\ OneAtATime' /\ [Next]_vars
      => [L!Next]_(L!lockdownVars)
  BY <1>1, <1>2, LockdownNext
<1> QED BY <1>3, LockdownInit, TurnsInvariant, PTL DEF Spec, ImplementsLockdown, L!Spec

(* When there is one process to run them, commands take turns by           *)
(* themselves: shields/index.ts then keeps the promise without a proviso.  *)
THEOREM LockdownAlone ==
  ASSUME \A c, d \in Cli : c = d
  PROVE  Spec => ImplementsLockdown
<1>1. OneAtATime
  BY DEF OneAtATime
<1> QED BY <1>1, LockdownImplemented, PTL

(* The timer, its marker and the rebuild window: on the same terms, and    *)
(* with no failing call, an open sandbox that nobody is about is watched:  *)
(* a live timer has its marker, or a later `shields status' finds one, and *)
(* the snapshot it goes back to is there and restrictive.                  *)
THEOREM OpenIsWatched ==
  Spec /\ []OneAtATime =>
    [](Harm = 0 /\ Quiescent /\ FileDown = "yes" => Watched /\ LeadsBack(file.snap))
<1>1. TimerIInv /\ WatchIInv => (Harm = 0 /\ Quiescent /\ FileDown = "yes" => Watched /\ LeadsBack(file.snap))
  <2> SUFFICES ASSUME TypeOK, WatchIInv, Harm = 0, Quiescent, FileDown = "yes"
               PROVE  Watched /\ LeadsBack(file.snap)
    BY DEF TimerIInv
  <2>1. WatchFacts
    BY BoundsAssumption DEF TypeOK, Harm, WatchIInv, Unharmed
  <2> QED BY <2>1 DEF WatchFacts, WatchFile, OpenWatched, Quiescent, BusyPc, OpeningPc, ClosingPc
<1> QED BY <1>1, TurnsInvariant, PTL

(* runRestoreTimer acts only while its marker is there: with commands that *)
(* do not overlap, `shields up', a new `shields down' and the recovery of  *)
(* an abandoned window stop or outlast every timer before its marker goes. *)
THEOREM AuthorityKept == Spec /\ []OneAtATime => TimerAuthority
<1> DEFINE Acts == \A t \in Token :
             /\ timer'[t] # timer[t] /\ Live(t) /\ timer'[t].pc # "dead"
             /\ <<policy, cfg, file>>' # <<policy, cfg, file>>
             => Matches(t)
<1>1. TimerIInv /\ ArmIInv /\ [Next]_vars => [Acts]_vars
  <2> SUFFICES ASSUME TypeOK, ArmIInv, Next PROVE Acts
    BY DEF TimerIInv
  <2> USE DEF sandboxVars, timerVars
  <2>0. UNCHANGED timer => Acts
    OBVIOUS
  <2>1. CASE \E c \in Cli : Start(c)
    BY <2>0, <2>1 DEF Start, StartDown, StartRebuild, StartUp, StartStatus
  <2>2. ASSUME NEW c \in Cli, Down(c) PROVE Acts
    <3>1. CASE DownKill(c)
      BY <3>1 DEF DownKill, Signal, DeadTimer
    <3>2. CASE DownFork(c)
      BY <3>2 DEF DownFork
    <3> QED BY <2>0, <2>2, <3>1, <3>2 DEF Down, DownLoad, DownClear, DownCapture, DownApply,
            DownUnlock, DownSave, DownMark, RollbackSet, RollbackLock, RollbackSave
  <2>3. ASSUME NEW c \in Cli, Up(c) PROVE Acts
    <3>1. CASE UpKill(c)
      BY <3>1 DEF UpKill, Signal, DeadTimer
    <3> QED BY <2>0, <2>3, <3>1 DEF Up, UpLoad, UpVerify, UpRelock, UpResave, UpKillClear,
            UpRestore, UpLock, UpFirstLock, UpChattr, UpSave, UpClear, CloseWindow
  <2>4. CASE \E c \in Cli : Status(c)
    BY <2>0, <2>4 DEF Status, StatusMarker, StatusRestore, StatusLock, StatusSave, StatusClear
  <2>5. ASSUME NEW t \in Token, TimerRuns(t) PROVE Acts
    <3>1. \A u \in Token \ {t} : timer'[u] = timer[u]
      BY <2>5 DEF TimerRuns, TimerWake, TimerSet, TimerLock, TimerSave, TimerEnd, TimerStep,
         TimerExit, TypeOK
    <3>2. Working(t) => Matches(t)
      BY DEF ArmIInv, WorkIsArmed, Armed
    <3>3. Working(t) \/ UNCHANGED <<policy, cfg, file>>
      BY <2>5 DEF TimerRuns, TimerWake, TimerSet, TimerLock, TimerSave, TimerEnd, TimerStep,
         TimerExit, Working, TimerSaves
    <3> QED BY <3>1, <3>2, <3>3
  <2>6. CASE \E t \in Token : Expire(t) \/ TimerCrash(t)
    BY <2>6 DEF Expire, TimerCrash, DeadTimer, TypeOK
  <2>7. CASE \E p \in Pid : PidReuse(p) \/ PidRelease(p)
    BY <2>0, <2>7 DEF PidReuse, PidRelease
  <2>8. CASE \E c \in Cli : CliCrash(c)
    BY <2>0, <2>8 DEF CliCrash
  <2>9. CASE \E s \in Snap : LoseSnapshot(s)
    BY <2>0, <2>9 DEF LoseSnapshot
  <2>10. CASE Reboot
    BY <2>10 DEF Reboot, DeadTimer
  <2> QED BY <2>1, <2>2, <2>3, <2>4, <2>5, <2>6, <2>7, <2>8, <2>9, <2>10 DEF Next, Environment
<1> QED BY <1>1, TurnsInvariant, PTL DEF Spec, TimerAuthority

(* saveShieldsState, the rollback of `shields down' and the timer's save:  *)
(* with commands that do not overlap, no kill and at most one failing      *)
(* call, a state file that says "locked" is true once nothing runs.  The   *)
(* call may be any but those between the relaxing of the policy and its    *)
(* record (index.ts:934-972), which nothing rolls back: that one is the    *)
(* counterexample of ClaimedLockIsReal.                                    *)
THEOREM LockIsReal ==
  Spec /\ []OneAtATime => [](faults <= 1 /\ ~unrecorded => ClaimedLockIsReal)
<1>1. TimerIInv /\ LockIInv => (faults <= 1 /\ ~unrecorded => ClaimedLockIsReal)
  <2> SUFFICES ASSUME LockFacts, Quiescent, FileDown = "no", TypeOK
               PROVE  cfg = "locked" /\ policy = "restrictive"
    BY DEF TimerIInv, LockIInv, Undisturbed, ClaimedLockIsReal
  <2> QED BY DEF LockFacts, PolicyKept, ConfigKept, PolicyPc, ConfigPc, Quiescent, TypeOK
<1> QED BY <1>1, TurnsInvariant, PTL

(* captureSnapshot under `shields down': on the same terms, which          *)
(* SnapshotsRestrictive itself names, nothing leads back from an unlocked  *)
(* sandbox to a permissive policy.                                         *)
THEOREM SnapshotsLockDown == Spec /\ []OneAtATime => [](faults <= 1 => SnapshotsRestrictive)
<1>1. LockIInv => (faults <= 1 => SnapshotsRestrictive)
  BY DEF LockIInv, Undisturbed, LockFacts, SnapshotsRestrictive, FileOK, MarkerOK, TimerOK, Good
<1> QED BY <1>1, TurnsInvariant, PTL
=============================================================================
