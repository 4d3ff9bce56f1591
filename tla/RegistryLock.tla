---------------------------- MODULE RegistryLock ----------------------------
(***************************************************************************)
(* The advisory lock of the sandbox registry, acquireLock, releaseLock and *)
(* withLock of src/lib/state/registry.ts, one file operation a step, and   *)
(* the load and save of the operation that runs under it.                  *)
(*                                                                         *)
(* The lock is the directory sandboxes.json.lock: mkdir takes it, a file   *)
(* `owner' in it names the holder's pid, and a lock whose owner is dead,   *)
(* or that has had no owner for LOCK_STALE_MS, is removed by a waiter.     *)
(* Time is a count of ticks of LOCK_RETRY_MS, as the directory's age and   *)
(* as the sleep of every waiter.                                           *)
(***************************************************************************)
EXTENDS Integers

CONSTANTS
  Proc,         \* pids of command processes
  NoProc,
  Name, Value, NoName, NoEntry,   \* of the registry
  Stale,        \* LOCK_STALE_MS, in ticks
  MaxRetries,   \* LOCK_MAX_RETRIES
  MaxFaults,    \* bound: failing writes of the owner file, and failing reads and
                \* writes of sandboxes.json, in a behaviour
  MaxCrashes,   \* bound: processes that may be killed in a behaviour
  Prompt        \* TRUE: no process is suspended for a tick inside an operation
                \* on the lock (it may be inside the critical section)

ASSUME LockNames == NoProc \notin Proc /\ NoName \notin Name /\ NoEntry \notin Value
ASSUME LockBounds ==
  /\ Stale \in Nat /\ MaxRetries \in Nat \ {0}
  /\ MaxFaults \in Nat /\ MaxCrashes \in Nat /\ Prompt \in BOOLEAN

VARIABLES
  exists, owner, tmps, age,   \* the directory: its owner file, the owner.tmp.<pid>
                              \* files in it, ticks since it last changed
  file,                       \* sandboxes.json
  pc, seen, tries, op, copy,  \* of each process; "gone": no process has the pid
  faults, crashes

dir     == <<exists, owner, tmps, age>>
local   == <<seen, tries, op, copy>>
budgets == <<faults, crashes>>
vars    == <<dir, file, pc, local, budgets>>

(* Some operation holds another registry than the one it is about to       *)
(* replace.                                                                *)
Blind  == \E p \in Proc : pc[p] = "save" /\ copy[p] # file
Atomic == INSTANCE Registry WITH registry <- file, blind <- Blind, failures <- faults

Critical  == {"load", "save"}
Acquiring == {"tmp", "mv", "f_tmp", "f_owner", "f_rmdir"}
Releasing == {"r_unlink", "r_clear", "r_rmdir"}
Looking   == {"mkdir", "read", "probe", "recheck", "stat", "s_clear", "s_rmdir"}
Pc        == {"gone", "out", "wait"} \cup Critical \cup Acquiring \cup Releasing \cup Looking

NoOp == [kind |-> "clearAll"]   \* the value of op[p] while p does none

Init ==
  /\ exists = FALSE /\ owner = NoProc /\ tmps = {} /\ age = 0
  /\ file = Atomic!Empty
  /\ pc = [p \in Proc |-> "out"] /\ seen = [p \in Proc |-> NoProc]
  /\ tries = [p \in Proc |-> 0]
  /\ op = [p \in Proc |-> NoOp]
  /\ copy = [p \in Proc |-> Atomic!Empty]
  /\ faults = 0 /\ crashes = 0

-----------------------------------------------------------------------------
Goto(p, from, to) == pc[p] = from /\ pc' = [pc EXCEPT ![p] = to]
Fault == faults < MaxFaults /\ faults' = faults + 1 /\ crashes' = crashes

(* One iteration of the retry loop is over: the last one throws.  Mutant:  *)
(* none is the last.                                                       *)
AfterTryForever(p) == "mkdir"
AfterTry(p) == IF tries[p] + 1 = MaxRetries THEN "out" ELSE "mkdir"
Tried(p) == IF tries[p] + 1 = MaxRetries THEN 0 ELSE tries[p] + 1
Retry(p, from) ==
  /\ Goto(p, from, AfterTry(p)) /\ tries' = [tries EXCEPT ![p] = Tried(p)]
  /\ UNCHANGED <<seen, op, copy>>

(* Unlinking from the directory, or removing it, sets its mtime.           *)
Touch(left) == age' = IF left = <<owner, tmps>> THEN age ELSE 0

(* rmdir, and rmSync(LOCK_DIR, { recursive, force }), which removes the    *)
(* files first.  The directory stays when it is not, or no longer, empty.  *)
ClearDir  == owner' = NoProc /\ tmps' = {} /\ Touch(<<NoProc, {}>>) /\ UNCHANGED exists
RemoveDir ==
  IF owner = NoProc /\ tmps = {}
  THEN exists' = FALSE /\ age' = 0 /\ UNCHANGED <<owner, tmps>>
  ELSE UNCHANGED dir

-----------------------------------------------------------------------------
(* acquireLock                                                             *)

Begin(p) ==
  Goto(p, "out", "mkdir") /\ UNCHANGED <<dir, file, local, budgets>>

Mkdir(p) ==
  /\ \/ /\ ~exists /\ Goto(p, "mkdir", "tmp")
        /\ exists' = TRUE /\ owner' = NoProc /\ tmps' = {} /\ age' = 0
        /\ tries' = [tries EXCEPT ![p] = 0]
     \/ exists /\ Goto(p, "mkdir", "read") /\ UNCHANGED <<dir, tries>>
  /\ UNCHANGED <<file, seen, op, copy, budgets>>

WriteTmp(p) ==
  /\ \/ /\ exists /\ Goto(p, "tmp", "mv")
        /\ tmps' = tmps \cup {p} /\ age' = 0 /\ UNCHANGED <<exists, owner, budgets>>
     \/ ~exists /\ Goto(p, "tmp", "f_tmp") /\ UNCHANGED <<dir, budgets>>
     \/ /\ exists /\ Goto(p, "tmp", "f_tmp") /\ Fault
        /\ tmps' \in {tmps, tmps \cup {p}} /\ Touch(<<owner, tmps'>>)
        /\ UNCHANGED <<exists, owner>>
  /\ UNCHANGED <<file, local>>

Rename(p) ==
  /\ \/ /\ p \in tmps /\ Goto(p, "mv", "load")
        /\ owner' = p /\ tmps' = tmps \ {p} /\ age' = 0 /\ UNCHANGED <<exists, budgets>>
     \/ p \notin tmps /\ Goto(p, "mv", "f_tmp") /\ UNCHANGED <<dir, budgets>>
     \/ Goto(p, "mv", "f_tmp") /\ Fault /\ UNCHANGED dir
  /\ UNCHANGED <<file, local>>

(* The owner file could not be written: best-effort removal, then throw.   *)
FixTmp(p) ==
  /\ Goto(p, "f_tmp", "f_owner") /\ tmps' = tmps \ {p} /\ Touch(<<owner, tmps'>>)
  /\ UNCHANGED <<exists, owner, file, local, budgets>>
FixOwner(p) ==
  /\ Goto(p, "f_owner", "f_rmdir") /\ owner' = NoProc /\ Touch(<<NoProc, tmps>>)
  /\ UNCHANGED <<exists, tmps, file, local, budgets>>
FixDir(p) ==
  /\ Goto(p, "f_rmdir", "out") /\ RemoveDir /\ UNCHANGED <<file, local, budgets>>

(* Mutant: an owner file that is not there yet is not waited for.          *)
ReadHasty(p) ==
  /\ Goto(p, "read", IF owner = NoProc THEN "s_clear" ELSE "probe")
  /\ seen' = [seen EXCEPT ![p] = owner]
  /\ UNCHANGED <<dir, file, tries, op, copy, budgets>>

Read(p) ==
  /\ \/ /\ owner # NoProc /\ Goto(p, "read", "probe")
        /\ seen' = [seen EXCEPT ![p] = owner]
     \/ owner = NoProc /\ Goto(p, "read", "stat") /\ UNCHANGED seen
  /\ UNCHANGED <<dir, file, tries, op, copy, budgets>>

Forget(p) == seen' = [seen EXCEPT ![p] = NoProc]

Probe(p) ==
  /\ \/ Goto(p, "probe", "recheck") /\ pc[seen[p]] = "gone" /\ UNCHANGED seen
     \/ Goto(p, "probe", "wait") /\ pc[seen[p]] # "gone" /\ Forget(p)
  /\ UNCHANGED <<dir, file, tries, op, copy, budgets>>

(* Mutants: the owner is not read again; a dead owner's lock is kept.      *)
RecheckNothing(p) ==
  /\ Goto(p, "recheck", "s_clear") /\ Forget(p)
  /\ UNCHANGED <<dir, file, tries, op, copy, budgets>>
RecheckKeeps(p) ==
  /\ Goto(p, "recheck", "wait") /\ Forget(p)
  /\ UNCHANGED <<dir, file, tries, op, copy, budgets>>

Recheck(p) ==
  /\ Goto(p, "recheck", IF owner = seen[p] THEN "s_clear" ELSE "wait") /\ Forget(p)
  /\ UNCHANGED <<dir, file, tries, op, copy, budgets>>

Stat(p) ==
  /\ \/ ~exists /\ Retry(p, "stat")
     \/ exists /\ age > Stale /\ Goto(p, "stat", "s_clear") /\ UNCHANGED local
     \/ exists /\ age <= Stale /\ Goto(p, "stat", "wait") /\ UNCHANGED local
  /\ UNCHANGED <<dir, file, budgets>>

ReapClear(p) ==
  /\ Goto(p, "s_clear", "s_rmdir") /\ ClearDir /\ UNCHANGED <<file, local, budgets>>
ReapDir(p) ==
  /\ Retry(p, "s_rmdir") /\ RemoveDir /\ UNCHANGED <<file, budgets>>

-----------------------------------------------------------------------------
(* The operation, and releaseLock                                          *)

Chosen(p) == \E o \in Atomic!Op : op' = [op EXCEPT ![p] = o]

(* readConfigFile.  A read that fails for want of permission ends the      *)
(* operation; for any other reason it is taken for an empty registry.      *)
(* Which operation it is matters only from here on; clearAll reads nothing,*)
(* and saves the same whatever a read would have given it.                 *)
Load(p) ==
  /\ \/ /\ Goto(p, "load", "save") /\ Chosen(p)
        /\ copy' = [copy EXCEPT ![p] = file] /\ UNCHANGED budgets
     \/ /\ Goto(p, "load", "save") /\ Chosen(p)
        /\ copy' = [copy EXCEPT ![p] = Atomic!Empty] /\ Fault
     \/ Goto(p, "load", "r_unlink") /\ Fault /\ UNCHANGED <<op, copy>>
  /\ UNCHANGED <<dir, file, seen, tries>>

(* writeConfigFile renames a temporary file: it saves all or nothing.      *)
Save(p) ==
  /\ Goto(p, "save", "r_unlink")
  /\ \/ /\ Atomic!Applies(op[p], copy[p]) /\ file' \in Atomic!Outcomes(op[p], copy[p])
        /\ UNCHANGED budgets
     \/ ~Atomic!Applies(op[p], copy[p]) /\ UNCHANGED <<file, budgets>>
     \/ Fault /\ UNCHANGED file
  /\ op' = [op EXCEPT ![p] = NoOp] /\ copy' = [copy EXCEPT ![p] = Atomic!Empty]
  /\ UNCHANGED <<dir, seen, tries>>

Unlink(p) ==
  /\ Goto(p, "r_unlink", "r_clear") /\ owner' = NoProc /\ Touch(<<NoProc, tmps>>)
  /\ UNCHANGED <<exists, tmps, file, local, budgets>>
ReleaseClear(p) ==
  /\ Goto(p, "r_clear", "r_rmdir") /\ ClearDir /\ UNCHANGED <<file, local, budgets>>
ReleaseDir(p) ==
  /\ Goto(p, "r_rmdir", "out") /\ RemoveDir /\ UNCHANGED <<file, local, budgets>>

-----------------------------------------------------------------------------
(* Processes come and go, and time passes                                  *)

(* Waiters sleep until the next tick.                                      *)
Tick ==
  /\ Prompt => \A p \in Proc : pc[p] \in {"out", "gone", "wait"} \cup Critical
  /\ exists \/ \E p \in Proc : pc[p] = "wait"
  /\ age' = IF exists /\ age <= Stale THEN age + 1 ELSE age
  /\ pc' = [p \in Proc |-> IF pc[p] = "wait" THEN AfterTry(p) ELSE pc[p]]
  /\ tries' = [p \in Proc |-> IF pc[p] = "wait" THEN Tried(p) ELSE tries[p]]
  /\ UNCHANGED <<exists, owner, tmps, file, seen, op, copy, budgets>>

Exit(p) == Goto(p, "out", "gone") /\ UNCHANGED <<dir, file, local, budgets>>

(* A pid is not given to a new process while a lock or a waiter names it.  *)
Start(p) ==
  /\ owner # p /\ \A q \in Proc : pc[q] \in {"probe", "recheck"} => seen[q] # p
  /\ Goto(p, "gone", "out") /\ UNCHANGED <<dir, file, local, budgets>>

Kill(p) ==
  /\ pc[p] \notin {"out", "gone"} /\ pc' = [pc EXCEPT ![p] = "gone"]
  /\ crashes < MaxCrashes /\ crashes' = crashes + 1 /\ faults' = faults
  /\ seen' = [seen EXCEPT ![p] = NoProc] /\ tries' = [tries EXCEPT ![p] = 0]
  /\ op' = [op EXCEPT ![p] = NoOp] /\ copy' = [copy EXCEPT ![p] = Atomic!Empty]
  /\ UNCHANGED <<dir, file>>

Acquire(p) ==
  \/ Mkdir(p) \/ WriteTmp(p) \/ Rename(p) \/ FixTmp(p) \/ FixOwner(p) \/ FixDir(p)
  \/ Read(p) \/ Probe(p) \/ Recheck(p) \/ Stat(p) \/ ReapClear(p) \/ ReapDir(p)
Finish(p) == Load(p) \/ Save(p) \/ Unlink(p) \/ ReleaseClear(p) \/ ReleaseDir(p)

Next ==
  \/ \E p \in Proc : Begin(p) \/ Acquire(p) \/ Finish(p)
  \/ \E p \in Proc : Exit(p) \/ Start(p) \/ Kill(p)
  \/ Tick

Spec == Init /\ [][Next]_vars

(* A process that uses the lock runs on, and time passes: no behaviour fits *)
(* endlessly many operations between two ticks.                            *)
FairSpec == Spec /\ SF_vars(Tick) /\ \A p \in Proc : WF_vars(Acquire(p) \/ Finish(p))

-----------------------------------------------------------------------------
(* Properties                                                              *)

(* Every variable keeps its type.                                          *)
TypeOK ==
  /\ exists \in BOOLEAN /\ owner \in Proc \cup {NoProc} /\ tmps \subseteq Proc
  /\ age \in 0 .. Stale + 1 /\ file \in Atomic!Registries
  /\ pc \in [Proc -> Pc] /\ seen \in [Proc -> Proc \cup {NoProc}]
  /\ \A p \in Proc : pc[p] \in {"probe", "recheck"} => seen[p] \in Proc
  /\ tries \in [Proc -> 0 .. MaxRetries - 1] /\ op \in [Proc -> Atomic!Op]
  /\ copy \in [Proc -> Atomic!Registries]
  /\ faults \in 0 .. MaxFaults /\ crashes \in 0 .. MaxCrashes

(* The advisory lock: two operations never read and write sandboxes.json   *)
(* at the same time.                                                       *)
MutualExclusion ==
  \A p, q \in Proc : pc[p] \in Critical /\ pc[q] \in Critical => p = q

(* Why, when no process is killed: the directory is one process's from its *)
(* mkdir to its rmdir; that process is the owner while it may be inside;   *)
(* an owner that is gone is an owner no more; and a directory seen without *)
(* an owner is younger than a tick.                                        *)
Holding == Acquiring \cup Critical \cup Releasing
OneHolder == \A p, q \in Proc : pc[p] \in Holding /\ pc[q] \in Holding => p = q
HolderHasDir == \A p \in Proc :
  /\ pc[p] \in Holding => exists
  /\ pc[p] \in Critical \cup {"r_unlink"} => owner = p
  /\ pc[p] \in Acquiring \cup {"r_clear", "r_rmdir"} => owner = NoProc
  /\ pc[p] \in {"mv", "f_tmp"} => tmps \subseteq {p}
  /\ pc[p] \in Holding \ {"mv", "f_tmp"} => tmps = {}
DirHasHolder ==
  /\ exists => \E p \in Proc : pc[p] \in Holding
  /\ ~exists => owner = NoProc /\ tmps = {} /\ age = 0
NobodyReaps == \A p \in Proc :
  /\ pc[p] \notin {"s_clear", "s_rmdir"}
  /\ pc[p] = "recheck" => pc[seen[p]] = "gone"
  /\ pc[p] = "stat" => age = 0
YoungWithoutOwner == owner = NoProc => age = 0
LockIInv ==
  TypeOK /\ OneHolder /\ HolderHasDir /\ DirHasHolder /\ NobodyReaps /\ YoungWithoutOwner

(* withLock makes every registry operation atomic: the sequence of saved   *)
(* files is one of Registry's.  Each is made by one operation of the last  *)
(* one saved, with no update lost in between, but for the operation whose  *)
(* own read of the file failed: that one starts from an empty registry.    *)
AtomicOperations == Atomic!Spec

(* Whatever is killed, and however many locks are broken, the saved        *)
(* default sandbox is a registered one.                                    *)
DefaultRegistered == Atomic!DefaultRegistered(file)

(* Liveness: the lock of a killed process is removed by the first command  *)
(* that meets it with all its retries to go.                               *)
Orphaned ==
  exists /\ \A p \in Proc : pc[p] \notin Holding
StaleLockCleared == \A p \in Proc :
  Orphaned /\ pc[p] = "mkdir" /\ tries[p] = 0 /\ crashes = MaxCrashes ~> ~Orphaned

(* Liveness: a command that wants the lock gets it or gives up.            *)
CommandsEnd == \A p \in Proc : pc[p] = "mkdir" ~> pc[p] \in {"load", "out", "gone"}
=============================================================================
