----------------------------- MODULE OnboardLock -----------------------------
(***************************************************************************)
(* The lock of an onboarding run, acquireOnboardLock and                   *)
(* releaseOnboardLock of src/lib/state/onboard-session.ts, one file        *)
(* operation a step.                                                       *)
(*                                                                         *)
(* The lock is the file onboard.lock, created with O_EXCL, which names the *)
(* holder's pid and start.  A contender that finds the holder gone, or a   *)
(* file that has been malformed for MALFORMED_STALE_SECONDS, unlinks it if *)
(* its inode is still the one it looked at, and tries again; a live holder *)
(* refuses it at once.  The holder keeps its descriptor open and, to       *)
(* release, unlinks the path if it still leads to that inode.              *)
(*                                                                         *)
(* A process that dies gives its pid free; `life' counts the processes     *)
(* that have had a pid, and stands for their start times.                  *)
(***************************************************************************)
EXTENDS Naturals

CONSTANTS
  Proc,         \* pids of processes that may run onboard, or rebuild
  File,         \* inode numbers
  NoProc, NoFile,
  MaxAttempts,  \* MAX_ATTEMPTS
  MaxLives,     \* bound: processes a pid is given to in a behaviour
  MaxFaults,    \* bound: writes that may fail in a behaviour
  MaxCrashes,   \* bound: processes that may be killed in a behaviour
  ReuseInode,   \* TRUE: the file system gives the number of an unlinked file
                \* to the next one (ext4, xfs)
  ProcFs,       \* TRUE: the start time of a process can be read (/proc)
  Prompt        \* TRUE: no process is suspended for MALFORMED_STALE_SECONDS
                \* inside an operation on the lock (it may be while it holds it)

ASSUME OnboardNames == NoProc \notin Proc /\ NoFile \notin File
ASSUME OnboardBounds ==
  /\ MaxAttempts \in Nat \ {0} /\ MaxLives \in Nat
  /\ MaxFaults \in Nat /\ MaxCrashes \in Nat
ASSUME OnboardFlags == {ReuseInode, ProcFs, Prompt} \subseteq BOOLEAN

VARIABLES
  path, text, old,     \* onboard.lock: its inode, what it says, whether it was
                       \* last written over MALFORMED_STALE_SECONDS ago
  fd,                  \* the descriptor each process holds open
  pc, seen, ino, try,  \* of each process; "gone": no process has the pid
  life,
  alone,               \* history: the process, if any, that began while nothing
                       \* was in its way, and that no other has joined since
  moved,               \* history: processes that have looked at a file which is
                       \* no longer the one at the path
  fooled,              \* history: a file went that was not the one judged, for it
                       \* had its number, or came between the last look and unlink
  faults, crashes

disk    == <<path, text, old, fd>>
local   == <<seen, ino, try>>
budgets == <<faults, crashes>>
history == <<moved, fooled>>
vars    == <<disk, pc, local, life, alone, history, budgets>>

Text   == [pid : Proc \cup {NoProc}, life : 0 .. MaxLives]
NoText == [pid |-> NoProc, life |-> 0]   \* what does not parse
Mine(p) == [pid |-> p, life |-> life[p]]

Outside   == {"gone", "idle"}
Creating  == {"write", "w_unlink"}
Holding   == {"held", "r_stat", "r_unlink"}
Looking   == {"open", "stat", "read", "malformed", "check", "verify", "unlink"}
Leaving   == {"refused", "left", "fb_read", "fb_unlink"}
Peering   == {"read", "malformed", "check", "verify", "unlink", "fb_unlink"}
Pc        == Outside \cup Creating \cup Holding \cup Looking \cup Leaving

Init ==
  /\ path = NoFile /\ text = NoText /\ old = FALSE /\ fd = [p \in Proc |-> NoFile]
  /\ pc = [p \in Proc |-> "gone"] /\ life = [p \in Proc |-> 0]
  /\ seen = [p \in Proc |-> NoText] /\ ino = [p \in Proc |-> NoFile]
  /\ try = [p \in Proc |-> 1]
  /\ alone = {} /\ moved = {} /\ fooled = FALSE /\ faults = 0 /\ crashes = 0

-----------------------------------------------------------------------------
Goto(p, from, to) == pc[p] = from /\ pc' = [pc EXCEPT ![p] = to]
Fault == faults < MaxFaults /\ faults' = faults + 1 /\ crashes' = crashes

(* p unlinks the path; p has looked, or has begun to look, at what is there. *)
Gone(p) ==
  /\ path' = NoFile /\ text' = NoText /\ old' = FALSE
  /\ moved' = (moved \ {p}) \cup {q \in Proc \ {p} : pc[q] \in Peering}
Looks(p) == moved' = moved \ {p}
Mistakes(p) == fooled' = (fooled \/ (p \in moved /\ path # NoFile))
Forget(p) == seen' = [seen EXCEPT ![p] = NoText] /\ ino' = [ino EXCEPT ![p] = NoFile]

(* `continue' in the loop of acquireOnboardLock, or its end.               *)
Retry(p, from) ==
  /\ \/ Goto(p, from, "open") /\ try[p] < MaxAttempts /\ try' = [try EXCEPT ![p] = @ + 1]
     \/ Goto(p, from, "refused") /\ try[p] = MaxAttempts /\ try' = [try EXCEPT ![p] = 1]
  /\ Forget(p)

(* The numbers an openSync may be given.                                   *)
Free == {f \in File :
  /\ f # path /\ \A q \in Proc : fd[q] # f
  /\ ReuseInode \/ \A q \in Proc : ino[q] # f}

-----------------------------------------------------------------------------
(* acquireOnboardLock                                                      *)

Debris == path # NoFile /\ text = NoText /\ ~old
Undisturbed(p) ==
  /\ \A q \in Proc \ {p} : pc[q] \in Outside
  /\ ~Debris /\ (path # NoFile => text.pid # p)

Begin(p) ==
  /\ Goto(p, "idle", "open")
  /\ alone' = IF Undisturbed(p) THEN {p} ELSE {}
  /\ UNCHANGED <<disk, local, life, budgets, history>>

Open(p) ==
  /\ \/ /\ path = NoFile /\ Goto(p, "open", "write")
        /\ \E f \in Free : path' = f /\ fd' = [fd EXCEPT ![p] = f]
        /\ text' = NoText /\ old' = FALSE /\ try' = [try EXCEPT ![p] = 1]
     \/ path # NoFile /\ Goto(p, "open", "stat") /\ UNCHANGED <<disk, try>>
  /\ UNCHANGED <<seen, ino, life, alone, budgets, history>>

Write(p) ==
  /\ \/ /\ Goto(p, "write", "held") /\ UNCHANGED <<fd, budgets>>
        /\ IF path = fd[p] THEN text' = Mine(p) /\ old' = FALSE
                           ELSE UNCHANGED <<text, old>>
     \/ /\ Goto(p, "write", "w_unlink") /\ Fault
        /\ fd' = [fd EXCEPT ![p] = NoFile] /\ UNCHANGED <<text, old>>
  /\ UNCHANGED <<path, local, life, alone, history>>

WriteUnlink(p) ==
  /\ Goto(p, "w_unlink", "left") /\ Gone(p)
  /\ UNCHANGED <<fd, local, life, alone, budgets, fooled>>

Stat(p) ==
  /\ \/ /\ path # NoFile /\ Goto(p, "stat", "read")
        /\ ino' = [ino EXCEPT ![p] = path] /\ UNCHANGED <<seen, try>>
     \/ path = NoFile /\ Retry(p, "stat")
  /\ Looks(p) /\ UNCHANGED <<disk, life, alone, budgets, fooled>>

Read(p) ==
  /\ \/ /\ path # NoFile /\ Goto(p, "read", IF text = NoText THEN "malformed" ELSE "check")
        /\ seen' = [seen EXCEPT ![p] = text] /\ UNCHANGED <<ino, try, moved>>
     \/ path = NoFile /\ Retry(p, "read") /\ Looks(p)
  /\ UNCHANGED <<disk, life, alone, budgets, fooled>>

Malformed(p) ==
  /\ \/ path # NoFile /\ old /\ Goto(p, "malformed", "verify") /\ UNCHANGED <<local, moved>>
     \/ ~(path # NoFile /\ old) /\ Retry(p, "malformed") /\ Looks(p)
  /\ UNCHANGED <<disk, life, alone, budgets, fooled>>

(* lockHolderStillMatches.  Mutant: the start time is not compared.        *)
StillMatchesByPid(p) == pc[seen[p].pid] # "gone"

StillMatches(p) ==
  /\ pc[seen[p].pid] # "gone"
  /\ seen[p].pid = p \/ ~ProcFs \/ life[seen[p].pid] = seen[p].life

Check(p) ==
  /\ \/ /\ Goto(p, "check", "refused") /\ StillMatches(p)
        /\ Forget(p) /\ try' = [try EXCEPT ![p] = 1] /\ Looks(p)
     \/ Goto(p, "check", "verify") /\ ~StillMatches(p) /\ UNCHANGED <<local, moved>>
  /\ UNCHANGED <<disk, life, alone, budgets, fooled>>

(* unlinkIfInodeMatches: stat, then unlink.                                *)
Verify(p) ==
  /\ \/ /\ path # NoFile /\ path = ino[p] /\ Goto(p, "verify", "unlink")
        /\ Mistakes(p) /\ UNCHANGED local
     \/ ~(path # NoFile /\ path = ino[p]) /\ Retry(p, "verify") /\ UNCHANGED fooled
  /\ Looks(p) /\ UNCHANGED <<disk, life, alone, budgets>>

Unlink(p) ==
  /\ Retry(p, "unlink") /\ Gone(p) /\ Mistakes(p)
  /\ UNCHANGED <<fd, life, alone, budgets>>

-----------------------------------------------------------------------------
(* releaseOnboardLock                                                      *)

Release(p) ==
  Goto(p, "held", "r_stat") /\ UNCHANGED <<disk, local, life, alone, budgets, history>>

ReleaseStat(p) ==
  /\ \/ Goto(p, "r_stat", "r_unlink") /\ path = fd[p] /\ UNCHANGED fd
     \/ Goto(p, "r_stat", "left") /\ path # fd[p] /\ fd' = [fd EXCEPT ![p] = NoFile]
  /\ UNCHANGED <<path, text, old, local, life, alone, budgets, history>>

ReleaseUnlink(p) ==
  /\ Goto(p, "r_unlink", "left") /\ Gone(p) /\ fd' = [fd EXCEPT ![p] = NoFile]
  /\ UNCHANGED <<local, life, alone, budgets, fooled>>

(* Without a descriptor: a rebuild releases after an onboarding that was   *)
(* refused or has failed, whether or not it held the lock.                 *)
Fallback(p) ==
  /\ Goto(p, "refused", "fb_read") \/ Goto(p, "left", "fb_read")
  /\ UNCHANGED <<disk, local, life, alone, budgets, history>>

(* Mutant: the pid in the file is not compared.                            *)
FallbackReadAny(p) ==
  /\ Goto(p, "fb_read", IF path # NoFile THEN "fb_unlink" ELSE "left")
  /\ Looks(p) /\ UNCHANGED <<disk, local, life, alone, budgets, fooled>>

FallbackRead(p) ==
  /\ \/ Goto(p, "fb_read", "fb_unlink") /\ path # NoFile /\ text.pid = p
     \/ Goto(p, "fb_read", "left") /\ ~(path # NoFile /\ text.pid = p)
  /\ Looks(p) /\ UNCHANGED <<disk, local, life, alone, budgets, fooled>>

FallbackUnlink(p) ==
  /\ Goto(p, "fb_unlink", "left") /\ Gone(p) /\ Mistakes(p)
  /\ UNCHANGED <<fd, local, life, alone, budgets>>

(* The command goes on, perhaps to onboard once more, or ends.             *)
Return(p) ==
  /\ Goto(p, "refused", "idle") \/ Goto(p, "left", "idle")
  /\ UNCHANGED <<disk, local, life, alone, budgets, history>>

-----------------------------------------------------------------------------
(* The environment                                                         *)

Start(p) ==
  /\ Goto(p, "gone", "idle") /\ life[p] < MaxLives
  /\ life' = [life EXCEPT ![p] = @ + 1]
  /\ UNCHANGED <<disk, local, alone, budgets, history>>

Quit(p) ==
  Goto(p, "idle", "gone") /\ UNCHANGED <<disk, local, life, alone, budgets, history>>

Crash(p) ==
  /\ pc[p] \notin Outside /\ pc' = [pc EXCEPT ![p] = "gone"]
  /\ crashes < MaxCrashes /\ crashes' = crashes + 1
  /\ fd' = [fd EXCEPT ![p] = NoFile] /\ Forget(p) /\ try' = [try EXCEPT ![p] = 1]
  /\ Looks(p) /\ UNCHANGED <<path, text, old, life, alone, faults, fooled>>

(* MALFORMED_STALE_SECONDS pass.                                           *)
Age ==
  /\ path # NoFile /\ ~old /\ old' = TRUE
  /\ Prompt => \A p \in Proc : pc[p] \in Outside \cup {"held"}
  /\ UNCHANGED <<path, text, fd, pc, local, life, alone, budgets, history>>

-----------------------------------------------------------------------------
Acquire(p) ==
  \/ Begin(p) \/ Open(p) \/ Write(p) \/ WriteUnlink(p) \/ Stat(p) \/ Read(p)
  \/ Malformed(p) \/ Check(p) \/ Verify(p) \/ Unlink(p)
LetGo(p) ==
  \/ Release(p) \/ ReleaseStat(p) \/ ReleaseUnlink(p)
  \/ Fallback(p) \/ FallbackRead(p) \/ FallbackUnlink(p) \/ Return(p)

Next ==
  \/ \E p \in Proc : Acquire(p) \/ LetGo(p) \/ Start(p) \/ Quit(p) \/ Crash(p)
  \/ Age

Spec == Init /\ [][Next]_vars

-----------------------------------------------------------------------------
(* Properties                                                              *)

(* Every variable keeps its type.                                          *)
TypeOK ==
  /\ path \in File \cup {NoFile} /\ text \in Text /\ old \in BOOLEAN
  /\ fd \in [Proc -> File \cup {NoFile}] /\ pc \in [Proc -> Pc]
  /\ seen \in [Proc -> Text] /\ ino \in [Proc -> File \cup {NoFile}]
  /\ try \in [Proc -> 1 .. MaxAttempts] /\ life \in [Proc -> 0 .. MaxLives]
  /\ alone \subseteq Proc /\ faults \in 0 .. MaxFaults /\ crashes \in 0 .. MaxCrashes
  /\ moved \subseteq Proc /\ fooled \in BOOLEAN

(* Two onboarding runs never hold the lock together, whoever is killed and *)
(* whatever he leaves, unless a file was unlinked that was not the one     *)
(* judged: it had been given the same inode number, or came after the last *)
(* look at the path ("a sufficiently unlucky race can still slip through").*)
OneOnboarding == ~fooled =>
  \A p, q \in Proc : pc[p] \in Holding /\ pc[q] \in Holding => p = q

(* What keeps it so.  The file on disk is the one its only creator has     *)
(* open, and says so once it is written ...                                *)
Owners == Creating \cup Holding
OneOwner == \A p, q \in Proc : pc[p] \in Owners /\ pc[q] \in Owners => p = q
OwnerOnDisk == \A p \in Proc : pc[p] \in Owners =>
  /\ path # NoFile
  /\ pc[p] # "w_unlink" => fd[p] = path
  /\ pc[p] \in Creating => text = NoText /\ ~old
  /\ pc[p] \in Holding => text = Mine(p)
Named == text # NoText => text.pid \in Proc
(* ... and a contender that finds it stale, and has it before him still,   *)
(* has before him what nobody has open.                                    *)
Numbered == Peering \ {"fb_unlink"}
LookedAt == \A p \in Proc \ moved :
  /\ pc[p] \in Peering => path # NoFile
  /\ pc[p] \in Numbered => path = ino[p]
  /\ pc[p] = "malformed" /\ old => text = NoText
  /\ pc[p] = "check" => text = seen[p] /\ text # NoText
  /\ pc[p] \in {"verify", "unlink"} => \A q \in Proc : pc[q] \notin Owners
  /\ pc[p] = "fb_unlink" => text.pid = p
(* While nobody is killed, a file has an owner, and nothing is unlinked by *)
(* another; an inode number that is not given again tells files apart.     *)
Claimed == crashes = 0 =>
  /\ path # NoFile => \E p \in Proc : pc[p] \in Owners
  /\ \A p \in Proc : pc[p] \notin {"unlink", "fb_unlink"}
Numbers == ~ReuseInode => \A p \in moved :
  pc[p] \in Numbered /\ path # NoFile => path # ino[p]
Mistaken == fooled => ReuseInode \/ crashes > 0
Safe == OneOwner /\ OwnerOnDisk /\ Named /\ LookedAt /\ Claimed
OnboardIInv == TypeOK /\ Numbers /\ Mistaken /\ (~fooled => Safe)

(* Whatever a dead run has left, a lock file or half of one, an onboarding *)
(* that nothing else disturbs gets the lock: nobody has to remove the file *)
(* by hand.  (Not so when the dead holder had this very process's pid.)    *)
LoneRunAcquires == \A p \in alone : pc[p] # "refused"
==============================================================================
