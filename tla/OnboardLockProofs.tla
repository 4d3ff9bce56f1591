-------------------------- MODULE OnboardLockProofs --------------------------
(* Theorems about OnboardLock, for every set of processes and inodes.      *)
EXTENDS OnboardLock, TLAPS

(***************************************************************************)
(* Type correctness.                                                       *)
(***************************************************************************)
LEMMA TypeInit == Init => TypeOK
<1> SUFFICES ASSUME Init PROVE TypeOK
  OBVIOUS
<1>1. 0 \in 0 .. MaxLives /\ 1 \in 1 .. MaxAttempts /\ 0 \in 0 .. MaxFaults /\ 0 \in 0 .. MaxCrashes
  BY OnboardBounds
<1>2. NoText \in Text
  BY <1>1 DEF NoText, Text
<1>3. "gone" \in Pc
  BY DEF Pc, Outside
<1> QED BY <1>1, <1>2, <1>3 DEF Init, TypeOK

LEMMA GotoType ==
  ASSUME TypeOK, NEW p \in Proc, NEW from, NEW to \in Pc, Goto(p, from, to)
  PROVE  pc' \in [Proc -> Pc]
  BY DEF TypeOK, Goto

LEMMA TextType ==
  ASSUME TypeOK, NEW p \in Proc
  PROVE  NoText \in Text /\ Mine(p) \in Text /\ Mine(p) # NoText
<1>1. 0 \in 0 .. MaxLives /\ life[p] \in 0 .. MaxLives
  BY OnboardBounds DEF TypeOK
<1> QED BY <1>1, OnboardNames DEF NoText, Text, Mine

LEMMA ForgetType ==
  ASSUME TypeOK, NEW p \in Proc, Forget(p)
  PROVE  seen' \in [Proc -> Text] /\ ino' \in [Proc -> File \cup {NoFile}]
  BY TextType DEF TypeOK, Forget

LEMMA TryType ==
  ASSUME TypeOK, NEW p \in Proc
  PROVE  /\ [try EXCEPT ![p] = 1] \in [Proc -> 1 .. MaxAttempts]
         /\ try[p] < MaxAttempts => [try EXCEPT ![p] = @ + 1] \in [Proc -> 1 .. MaxAttempts]
<1>1. 1 \in 1 .. MaxAttempts
  BY OnboardBounds
<1>2. try[p] < MaxAttempts => try[p] + 1 \in 1 .. MaxAttempts
  BY OnboardBounds DEF TypeOK
<1> QED BY <1>1, <1>2 DEF TypeOK

LEMMA RetryType ==
  ASSUME TypeOK, NEW p \in Proc, NEW from, Retry(p, from)
  PROVE  /\ pc' \in [Proc -> Pc] /\ try' \in [Proc -> 1 .. MaxAttempts]
         /\ seen' \in [Proc -> Text] /\ ino' \in [Proc -> File \cup {NoFile}]
<1>1. "open" \in Pc /\ "refused" \in Pc
  BY DEF Pc, Looking, Leaving
<1>2. Forget(p)
  BY DEF Retry
<1>3. CASE Goto(p, from, "open") /\ try[p] < MaxAttempts /\ try' = [try EXCEPT ![p] = @ + 1]
  BY <1>1, <1>2, <1>3, GotoType, ForgetType, TryType
<1>4. CASE Goto(p, from, "refused") /\ try' = [try EXCEPT ![p] = 1]
  BY <1>1, <1>2, <1>4, GotoType, ForgetType, TryType
<1> QED BY <1>3, <1>4 DEF Retry

LEMMA BudgetType ==
  ASSUME TypeOK, Fault
  PROVE  faults' \in 0 .. MaxFaults /\ crashes' \in 0 .. MaxCrashes
  BY OnboardBounds DEF TypeOK, Fault

LEMMA HistoryType ==
  ASSUME TypeOK, NEW p \in Proc
  PROVE  /\ Gone(p) => /\ moved' \subseteq Proc /\ path' \in File \cup {NoFile}
                       /\ text' \in Text /\ old' \in BOOLEAN
         /\ Looks(p) => moved' \subseteq Proc
         /\ Mistakes(p) => fooled' \in BOOLEAN
  BY TextType DEF TypeOK, Gone, Looks, Mistakes

LEMMA TypeAcquire ==
  ASSUME TypeOK, NEW p \in Proc, Acquire(p)
  PROVE  TypeOK'
<1> USE DEF disk, local, budgets, history
<1>0. /\ {"open", "write", "stat", "held", "w_unlink", "left", "read", "malformed",
          "check", "verify", "refused", "unlink"} \subseteq Pc
      /\ NoText \in Text /\ Mine(p) \in Text
  BY TextType DEF Pc, Outside, Creating, Holding, Looking, Leaving
<1>1. CASE Begin(p)
  BY <1>0, <1>1, GotoType DEF TypeOK, Begin
<1>2. CASE Open(p)
  <2>1. CASE path = NoFile
    <3>1. PICK f \in Free : path' = f /\ fd' = [fd EXCEPT ![p] = f]
      BY <1>2, <2>1 DEF Open
    <3>2. f \in File
      BY <3>1 DEF Free
    <3>3. Goto(p, "open", "write") /\ try' = [try EXCEPT ![p] = 1]
      BY <1>2, <2>1 DEF Open
    <3> QED BY <1>0, <1>2, <2>1, <3>1, <3>2, <3>3, GotoType, TryType DEF TypeOK, Open
  <2>2. CASE path # NoFile
    BY <1>0, <1>2, <2>2, GotoType DEF TypeOK, Open
  <2> QED BY <2>1, <2>2
<1>3. CASE Write(p)
  <2>1. CASE Goto(p, "write", "held") /\ UNCHANGED <<fd, budgets>>
    BY <1>0, <1>3, <2>1, GotoType DEF TypeOK, Write
  <2>2. CASE Goto(p, "write", "w_unlink") /\ Fault /\ fd' = [fd EXCEPT ![p] = NoFile] /\ UNCHANGED <<text, old>>
    BY <1>0, <1>3, <2>2, GotoType, BudgetType DEF TypeOK, Write
  <2> QED BY <1>3, <2>1, <2>2 DEF Write
<1>4. CASE WriteUnlink(p)
  BY <1>0, <1>4, GotoType, HistoryType DEF TypeOK, WriteUnlink
<1>5. CASE Stat(p)
  BY <1>0, <1>5, GotoType, RetryType, HistoryType DEF TypeOK, Stat
<1>6. CASE Read(p)
  BY <1>0, <1>6, GotoType, RetryType, HistoryType DEF TypeOK, Read
<1>7. CASE Malformed(p)
  BY <1>0, <1>7, GotoType, RetryType, HistoryType DEF TypeOK, Malformed
<1>8. CASE Check(p)
  BY <1>0, <1>8, GotoType, ForgetType, TryType, HistoryType DEF TypeOK, Check
<1>9. CASE Verify(p)
  BY <1>0, <1>9, GotoType, RetryType, HistoryType DEF TypeOK, Verify
<1>10. CASE Unlink(p)
  BY <1>0, <1>10, RetryType, HistoryType DEF TypeOK, Unlink
<1> QED BY <1>1, <1>2, <1>3, <1>4, <1>5, <1>6, <1>7, <1>8, <1>9, <1>10 DEF Acquire

LEMMA TypeLetGo ==
  ASSUME TypeOK, NEW p \in Proc, LetGo(p)
  PROVE  TypeOK'
<1> USE DEF disk, local, budgets, history
<1>0. {"r_stat", "r_unlink", "left", "fb_read", "fb_unlink", "idle"} \subseteq Pc /\ NoText \in Text
  BY TextType DEF Pc, Outside, Creating, Holding, Looking, Leaving
<1>1. CASE Release(p)
  BY <1>0, <1>1, GotoType DEF TypeOK, Release
<1>2. CASE ReleaseStat(p)
  BY <1>0, <1>2, GotoType DEF TypeOK, ReleaseStat
<1>3. CASE ReleaseUnlink(p)
  BY <1>0, <1>3, GotoType, HistoryType DEF TypeOK, ReleaseUnlink
<1>4. CASE Fallback(p)
  BY <1>0, <1>4, GotoType DEF TypeOK, Fallback
<1>5. CASE FallbackRead(p)
  BY <1>0, <1>5, GotoType, HistoryType DEF TypeOK, FallbackRead
<1>6. CASE FallbackUnlink(p)
  BY <1>0, <1>6, GotoType, HistoryType DEF TypeOK, FallbackUnlink
<1>7. CASE Return(p)
  BY <1>0, <1>7, GotoType DEF TypeOK, Return
<1> QED BY <1>1, <1>2, <1>3, <1>4, <1>5, <1>6, <1>7 DEF LetGo

LEMMA TypeNext == TypeOK /\ [Next]_vars => TypeOK'
<1> SUFFICES ASSUME TypeOK, [Next]_vars PROVE TypeOK'
  OBVIOUS
<1> USE DEF disk, local, budgets, history
<1>0. {"gone", "idle"} \subseteq Pc
  BY DEF Pc, Outside
<1>1. CASE \E p \in Proc : Acquire(p) \/ LetGo(p)
  BY <1>1, TypeAcquire, TypeLetGo
<1>2. ASSUME NEW p \in Proc, Start(p) PROVE TypeOK'
  <2>1. [life EXCEPT ![p] = @ + 1] \in [Proc -> 0 .. MaxLives]
    BY <1>2, OnboardBounds DEF TypeOK, Start
  <2> QED BY <1>0, <1>2, <2>1, GotoType DEF TypeOK, Start
<1>3. ASSUME NEW p \in Proc, Quit(p) PROVE TypeOK'
  BY <1>0, <1>3, GotoType DEF TypeOK, Quit
<1>4. ASSUME NEW p \in Proc, Crash(p) PROVE TypeOK'
  <2>1. crashes' \in 0 .. MaxCrashes
    BY <1>4, OnboardBounds DEF TypeOK, Crash
  <2> QED BY <1>0, <1>4, <2>1, ForgetType, TryType, HistoryType DEF TypeOK, Crash
<1>5. CASE Age
  BY <1>5 DEF TypeOK, Age
<1>6. CASE UNCHANGED vars
  BY <1>6 DEF TypeOK, vars
<1> QED BY <1>1, <1>2, <1>3, <1>4, <1>5, <1>6 DEF Next

(* TypeOK is an invariant: whatever process does what when, the lock file  *)
(* and what each process remembers of it have their types.                 *)
THEOREM OnboardTypeCorrect == Spec => []TypeOK
<1>1. Init => TypeOK
  BY TypeInit
<1>2. TypeOK /\ [Next]_vars => TypeOK'
  BY TypeNext
<1> QED BY <1>1, <1>2, PTL DEF Spec

(***************************************************************************)
(* Mutual exclusion.                                                       *)
(***************************************************************************)
(* Whoever reads the lock file of an owner reads the owner's name.         *)
LEMMA HolderNamed ==
  ASSUME TypeOK, Safe, text # NoText, NEW q \in Proc, pc[q] \in Owners
  PROVE  pc[q] \in Holding /\ text = Mine(q)
BY DEF Owners, Safe, OwnerOnDisk

(* While no process is killed, a file has an owner.                        *)
LEMMA FileOwned ==
  ASSUME Safe, crashes = 0, path # NoFile
  PROVE  \E q \in Proc : pc[q] \in Owners
BY DEF Safe, Claimed

(* A step that leaves the file alone, and does not make p an owner or      *)
(* cease to be one, only has to keep what is said of p as a contender.     *)
LEMMA Bystander ==
  ASSUME TypeOK, Safe, NEW p \in Proc, NEW to, pc' = [pc EXCEPT ![p] = to],
         UNCHANGED <<disk, life, crashes>>, pc[p] \notin Owners, to \notin Owners,
         \A q \in Proc \ {p} : seen'[q] = seen[q] /\ ino'[q] = ino[q] /\ (q \in moved <=> q \in moved'),
         p \notin moved' =>
           /\ to \in Peering => path # NoFile
           /\ to \in Numbered => path = ino'[p]
           /\ to = "malformed" /\ old => text = NoText
           /\ to = "check" => text = seen'[p] /\ text # NoText
           /\ to \in {"verify", "unlink"} => \A q \in Proc : pc[q] \notin Owners
           /\ to = "fb_unlink" => text.pid = p,
         crashes = 0 => to \notin {"unlink", "fb_unlink"}
  PROVE  Safe'
<1> USE DEF disk
<1>0. pc'[p] = to /\ \A q \in Proc \ {p} : pc'[q] = pc[q]
  BY DEF TypeOK
<1>1. \A q \in Proc : pc'[q] \in Owners <=> pc[q] \in Owners
  BY <1>0
<1>2. OneOwner' /\ Named'
  BY <1>1 DEF Safe, OneOwner, Named
<1>3. OwnerOnDisk'
  <2> SUFFICES ASSUME NEW q \in Proc, pc'[q] \in Owners
               PROVE /\ path' # NoFile
                     /\ pc'[q] # "w_unlink" => fd'[q] = path'
                     /\ pc'[q] \in Creating => text' = NoText /\ ~old'
                     /\ pc'[q] \in Holding => text' = Mine(q)'
    BY DEF OwnerOnDisk
  <2>1. q # p /\ pc'[q] = pc[q]
    BY <1>0
  <2> QED BY <2>1 DEF Safe, OwnerOnDisk, Mine
<1>4. LookedAt'
  <2> SUFFICES ASSUME NEW q \in Proc \ moved'
               PROVE /\ pc'[q] \in Peering => path # NoFile
                     /\ pc'[q] \in Numbered => path = ino'[q]
                     /\ pc'[q] = "malformed" /\ old => text = NoText
                     /\ pc'[q] = "check" => text = seen'[q] /\ text # NoText
                     /\ pc'[q] \in {"verify", "unlink"} => \A r \in Proc : pc'[r] \notin Owners
                     /\ pc'[q] = "fb_unlink" => text.pid = q
    BY DEF LookedAt
  <2>1. CASE q = p
    BY <1>0, <1>1, <2>1
  <2>2. CASE q # p
    <3>1. q \in Proc \ moved /\ pc'[q] = pc[q] /\ seen'[q] = seen[q] /\ ino'[q] = ino[q]
      BY <1>0, <2>2
    <3> QED BY <1>1, <3>1 DEF Safe, LookedAt
  <2> QED BY <2>1, <2>2
<1>5. Claimed'
  BY <1>0, <1>1 DEF Safe, Claimed
<1> QED BY <1>2, <1>3, <1>4, <1>5 DEF Safe

LEMMA RetrySafe ==
  ASSUME TypeOK, Safe, NEW p \in Proc, NEW from, Retry(p, from), Looks(p),
         from \notin Owners, UNCHANGED <<disk, life, crashes>>
  PROVE  Safe'
<1>1. PICK to \in {"open", "refused"} : pc[p] = from /\ pc' = [pc EXCEPT ![p] = to]
  BY DEF Retry, Goto
<1>2. \A q \in Proc \ {p} : seen'[q] = seen[q] /\ ino'[q] = ino[q] /\ (q \in moved <=> q \in moved')
  BY DEF Retry, Forget, TypeOK, Looks
<1>3. to \notin Owners /\ to \notin Peering
  BY DEF Owners, Creating, Holding, Peering
<1> QED BY <1>1, <1>2, <1>3, Bystander DEF Peering, Numbered

(* The lock file goes, and nobody but p had it open.                       *)
LEMMA Removed ==
  ASSUME TypeOK, Safe, NEW p \in Proc, Gone(p), NEW to, to \notin Owners \cup Peering,
         pc' = [pc EXCEPT ![p] = to], UNCHANGED crashes, \A q \in Proc \ {p} : pc[q] \notin Owners
  PROVE  Safe'
<1>0. pc'[p] = to /\ \A q \in Proc \ {p} : pc'[q] = pc[q]
  BY DEF TypeOK
<1>1. \A q \in Proc : pc'[q] \notin Owners
  BY <1>0
<1>2. OneOwner' /\ OwnerOnDisk' /\ Named'
  BY <1>1 DEF OneOwner, OwnerOnDisk, Named, Gone
<1>3. LookedAt'
  <2>1. ASSUME NEW q \in Proc \ moved' PROVE pc'[q] \notin Peering
    BY <1>0, <2>1 DEF Gone
  <2> QED BY <2>1 DEF LookedAt, Peering, Numbered
<1>4. Claimed'
  <2>1. to \notin {"unlink", "fb_unlink"}
    BY DEF Peering
  <2> QED BY <1>0, <2>1 DEF Safe, Claimed, Gone
<1> QED BY <1>2, <1>3, <1>4 DEF Safe

(* The lock file is gone after its owner's last use of it.                 *)
LEMMA OwnerLeaves ==
  ASSUME TypeOK, Safe, NEW p \in Proc, pc[p] \in Owners, Gone(p),
         pc' = [pc EXCEPT ![p] = "left"], UNCHANGED crashes
  PROVE  Safe'
<1>1. \A q \in Proc \ {p} : pc[q] \notin Owners
  BY DEF Safe, OneOwner
<1>2. "left" \notin Owners \cup Peering
  BY DEF Owners, Creating, Holding, Peering
<1> QED BY <1>1, <1>2, Removed

(* Whoever has a fresh file's number has seen the last file go.            *)
LEMMA OpenSafe ==
  ASSUME TypeOK, Safe, NEW p \in Proc, Open(p)
  PROVE  Safe'
<1> USE DEF disk, local, budgets, history
<1>1. CASE path # NoFile
  BY <1>1, Bystander DEF Open, Goto, Owners, Creating, Holding, Peering, Numbered
<1>2. CASE path = NoFile
  <2>1. PICK f \in Free : path' = f /\ fd' = [fd EXCEPT ![p] = f]
    BY <1>2 DEF Open
  <2>2. f \in File /\ f # NoFile
    BY <2>1, OnboardNames DEF Free
  <2>3. /\ pc[p] = "open" /\ pc' = [pc EXCEPT ![p] = "write"]
        /\ text' = NoText /\ old' = FALSE /\ UNCHANGED <<seen, ino, life, moved, crashes>>
    BY <1>2 DEF Open, Goto
  <2>4. \A q \in Proc : pc[q] \notin Owners
    BY <1>2 DEF Safe, OwnerOnDisk
  <2>5. \A q \in Proc : pc'[q] \in Owners <=> q = p
    BY <2>3, <2>4 DEF TypeOK, Owners, Creating
  <2>6. OneOwner' /\ Named'
    BY <2>3, <2>5 DEF OneOwner, Named
  <2>7. OwnerOnDisk'
    BY <2>1, <2>2, <2>3, <2>5 DEF OwnerOnDisk, TypeOK, Holding
  <2>8. LookedAt'
    <3>1. ASSUME NEW q \in Proc \ moved PROVE pc'[q] \notin Peering
      BY <1>2, <2>3 DEF TypeOK, Safe, LookedAt, Peering
    <3> QED BY <2>3, <3>1 DEF LookedAt, Peering, Numbered
  <2>9. Claimed'
    BY <2>3, <2>5 DEF TypeOK, Safe, Claimed
  <2> QED BY <2>6, <2>7, <2>8, <2>9 DEF Safe
<1> QED BY <1>1, <1>2

(* Nobody has judged a file that is being written.                         *)
LEMMA WriteSafe ==
  ASSUME TypeOK, Safe, NEW p \in Proc, Write(p)
  PROVE  Safe'
<1> USE DEF disk, local, budgets, history
<1>1. /\ pc[p] = "write" /\ pc[p] \in Owners /\ fd[p] = path /\ path # NoFile
      /\ text = NoText /\ ~old
  BY DEF Write, Goto, Safe, OwnerOnDisk, Owners, Creating
<1>2. \A q \in Proc : pc[q] \in Owners => q = p
  BY <1>1 DEF Safe, OneOwner
<1>3. PICK to \in {"held", "w_unlink"} : pc' = [pc EXCEPT ![p] = to]
  BY DEF Write, Goto
<1>4. \A q \in Proc : pc'[q] \in Owners <=> q = p
  BY <1>1, <1>2, <1>3 DEF TypeOK, Owners, Creating, Holding
<1>5. UNCHANGED <<path, seen, ino, life, moved, crashes>> /\ ~old'
  BY <1>1 DEF Write, Fault
<1>6. OneOwner'
  BY <1>4 DEF OneOwner
<1>7. OwnerOnDisk' /\ Named'
  <2>1. to = "held" => text' = Mine(p) /\ fd' = fd
    BY <1>1, <1>3 DEF Write, Goto, TypeOK
  <2>2. to = "w_unlink" => text' = text
    BY <1>1, <1>3 DEF Write, Goto, TypeOK
  <2> QED BY <1>1, <1>3, <1>4, <1>5, <2>1, <2>2
          DEF OwnerOnDisk, TypeOK, Creating, Holding, Mine, Named
<1>8. LookedAt'
  <2>1. ASSUME NEW q \in Proc \ moved, q # p
        PROVE  pc[q] \notin {"check", "verify", "unlink", "fb_unlink"}
    <3>1. text.pid \notin Proc
      BY <1>1, OnboardNames DEF NoText
    <3> QED BY <1>1, <2>1, <3>1 DEF Safe, LookedAt
  <2>2. ASSUME NEW q \in Proc \ moved
        PROVE  /\ pc'[q] \in Peering => path # NoFile /\ pc'[q] \in {"read", "malformed"}
               /\ pc'[q] \in Numbered => path = ino[q]
    <3>1. CASE q = p
      BY <1>3, <3>1 DEF TypeOK, Peering, Numbered
    <3>2. CASE q # p
      BY <1>3, <2>1, <3>2 DEF TypeOK, Safe, LookedAt, Peering, Numbered
    <3> QED BY <3>1, <3>2
  <2> QED BY <1>5, <2>2 DEF LookedAt, Peering
<1>9. Claimed'
  BY <1>3, <1>4, <1>5 DEF TypeOK, Safe, Claimed
<1> QED BY <1>6, <1>7, <1>8, <1>9 DEF Safe

LEMMA ReadSafe ==
  ASSUME TypeOK, Safe, NEW p \in Proc, Read(p)
  PROVE  Safe'
<1> USE DEF disk, local, budgets, history
<1>1. CASE Retry(p, "read") /\ Looks(p)
  BY <1>1, RetrySafe DEF Read, Owners, Creating, Holding
<1>2. CASE /\ path # NoFile /\ Goto(p, "read", IF text = NoText THEN "malformed" ELSE "check")
           /\ seen' = [seen EXCEPT ![p] = text] /\ UNCHANGED <<ino, try, moved>>
  <2> DEFINE to == IF text = NoText THEN "malformed" ELSE "check"
  <2>1. /\ pc[p] = "read" /\ ino' = ino /\ seen' = [seen EXCEPT ![p] = text]
        /\ pc' = [pc EXCEPT ![p] = to] /\ UNCHANGED <<disk, life, crashes, moved>>
    BY <1>2 DEF Read, Goto
  <2>2. seen'[p] = text /\ \A q \in Proc \ {p} : seen'[q] = seen[q] /\ ino'[q] = ino[q]
    BY <2>1 DEF TypeOK
  <2>3. p \notin moved => path = ino[p]
    BY <2>1 DEF Safe, LookedAt, Numbered, Peering
  <2>4. /\ pc[p] \notin Owners /\ to \notin Owners /\ to \in {"malformed", "check"}
        /\ to = "malformed" => text = NoText
        /\ to = "check" => text # NoText
    BY <2>1 DEF Owners, Creating, Holding
  <2> HIDE DEF to
  <2> QED BY <1>2, <2>1, <2>2, <2>3, <2>4, Bystander
<1> QED BY <1>1, <1>2 DEF Read

(* A young malformed file may have an owner, an old one has none.          *)
LEMMA MalformedSafe ==
  ASSUME TypeOK, Safe, NEW p \in Proc, Malformed(p)
  PROVE  Safe'
<1> USE DEF disk, local, budgets, history
<1>1. CASE Retry(p, "malformed") /\ Looks(p)
  BY <1>1, RetrySafe DEF Malformed, Owners, Creating, Holding
<1>2. CASE path # NoFile /\ old /\ Goto(p, "malformed", "verify") /\ UNCHANGED <<local, moved>>
  <2> DEFINE to == "verify"
  <2>1. pc[p] = "malformed" /\ pc' = [pc EXCEPT ![p] = to] /\ UNCHANGED <<disk, local, life, crashes, moved>>
    BY <1>2 DEF Malformed, Goto
  <2>2. p \notin moved => path = ino[p] /\ \A q \in Proc : pc[q] \notin Owners
    <3> SUFFICES ASSUME p \notin moved, NEW q \in Proc, pc[q] \in Owners PROVE path = ino[p] /\ FALSE
      BY <2>1 DEF Safe, LookedAt, Numbered, Peering
    <3>1. path = ino[p] /\ text = NoText
      BY <1>2, <2>1 DEF Safe, LookedAt, Numbered, Peering
    <3>2. pc[q] \in Holding => text = Mine(q)
      BY DEF Safe, OwnerOnDisk
    <3>3. pc[q] \in Creating => ~old
      BY DEF Safe, OwnerOnDisk, Owners
    <3> QED BY <1>2, <3>1, <3>2, <3>3, TextType DEF Owners
  <2>3. /\ pc[p] \notin Owners /\ to \notin Owners
        /\ to \notin {"malformed", "check", "unlink", "fb_unlink"}
    BY <2>1 DEF Owners, Creating, Holding
  <2> HIDE DEF to
  <2> QED BY <1>2, <2>1, <2>2, <2>3, Bystander
<1> QED BY <1>1, <1>2 DEF Malformed

(* A holder that is alive is recognised, so that whoever finds the holder  *)
(* gone has read a file that nobody has open, or that is gone.             *)
LEMMA CheckSafe ==
  ASSUME TypeOK, Safe, NEW p \in Proc, Check(p)
  PROVE  Safe'
<1> USE DEF disk, local, budgets, history
<1>1. CASE Goto(p, "check", "refused") /\ Forget(p) /\ Looks(p)
  <2> DEFINE to == "refused"
  <2>1. \A q \in Proc \ {p} : seen'[q] = seen[q] /\ ino'[q] = ino[q] /\ (q \in moved <=> q \in moved')
    BY <1>1 DEF Forget, TypeOK, Looks
  <2>2. pc[p] = "check" /\ pc' = [pc EXCEPT ![p] = to] /\ UNCHANGED <<disk, life, crashes>>
    BY <1>1 DEF Check, Goto
  <2>3. pc[p] \notin Owners /\ to \notin Owners /\ to \notin Peering
    BY <2>2 DEF Owners, Creating, Holding, Peering
  <2> HIDE DEF to
  <2> QED BY <2>1, <2>2, <2>3, Bystander DEF Peering, Numbered
<1>2. CASE Goto(p, "check", "verify") /\ ~StillMatches(p) /\ UNCHANGED <<local, moved>>
  <2> DEFINE to == "verify"
  <2>1. pc[p] = "check" /\ pc' = [pc EXCEPT ![p] = to] /\ UNCHANGED <<disk, local, life, crashes, moved>>
    BY <1>2 DEF Check, Goto
  <2>2. p \notin moved => path # NoFile /\ path = ino[p] /\ \A q \in Proc : pc[q] \notin Owners
    <3> SUFFICES ASSUME p \notin moved PROVE path # NoFile /\ path = ino[p] /\ \A q \in Proc : pc[q] \notin Owners
      OBVIOUS
    <3>1. path # NoFile /\ path = ino[p] /\ text = seen[p] /\ text # NoText
      BY <2>1 DEF Safe, LookedAt, Numbered, Peering
    <3>2. ASSUME NEW q \in Proc, pc[q] \in Owners PROVE FALSE
      <4>1. pc[q] \in Holding /\ seen[p] = Mine(q)
        BY <3>1, <3>2, HolderNamed
      <4>2. pc[seen[p].pid] # "gone" /\ life[seen[p].pid] = seen[p].life
        BY <4>1 DEF Mine, Holding
      <4> QED BY <1>2, <4>2 DEF StillMatches
    <3> QED BY <3>1, <3>2
  <2>3. /\ pc[p] \notin Owners /\ to \notin Owners
        /\ to \notin {"malformed", "check", "unlink", "fb_unlink"}
    BY <2>1 DEF Owners, Creating, Holding
  <2> HIDE DEF to
  <2> QED BY <2>1, <2>2, <2>3, Bystander
<1> QED BY <1>1, <1>2 DEF Check

(* The file that has the number still is the one judged, or a mistake is   *)
(* made.                                                                   *)
LEMMA VerifySafe ==
  ASSUME TypeOK, Safe, NEW p \in Proc, Verify(p), ~fooled'
  PROVE  Safe'
<1> USE DEF disk, local, budgets, history
<1>1. CASE Retry(p, "verify")
  BY <1>1, RetrySafe DEF Verify, Owners, Creating, Holding
<1>2. CASE path # NoFile /\ path = ino[p] /\ Goto(p, "verify", "unlink") /\ Mistakes(p) /\ UNCHANGED local
  <2> DEFINE to == "unlink"
  <2>1. /\ pc[p] = "verify" /\ pc' = [pc EXCEPT ![p] = to] /\ UNCHANGED <<disk, local, life, crashes>>
        /\ \A q \in Proc \ {p} : q \in moved <=> q \in moved'
    BY <1>2 DEF Verify, Goto, Looks
  <2>2. p \notin moved
    BY <1>2 DEF Mistakes
  <2>3. path # NoFile
    BY <1>2
  <2>4. \A q \in Proc : pc[q] \notin Owners
    BY <2>1, <2>2, <2>3 DEF Safe, LookedAt
  <2>5. crashes # 0
    BY <2>3, <2>4, FileOwned
  <2>6. pc[p] \notin Owners /\ to \notin Owners /\ to \notin {"malformed", "check", "verify", "fb_unlink"}
    BY <2>1 DEF Owners, Creating, Holding
  <2> HIDE DEF to
  <2> QED BY <1>2, <2>1, <2>3, <2>4, <2>5, <2>6, Bystander
<1> QED BY <1>1, <1>2 DEF Verify

(* Nobody has open what a contender unlinks, or a mistake is made.         *)
LEMMA TakenAway ==
  ASSUME TypeOK, Safe, NEW p \in Proc, pc[p] \in {"unlink", "fb_unlink"},
         Mistakes(p), ~fooled', NEW q \in Proc
  PROVE  pc[q] \notin Owners
<1> SUFFICES ASSUME pc[q] \in Owners PROVE FALSE
  OBVIOUS
<1>1. p \notin moved
  BY DEF Mistakes, Safe, OwnerOnDisk
<1>2. pc[p] = "fb_unlink" /\ text.pid = p
  BY <1>1 DEF Safe, LookedAt
<1>3. text # NoText
  BY <1>2, OnboardNames DEF NoText
<1>4. text = Mine(q)
  BY <1>3, HolderNamed
<1>5. p = q
  BY <1>2, <1>4 DEF Mine
<1> QED BY <1>2, <1>5 DEF Owners, Creating, Holding

LEMMA UnlinkSafe ==
  ASSUME TypeOK, Safe, NEW p \in Proc, Unlink(p) \/ FallbackUnlink(p), ~fooled'
  PROVE  Safe'
<1> USE DEF budgets
<1>1. /\ pc[p] \in {"unlink", "fb_unlink"} /\ Gone(p) /\ Mistakes(p) /\ UNCHANGED crashes
      /\ \E to \in {"open", "refused", "left"} : pc' = [pc EXCEPT ![p] = to]
  BY DEF Unlink, FallbackUnlink, Retry, Goto
<1>2. \A q \in Proc : pc[q] \notin Owners
  BY <1>1, TakenAway
<1>3. \A to \in {"open", "refused", "left"} : to \notin Owners \cup Peering
  BY DEF Owners, Creating, Holding, Peering
<1> QED BY <1>1, <1>2, <1>3, Removed

LEMMA AcquireSafe ==
  ASSUME TypeOK, Safe, NEW p \in Proc, Acquire(p), ~fooled'
  PROVE  Safe'
<1> USE DEF disk, local, budgets, history
<1>1. CASE Begin(p)
  BY <1>1, Bystander DEF Begin, Goto, Owners, Creating, Holding, Peering, Numbered
<1>2. CASE WriteUnlink(p)
  BY <1>2, OwnerLeaves DEF WriteUnlink, Goto, Owners, Creating
<1>3. CASE Stat(p)
  <2>1. CASE Retry(p, "stat")
    BY <1>3, <2>1, RetrySafe DEF Stat, Owners, Creating, Holding
  <2>2. CASE path # NoFile /\ Goto(p, "stat", "read") /\ ino' = [ino EXCEPT ![p] = path] /\ UNCHANGED <<seen, try>>
    <3> DEFINE to == "read"
    <3>1. /\ pc[p] = "stat" /\ pc' = [pc EXCEPT ![p] = to] /\ UNCHANGED <<disk, seen, life, crashes>>
          /\ \A q \in Proc \ {p} : q \in moved <=> q \in moved'
      BY <1>3, <2>2 DEF Stat, Goto, Looks
    <3>2. ino'[p] = path /\ \A q \in Proc \ {p} : ino'[q] = ino[q]
      BY <2>2 DEF TypeOK
    <3>3. /\ pc[p] \notin Owners /\ to \notin Owners
          /\ to \notin {"malformed", "check", "verify", "unlink", "fb_unlink"}
      BY <3>1 DEF Owners, Creating, Holding
    <3> HIDE DEF to
    <3> QED BY <2>2, <3>1, <3>2, <3>3, Bystander
  <2> QED BY <1>3, <2>1, <2>2 DEF Stat
<1> QED BY <1>1, <1>2, <1>3, OpenSafe, WriteSafe, ReadSafe, MalformedSafe, CheckSafe, VerifySafe, UnlinkSafe
        DEF Acquire

(* A step of the holder that leaves the file alone.                        *)
LEMMA HolderSafe ==
  ASSUME TypeOK, Safe, NEW p \in Proc, pc[p] \in Holding, NEW to \in Holding,
         pc' = [pc EXCEPT ![p] = to], UNCHANGED <<disk, local, life, moved, crashes>>
  PROVE  Safe'
<1> USE DEF disk, local
<1>1. \A q \in Proc : /\ pc'[q] \in Owners <=> pc[q] \in Owners
                      /\ pc'[q] \in Creating <=> pc[q] \in Creating
                      /\ pc'[q] \in Holding <=> pc[q] \in Holding
                      /\ pc'[q] \in Peering \/ pc'[q] \in {"w_unlink"} => pc'[q] = pc[q]
  BY DEF TypeOK, Owners, Creating, Holding, Peering
<1>2. OneOwner' /\ Named' /\ Claimed'
  BY <1>1 DEF Safe, OneOwner, Named, Claimed, Peering
<1>3. OwnerOnDisk'
  <2> SUFFICES ASSUME NEW q \in Proc, pc'[q] \in Owners
               PROVE /\ path' # NoFile
                     /\ pc'[q] # "w_unlink" => fd'[q] = path'
                     /\ pc'[q] \in Creating => text' = NoText /\ ~old'
                     /\ pc'[q] \in Holding => text' = Mine(q)'
    BY DEF OwnerOnDisk
  <2>1. pc[q] = "w_unlink" => pc'[q] = "w_unlink"
    BY DEF TypeOK, Holding
  <2> QED BY <1>1, <2>1 DEF Safe, OwnerOnDisk, Mine
<1>4. LookedAt'
  <2>1. ASSUME NEW q \in Proc, pc'[q] \in Peering PROVE pc'[q] = pc[q]
    BY <1>1, <2>1
  <2> QED BY <1>1, <2>1 DEF Safe, LookedAt, Peering, Numbered
<1> QED BY <1>2, <1>3, <1>4 DEF Safe

LEMMA LetGoSafe ==
  ASSUME TypeOK, Safe, NEW p \in Proc, LetGo(p), ~fooled'
  PROVE  Safe'
<1> USE DEF disk, local, budgets, history
<1>1. CASE Release(p)
  BY <1>1, HolderSafe DEF Release, Goto, Holding
<1>2. CASE ReleaseStat(p)
  <2>1. pc[p] = "r_stat" /\ fd[p] = path
    BY <1>2 DEF ReleaseStat, Goto, Safe, OwnerOnDisk, Owners, Holding
  <2> QED BY <1>2, <2>1, HolderSafe DEF ReleaseStat, Goto, Holding
<1>3. CASE ReleaseUnlink(p)
  BY <1>3, OwnerLeaves DEF ReleaseUnlink, Goto, Owners, Holding
<1>4. CASE Fallback(p) \/ Return(p)
  BY <1>4, Bystander DEF Fallback, Return, Goto, Owners, Creating, Holding, Peering, Numbered
<1>5. CASE FallbackRead(p)
  <2>1. PICK to \in {"fb_unlink", "left"} :
          pc[p] = "fb_read" /\ pc' = [pc EXCEPT ![p] = to] /\ (to = "fb_unlink" => path # NoFile /\ text.pid = p)
    BY <1>5 DEF FallbackRead, Goto
  <2>2. UNCHANGED <<disk, local, life, crashes>> /\ \A q \in Proc \ {p} : q \in moved <=> q \in moved'
    BY <1>5 DEF FallbackRead, Looks
  <2>3. crashes = 0 => to # "fb_unlink"
    <3> SUFFICES ASSUME crashes = 0, path # NoFile, text.pid = p PROVE FALSE
      BY <2>1
    <3>1. PICK q \in Proc : pc[q] \in Owners
      BY FileOwned
    <3>2. text # NoText
      BY OnboardNames DEF NoText
    <3>3. q = p
      BY <3>1, <3>2, HolderNamed DEF Mine
    <3> QED BY <2>1, <3>1, <3>3 DEF Owners, Creating, Holding
  <2>4. /\ pc[p] \notin Owners /\ to \notin Owners /\ to \notin Numbered
        /\ to \notin {"malformed", "check", "verify", "unlink"}
    BY <2>1 DEF Owners, Creating, Holding, Numbered, Peering
  <2>5. to \in Peering => to = "fb_unlink"
    BY <2>4 DEF Numbered
  <2> QED BY <2>1, <2>2, <2>3, <2>4, <2>5, Bystander
<1> QED BY <1>1, <1>2, <1>3, <1>4, <1>5, UnlinkSafe DEF LetGo

(* A killed process leaves the file, and no owner.                         *)
LEMMA CrashSafe ==
  ASSUME TypeOK, Safe, NEW p \in Proc, Crash(p)
  PROVE  Safe'
<1>0. /\ pc' = [pc EXCEPT ![p] = "gone"] /\ UNCHANGED <<path, text, old, life>> /\ crashes' # 0
      /\ \A q \in Proc \ {p} : fd'[q] = fd[q] /\ seen'[q] = seen[q] /\ ino'[q] = ino[q]
                               /\ (q \in moved' <=> q \in moved)
  BY OnboardBounds DEF Crash, TypeOK, Forget, Looks
<1>1. \A q \in Proc : IF q = p THEN pc'[q] \notin Owners \cup Peering ELSE pc'[q] = pc[q]
  BY <1>0 DEF TypeOK, Owners, Creating, Holding, Peering
<1>2. OneOwner' /\ Named' /\ Claimed'
  BY <1>0, <1>1 DEF Safe, OneOwner, Named, Claimed
<1>3. OwnerOnDisk'
  BY <1>0, <1>1 DEF Safe, OwnerOnDisk, Mine
<1>4. LookedAt'
  <2> SUFFICES ASSUME NEW q \in Proc \ moved'
               PROVE /\ pc'[q] \in Peering => path # NoFile
                     /\ pc'[q] \in Numbered => path = ino'[q]
                     /\ pc'[q] = "malformed" /\ old => text = NoText
                     /\ pc'[q] = "check" => text = seen'[q] /\ text # NoText
                     /\ pc'[q] \in {"verify", "unlink"} => \A r \in Proc : pc'[r] \notin Owners
                     /\ pc'[q] = "fb_unlink" => text.pid = q
    BY <1>0 DEF LookedAt
  <2>1. CASE q = p
    BY <1>1, <2>1 DEF Peering, Numbered
  <2>2. CASE q # p
    BY <1>0, <1>1, <2>2 DEF Safe, LookedAt
  <2> QED BY <2>1, <2>2
<1> QED BY <1>2, <1>3, <1>4 DEF Safe

LEMMA StartSafe ==
  ASSUME TypeOK, Safe, NEW p \in Proc, Start(p)
  PROVE  Safe'
<1> USE DEF disk, local, budgets, history
<1>1. \A q \in Proc : pc'[q] = pc[q] \/ (q = p /\ pc[q] = "gone" /\ pc'[q] = "idle")
  BY DEF Start, Goto, TypeOK
<1>2. \A q \in Proc : pc[q] \in Owners => life'[q] = life[q]
  BY DEF Start, Goto, TypeOK, Owners, Creating, Holding
<1>3. \A q \in Proc : pc'[q] \in Owners <=> pc[q] \in Owners
  BY <1>1 DEF Owners, Creating, Holding
<1>4. OneOwner' /\ Named' /\ Claimed'
  BY <1>1, <1>3 DEF Start, Safe, OneOwner, Named, Claimed
<1>5. OwnerOnDisk'
  <2> SUFFICES ASSUME NEW q \in Proc, pc'[q] \in Owners
               PROVE /\ path' # NoFile
                     /\ pc'[q] # "w_unlink" => fd'[q] = path'
                     /\ pc'[q] \in Creating => text' = NoText /\ ~old'
                     /\ pc'[q] \in Holding => text' = Mine(q)'
    BY DEF OwnerOnDisk
  <2>1. pc'[q] = pc[q] /\ pc[q] \in Owners /\ life'[q] = life[q]
    BY <1>1, <1>2, <1>3 DEF Owners, Creating, Holding
  <2> QED BY <2>1 DEF Start, Safe, OwnerOnDisk, Mine
<1>6. LookedAt'
  BY <1>1, <1>3 DEF Start, Safe, LookedAt, Peering, Numbered
<1> QED BY <1>4, <1>5, <1>6 DEF Safe

LEMMA SafeNext ==
  ASSUME TypeOK, Safe, [Next]_vars, Prompt, ~fooled' PROVE Safe'
<1> USE DEF disk, local, budgets, history
<1>1. CASE \E p \in Proc : Acquire(p) \/ LetGo(p) \/ Start(p) \/ Crash(p)
  BY <1>1, AcquireSafe, LetGoSafe, StartSafe, CrashSafe
<1>2. ASSUME NEW p \in Proc, Quit(p) PROVE Safe'
  BY <1>2, Bystander DEF Quit, Goto, Owners, Creating, Holding, Peering, Numbered
<1>3. CASE Age
  <2>1. \A p \in Proc : pc[p] \notin Creating /\ pc[p] # "malformed"
    BY <1>3 DEF Age, Outside, Creating
  <2> QED BY <1>3, <2>1 DEF Age, Safe, OneOwner, OwnerOnDisk, Named, LookedAt, Claimed, Mine
<1>4. CASE UNCHANGED vars
  BY <1>4 DEF vars, Safe, OneOwner, OwnerOnDisk, Named, LookedAt, Claimed, Mine
<1> QED BY <1>1, <1>2, <1>3, <1>4 DEF Next

(***************************************************************************)
(* What a mistake takes.                                                   *)
(***************************************************************************)
(* A file that comes has a number that no contender has seen, where the    *)
(* file system gives none twice.                                           *)
LEMMA NumbersNext ==
  ASSUME TypeOK, Numbers, [Next]_vars PROVE Numbers'
<1> USE DEF disk, local, budgets, history
<1> SUFFICES ASSUME ~ReuseInode, NEW p \in moved', pc'[p] \in Numbered, path' # NoFile
             PROVE  path' # ino'[p]
  BY DEF Numbers
<1>1. CASE UNCHANGED vars
  BY <1>1 DEF vars, Numbers
<1>2. CASE Age
  BY <1>2 DEF Age, Numbers
<1>3. ASSUME NEW q \in Proc, Acquire(q) \/ LetGo(q) \/ Start(q) \/ Quit(q) \/ Crash(q)
      PROVE  path' # ino'[p]
  <2>1. ~Gone(q)
    BY DEF Gone
  <2>2. p \in moved /\ p \in Proc
    BY <1>3, <2>1 DEF TypeOK, Acquire, LetGo, Begin, Open, Write, WriteUnlink, Stat, Read, Malformed, Check, Verify,
       Unlink, Release, ReleaseStat, ReleaseUnlink, Fallback, FallbackRead, FallbackUnlink, Return, Start, Quit,
       Crash, Looks
  <2>3. CASE p = q
    <3>1. \E to : pc' = [pc EXCEPT ![p] = to] /\ to \in Numbered
      BY <1>3, <2>1, <2>2, <2>3 DEF TypeOK, Acquire, LetGo, Begin, Open, Write, WriteUnlink, Stat, Read, Malformed,
         Check, Verify, Unlink, Retry, Release, ReleaseStat, ReleaseUnlink, Fallback, FallbackRead, FallbackUnlink,
         Return, Start, Quit, Crash, Goto
    <3>2. ~Looks(p)
      BY DEF Looks
    <3>3. Read(p) \/ Malformed(p) \/ Check(p)
      BY <1>3, <2>1, <2>2, <2>3, <3>1, <3>2 DEF TypeOK, Acquire, LetGo, Begin, Open, Write, WriteUnlink, Stat, Verify,
         Unlink, Release, ReleaseStat, ReleaseUnlink, Fallback, FallbackRead, FallbackUnlink,
         Return, Start, Quit, Crash, Goto, Numbered, Peering
    <3>4. UNCHANGED <<path, ino>> /\ pc[p] \in Numbered
      BY <3>2, <3>3 DEF Read, Malformed, Check, Goto, Numbered, Peering
    <3> QED BY <2>2, <3>4 DEF Numbers
  <2>4. CASE p # q
    <3>1. pc'[p] = pc[p] /\ ino'[p] = ino[p]
      BY <1>3, <2>2, <2>4 DEF TypeOK, Acquire, LetGo, Begin, Open, Write, WriteUnlink, Stat, Read, Malformed, Check,
         Verify, Unlink, Retry, Forget, Release, ReleaseStat, ReleaseUnlink, Fallback, FallbackRead, FallbackUnlink,
         Return, Start, Quit, Crash, Goto
    <3>2. CASE Open(q) /\ path = NoFile
      <4>1. path' \in Free
        BY <3>2 DEF Open
      <4> QED BY <2>2, <3>1, <4>1 DEF Free
    <3>3. CASE ~(Open(q) /\ path = NoFile)
      <4>1. path' = path
        BY <1>3, <2>1, <3>3 DEF Acquire, LetGo, Begin, Open, Write, WriteUnlink, Stat, Read, Malformed, Check,
           Verify, Unlink, Release, ReleaseStat, ReleaseUnlink, Fallback, FallbackRead, FallbackUnlink,
           Return, Start, Quit, Crash
      <4> QED BY <2>2, <3>1, <4>1 DEF Numbers
    <3> QED BY <3>2, <3>3
  <2> QED BY <2>3, <2>4
<1> QED BY <1>1, <1>2, <1>3 DEF Next

LEMMA MistakenNext ==
  ASSUME TypeOK, Numbers, Mistaken, ~fooled => Safe, [Next]_vars PROVE Mistaken'
<1> USE DEF disk, local, budgets, history
<1> SUFFICES ASSUME fooled', ~ReuseInode, ~(crashes' > 0) PROVE FALSE
  BY DEF Mistaken
<1>1. crashes' = crashes \/ crashes' = crashes + 1
  BY DEF Next, vars, Acquire, LetGo, Begin, Open, Write, WriteUnlink, Stat, Read,
     Malformed, Check, Verify, Unlink, Release, ReleaseStat, ReleaseUnlink, Fallback,
     FallbackRead, FallbackUnlink, Return, Start, Quit, Crash, Age, Fault
<1>2. crashes = 0
  BY <1>1, OnboardBounds DEF TypeOK
<1>3. ~fooled /\ Safe
  BY <1>2 DEF Mistaken
<1>4. PICK p \in Proc : /\ p \in moved /\ path # NoFile
                       /\ \/ Verify(p) /\ path = ino[p] /\ pc[p] = "verify"
                          \/ pc[p] \in {"unlink", "fb_unlink"}
  BY <1>3 DEF Next, vars, Acquire, LetGo, Begin, Open, Write, WriteUnlink, Stat, Read,
     Malformed, Check, Verify, Unlink, Release, ReleaseStat, ReleaseUnlink, Fallback,
     FallbackRead, FallbackUnlink, Return, Start, Quit, Crash, Age, Mistakes, Retry, Goto
<1>5. pc[p] \notin {"unlink", "fb_unlink"}
  BY <1>2, <1>3 DEF Safe, Claimed
<1>6. pc[p] # "verify" \/ path # ino[p]
  BY <1>4 DEF Numbers, Numbered, Peering
<1> QED BY <1>4, <1>5, <1>6

LEMMA InvNext == OnboardIInv /\ [Next]_vars /\ Prompt => OnboardIInv'
<1> SUFFICES ASSUME OnboardIInv, [Next]_vars, Prompt PROVE OnboardIInv'
  OBVIOUS
<1>1. TypeOK' /\ Numbers' /\ Mistaken'
  BY TypeNext, NumbersNext, MistakenNext DEF OnboardIInv
<1>2. fooled => fooled'
  BY DEF OnboardIInv, TypeOK, Next, vars, Acquire, LetGo, Begin, Open, Write, WriteUnlink, Stat, Read,
     Malformed, Check, Verify, Unlink, Release, ReleaseStat, ReleaseUnlink, Fallback,
     FallbackRead, FallbackUnlink, Return, Start, Quit, Crash, Age, Mistakes, history
<1>3. ~fooled' => Safe'
  BY <1>2, SafeNext DEF OnboardIInv
<1> QED BY <1>1, <1>3 DEF OnboardIInv

(* Whoever is killed, and whether or not inode numbers are given again:    *)
(* until a file is unlinked that was not the one judged, the file on disk  *)
(* is the one its only creator has open, and a contender that takes a file *)
(* for stale has looked at one that nobody has open, or that is gone,      *)
(* provided nobody is suspended for 30 s inside an operation on the lock.  *)
(* And such a file is unlinked only where a number is given again, or      *)
(* after a process was killed.                                             *)
THEOREM OnboardInvariant == ASSUME Prompt PROVE Spec => []OnboardIInv
<1>1. Init => OnboardIInv
  <2> SUFFICES ASSUME Init PROVE OnboardIInv
    OBVIOUS
  <2>1. \A p \in Proc : pc[p] = "gone"
    BY DEF Init
  <2>2. OneOwner /\ OwnerOnDisk /\ Named /\ LookedAt /\ Claimed /\ Numbers /\ Mistaken
    BY <2>1 DEF Init, OneOwner, OwnerOnDisk, Named, LookedAt, Claimed, Numbers, Mistaken, Owners, Creating, Holding,
       Peering, Numbered
  <2> QED BY <2>2, TypeInit DEF OnboardIInv, Safe
<1>2. OnboardIInv /\ [Next]_vars => OnboardIInv'
  BY InvNext
<1> QED BY <1>1, <1>2, PTL DEF Spec

(* Two onboarding runs never hold the lock together until then, under the  *)
(* same premise.                                                           *)
THEOREM OnboardExcludes == ASSUME Prompt PROVE Spec => []OneOnboarding
<1>1. OnboardIInv => OneOnboarding
  BY DEF OnboardIInv, Safe, OneOnboarding, OneOwner, Owners
<1> QED BY <1>1, OnboardInvariant, PTL

(* As long as no process is killed they never do at all, where the file    *)
(* system does not give a number a contender has seen to another file.     *)
THEOREM OnboardUnmistaken ==
  ASSUME Prompt, ~ReuseInode
  PROVE  Spec => [](crashes = 0 => \A p, q \in Proc : pc[p] \in Holding /\ pc[q] \in Holding => p = q)
<1>1. OnboardIInv /\ crashes = 0 => \A p, q \in Proc : pc[p] \in Holding /\ pc[q] \in Holding => p = q
  BY DEF OnboardIInv, Mistaken, Safe, OneOwner, Owners
<1> QED BY <1>1, OnboardInvariant, PTL

(***************************************************************************)
(* A lone run gets the lock.                                               *)
(***************************************************************************)
(* A file that names a process with its present start is that process's,   *)
(* which holds it open: a dead or earlier one is told apart by its start.  *)
HolderKnown == path # NoFile /\ text # NoText =>
  /\ text.pid \in Proc /\ text.life <= life[text.pid]
  /\ text.life = life[text.pid] /\ pc[text.pid] # "gone" =>
       pc[text.pid] \in Holding /\ fd[text.pid] = path
OpenFirst == \A q \in Proc :
  /\ pc[q] \notin Looking => try[q] = 1
  /\ pc[q] = "write" => fd[q] # NoFile

(* What a lone run has seen is there: at its second attempt, nothing is.   *)
OnItsOwn(p) ==
  /\ \A q \in Proc \ {p} : pc[q] \in Outside
  /\ pc[p] # "refused"
  /\ pc[p] = "open" => try[p] = 1 \/ path = NoFile
  /\ pc[p] \in Looking /\ path # NoFile => text.pid # p /\ (text = NoText => old)
  /\ pc[p] \in Looking \ {"open"} => path # NoFile /\ try[p] = 1
  /\ pc[p] \in Looking \ {"open", "stat"} => ino[p] = path
  /\ pc[p] = "malformed" => text = NoText
  /\ pc[p] = "check" => text # NoText /\ seen[p] = text

LoneIInv == TypeOK /\ HolderKnown /\ OpenFirst /\ \A p \in alone : OnItsOwn(p)

(* A step that leaves what the file says alone: who it names goes on       *)
(* holding it, dies, or is not the one that moves.                         *)
LEMMA HolderSame ==
  ASSUME TypeOK, HolderKnown, NEW p \in Proc, NEW to, pc' = [pc EXCEPT ![p] = to],
         UNCHANGED <<path, text, life>>, pc[p] # "gone",
         \A q \in Proc \ {p} : fd'[q] = fd[q],
         \/ pc[p] \notin Holding \/ to = "gone"
         \/ to \in Holding /\ fd'[p] = fd[p]
         \/ fd[p] # path
  PROVE  HolderKnown'
<1> SUFFICES ASSUME path # NoFile, text # NoText
             PROVE  /\ text.pid \in Proc /\ text.life <= life[text.pid]
                    /\ text.life = life[text.pid] /\ pc'[text.pid] # "gone" =>
                         pc'[text.pid] \in Holding /\ fd'[text.pid] = path
  BY DEF HolderKnown
<1>1. text.pid \in Proc /\ text.life <= life[text.pid]
  BY DEF HolderKnown
<1>2. CASE text.pid # p
  BY <1>1, <1>2 DEF HolderKnown, TypeOK
<1>3. CASE text.pid = p
  BY <1>1, <1>3 DEF HolderKnown, TypeOK
<1> QED BY <1>1, <1>2, <1>3

LEMMA HolderErased == ASSUME NEW p, Gone(p) PROVE HolderKnown'
  BY DEF Gone, HolderKnown

LEMMA OpenKept ==
  ASSUME TypeOK, OpenFirst, NEW p \in Proc, NEW to, pc' = [pc EXCEPT ![p] = to],
         \A q \in Proc \ {p} : try'[q] = try[q] /\ fd'[q] = fd[q],
         to \notin Looking => try'[p] = 1, to = "write" => fd'[p] # NoFile
  PROVE  OpenFirst'
  BY DEF TypeOK, OpenFirst

LEMMA RetryKept ==
  ASSUME TypeOK, OpenFirst, HolderKnown, NEW p \in Proc, NEW from \in Looking, Retry(p, from), UNCHANGED fd
  PROVE  OpenFirst' /\ (UNCHANGED <<path, text, life>> => HolderKnown')
<1>1. PICK to \in {"open", "refused"} :
        pc[p] = from /\ pc' = [pc EXCEPT ![p] = to] /\ (to = "refused" => try' = [try EXCEPT ![p] = 1])
        /\ (to = "open" => try' = [try EXCEPT ![p] = @ + 1])
  BY DEF Retry, Goto
<1>2. to \notin Looking => to = "refused"
  BY DEF Looking
<1>3. \A q \in Proc \ {p} : try'[q] = try[q]
  BY <1>1 DEF TypeOK
<1>4. to = "refused" => try'[p] = 1
  BY <1>1 DEF TypeOK
<1>5. OpenFirst'
  BY <1>1, <1>2, <1>3, <1>4, OpenKept
<1>6. pc[p] \notin Holding /\ pc[p] # "gone"
  BY <1>1 DEF Looking, Holding
<1>7. UNCHANGED <<path, text, life>> => HolderKnown'
  BY <1>1, <1>6, HolderSame
<1> QED BY <1>5, <1>7

LEMMA AcquireKept ==
  ASSUME TypeOK, HolderKnown, OpenFirst, NEW p \in Proc, Acquire(p)
  PROVE  HolderKnown' /\ OpenFirst'
<1> USE DEF disk, local, budgets, history
<1>0. /\ {"open", "stat", "read", "malformed", "check", "verify", "unlink"} = Looking
      /\ \A x \in {"idle", "write", "w_unlink", "left", "refused", "held", "gone"} : x \notin Looking
  BY DEF Looking
<1>1. CASE Begin(p)
  <2>1. pc[p] = "idle" /\ pc' = [pc EXCEPT ![p] = "open"] /\ UNCHANGED <<path, text, life, fd, try>>
    BY <1>1 DEF Begin, Goto
  <2> QED BY <1>0, <2>1, HolderSame, OpenKept DEF Holding
<1>2. CASE Open(p)
  <2>1. CASE path = NoFile
    <3>1. PICK f \in Free : path' = f /\ fd' = [fd EXCEPT ![p] = f]
      BY <1>2, <2>1 DEF Open
    <3>2. text' = NoText /\ pc' = [pc EXCEPT ![p] = "write"] /\ try' = [try EXCEPT ![p] = 1] /\ f # NoFile
      BY <1>2, <2>1, OnboardNames DEF Open, Goto, Free
    <3>3. HolderKnown'
      BY <3>2 DEF HolderKnown, NoText
    <3>4. try'[p] = 1 /\ fd'[p] # NoFile /\ \A q \in Proc \ {p} : try'[q] = try[q] /\ fd'[q] = fd[q]
      BY <3>1, <3>2 DEF TypeOK
    <3> QED BY <3>2, <3>3, <3>4, OpenKept
  <2>2. CASE path # NoFile
    <3>1. pc[p] = "open" /\ pc' = [pc EXCEPT ![p] = "stat"] /\ UNCHANGED <<path, text, life, fd, try>>
      BY <1>2, <2>2 DEF Open, Goto
    <3> QED BY <1>0, <3>1, HolderSame, OpenKept DEF Holding
  <2> QED BY <2>1, <2>2
<1>3. CASE Write(p)
  <2>1. pc[p] = "write" /\ try[p] = 1 /\ fd[p] # NoFile /\ UNCHANGED <<path, life, try>>
    BY <1>0, <1>3 DEF Write, Goto, OpenFirst
  <2>2. CASE Goto(p, "write", "held") /\ UNCHANGED fd
    <3>1. pc' = [pc EXCEPT ![p] = "held"]
      BY <2>2 DEF Goto
    <3>2. OpenFirst'
      BY <2>1, <2>2, <3>1, OpenKept
    <3>3. CASE path = fd[p]
      <4>1. text' = Mine(p) /\ pc'[p] = "held" /\ fd'[p] = path'
        BY <1>3, <2>1, <2>2, <3>1, <3>3 DEF Write, Goto, TypeOK
      <4>2. text'.pid = p /\ text'.life = life[p] /\ life[p] \in Nat
        BY <4>1, OnboardBounds DEF Mine, TypeOK
      <4>3. HolderKnown'
        BY <2>1, <4>1, <4>2 DEF HolderKnown, Holding
      <4> QED BY <3>2, <4>3
    <3>4. CASE path # fd[p]
      <4>1. text' = text
        BY <1>3, <2>1, <2>2, <3>1, <3>4 DEF Write, Goto, TypeOK
      <4>2. HolderKnown'
        BY <2>1, <2>2, <3>1, <3>4, <4>1, HolderSame
      <4> QED BY <3>2, <4>2
    <3> QED BY <3>3, <3>4
  <2>3. CASE Goto(p, "write", "w_unlink") /\ fd' = [fd EXCEPT ![p] = NoFile] /\ UNCHANGED <<text, old>>
    <3>1. pc' = [pc EXCEPT ![p] = "w_unlink"] /\ \A q \in Proc \ {p} : fd'[q] = fd[q]
      BY <2>3 DEF Goto, TypeOK
    <3> QED BY <2>1, <2>3, <3>1, HolderSame, OpenKept DEF Holding
  <2> QED BY <1>3, <2>2, <2>3 DEF Write
<1>4. CASE WriteUnlink(p)
  <2>1. /\ pc[p] = "w_unlink" /\ pc' = [pc EXCEPT ![p] = "left"] /\ UNCHANGED <<fd, try>> /\ Gone(p)
        /\ try[p] = 1
    BY <1>0, <1>4 DEF WriteUnlink, Goto, OpenFirst
  <2> QED BY <2>1, HolderErased, OpenKept
<1>5. CASE Stat(p) \/ Read(p) \/ Malformed(p) \/ Verify(p)
  <2>1. UNCHANGED <<path, text, life, fd>>
    BY <1>5 DEF Stat, Read, Malformed, Verify
  <2>2. CASE \E from \in Looking : Retry(p, from)
    BY <2>1, <2>2, RetryKept
  <2>3. CASE ~\E from \in Looking : Retry(p, from)
    <3>1. /\ UNCHANGED try /\ pc[p] \in Looking
          /\ \E to \in {"read", "malformed", "check", "verify", "unlink"} : pc' = [pc EXCEPT ![p] = to]
      BY <1>0, <1>5, <2>3 DEF Stat, Read, Malformed, Verify, Goto
    <3>2. pc[p] \notin Holding /\ pc[p] # "gone"
      BY <3>1 DEF Looking, Holding
    <3> QED BY <1>0, <2>1, <3>1, <3>2, HolderSame, OpenKept
  <2> QED BY <2>2, <2>3
<1>6. CASE Check(p)
  <2>1. /\ pc[p] = "check" /\ UNCHANGED <<path, text, life, fd>>
        /\ \/ pc' = [pc EXCEPT ![p] = "refused"] /\ try' = [try EXCEPT ![p] = 1]
           \/ pc' = [pc EXCEPT ![p] = "verify"] /\ try' = try
    BY <1>6 DEF Check, Goto
  <2>2. HolderKnown'
    BY <2>1, HolderSame DEF Holding
  <2>3. CASE pc' = [pc EXCEPT ![p] = "refused"] /\ try' = [try EXCEPT ![p] = 1]
    <3>1. try'[p] = 1 /\ \A q \in Proc \ {p} : try'[q] = try[q]
      BY <2>3 DEF TypeOK
    <3> QED BY <2>1, <2>2, <2>3, <3>1, OpenKept
  <2>4. CASE pc' = [pc EXCEPT ![p] = "verify"] /\ try' = try
    BY <1>0, <2>1, <2>2, <2>4, OpenKept
  <2> QED BY <2>1, <2>3, <2>4
<1>7. CASE Unlink(p)
  BY <1>0, <1>7, HolderErased, RetryKept DEF Unlink
<1> QED BY <1>1, <1>2, <1>3, <1>4, <1>5, <1>6, <1>7 DEF Acquire

LEMMA LetGoKept ==
  ASSUME TypeOK, HolderKnown, OpenFirst, NEW p \in Proc, LetGo(p)
  PROVE  HolderKnown' /\ OpenFirst'
<1> USE DEF disk, local, budgets, history
<1>1. UNCHANGED <<try, life>> /\ try[p] = 1 /\ pc[p] # "gone"
  BY DEF LetGo, Release, ReleaseStat, ReleaseUnlink, Fallback, FallbackRead, FallbackUnlink, Return, Goto,
         OpenFirst, Looking
<1>2. PICK to \in {"r_stat", "r_unlink", "left", "fb_read", "fb_unlink", "idle"} : pc' = [pc EXCEPT ![p] = to]
  BY DEF LetGo, Release, ReleaseStat, ReleaseUnlink, Fallback, FallbackRead, FallbackUnlink, Return, Goto
<1>3. \A q \in Proc \ {p} : fd'[q] = fd[q]
  BY DEF LetGo, Release, ReleaseStat, ReleaseUnlink, Fallback, FallbackRead, FallbackUnlink, Return, TypeOK
<1>4. OpenFirst'
  BY <1>1, <1>2, <1>3, OpenKept
<1>5. CASE ReleaseUnlink(p) \/ FallbackUnlink(p)
  BY <1>4, <1>5, HolderErased DEF ReleaseUnlink, FallbackUnlink
<1>6. CASE ~(ReleaseUnlink(p) \/ FallbackUnlink(p))
  <2>1. UNCHANGED <<path, text>>
    BY <1>6 DEF LetGo, Release, ReleaseStat, Fallback, FallbackRead, Return
  <2>2. \/ pc[p] \notin Holding \/ fd[p] # path
        \/ pc' = [pc EXCEPT ![p] = "r_stat"] /\ fd'[p] = fd[p]
        \/ pc' = [pc EXCEPT ![p] = "r_unlink"] /\ fd'[p] = fd[p]
    BY <1>6 DEF LetGo, Release, ReleaseStat, Fallback, FallbackRead, Return, Goto, Holding
  <2>3. "r_stat" \in Holding /\ "r_unlink" \in Holding
    BY DEF Holding
  <2>4. HolderKnown'
    BY <1>1, <1>2, <1>3, <2>1, <2>2, <2>3, HolderSame
  <2> QED BY <1>4, <2>4
<1> QED BY <1>5, <1>6

LEMMA WorldKept ==
  ASSUME TypeOK, HolderKnown, OpenFirst, (\E p \in Proc : Start(p) \/ Quit(p) \/ Crash(p)) \/ Age
  PROVE  HolderKnown' /\ OpenFirst'
<1> USE DEF disk, local, budgets, history
<1>1. ASSUME NEW p \in Proc, Start(p) PROVE HolderKnown' /\ OpenFirst'
  <2>1. /\ pc[p] = "gone" /\ pc' = [pc EXCEPT ![p] = "idle"] /\ life' = [life EXCEPT ![p] = @ + 1]
        /\ UNCHANGED <<path, text, fd, try>>
    BY <1>1 DEF Start, Goto
  <2>2. try[p] = 1
    BY <2>1 DEF OpenFirst, Looking
  <2>3. OpenFirst'
    BY <2>1, <2>2, OpenKept
  <2>4. \A q \in Proc : life[q] \in Nat
    BY OnboardBounds DEF TypeOK
  <2>5. HolderKnown'
    <3> SUFFICES ASSUME path # NoFile, text # NoText
                 PROVE  /\ text.pid \in Proc /\ text.life <= life'[text.pid]
                        /\ text.life = life'[text.pid] /\ pc'[text.pid] # "gone" =>
                             pc'[text.pid] \in Holding /\ fd[text.pid] = path
      BY <2>1 DEF HolderKnown
    <3>1. text.pid \in Proc /\ text.life <= life[text.pid] /\ text.life \in Nat
      BY OnboardBounds DEF HolderKnown, TypeOK, Text
    <3>2. CASE text.pid # p
      <4>1. life'[text.pid] = life[text.pid] /\ pc'[text.pid] = pc[text.pid]
        BY <2>1, <3>1, <3>2 DEF TypeOK
      <4> QED BY <3>1, <4>1 DEF HolderKnown
    <3>3. CASE text.pid = p
      <4>1. life'[p] = life[p] + 1
        BY <2>1 DEF TypeOK
      <4>2. text.life <= life'[p] /\ text.life # life'[p]
        BY <2>4, <3>1, <3>3, <4>1
      <4> QED BY <3>1, <3>3, <4>2
    <3> QED BY <3>2, <3>3
  <2> QED BY <2>3, <2>5
<1>2. ASSUME NEW p \in Proc, Quit(p) PROVE HolderKnown' /\ OpenFirst'
  <2>1. pc[p] = "idle" /\ pc' = [pc EXCEPT ![p] = "gone"] /\ UNCHANGED <<path, text, fd, try, life>>
    BY <1>2 DEF Quit, Goto
  <2>2. try[p] = 1
    BY <2>1 DEF OpenFirst, Looking
  <2> QED BY <2>1, <2>2, HolderSame, OpenKept
<1>3. ASSUME NEW p \in Proc, Crash(p) PROVE HolderKnown' /\ OpenFirst'
  <2>1. /\ pc[p] # "gone" /\ pc' = [pc EXCEPT ![p] = "gone"] /\ UNCHANGED <<path, text, life>>
        /\ fd' = [fd EXCEPT ![p] = NoFile] /\ try' = [try EXCEPT ![p] = 1]
    BY <1>3 DEF Crash, Outside
  <2>2. try'[p] = 1 /\ \A q \in Proc \ {p} : try'[q] = try[q] /\ fd'[q] = fd[q]
    BY <2>1 DEF TypeOK
  <2> QED BY <2>1, <2>2, HolderSame, OpenKept
<1>4. CASE Age
  BY <1>4 DEF Age, HolderKnown, OpenFirst
<1> QED BY <1>1, <1>2, <1>3, <1>4

(* A lone run knows that the process a file names is not there any more.   *)
LEMMA HolderGone ==
  ASSUME TypeOK, HolderKnown, ProcFs, NEW p \in Proc, OnItsOwn(p), pc[p] = "check"
  PROVE  ~StillMatches(p)
<1>1. path # NoFile /\ text # NoText /\ seen[p] = text /\ text.pid # p
  BY DEF OnItsOwn, Looking
<1>2. text.pid \in Proc \ {p}
  BY <1>1 DEF HolderKnown
<1>3. pc[text.pid] \in Outside
  BY <1>2 DEF OnItsOwn
<1>4. text.life = life[text.pid] => pc[text.pid] = "gone"
  BY <1>1, <1>3 DEF HolderKnown, Outside, Holding
<1> QED BY <1>1, <1>4 DEF StillMatches

(* A step of the lone run itself.                                          *)
LEMMA OwnStep ==
  ASSUME LoneIInv, ProcFs, MaxAttempts > 1, NEW p \in Proc, p \in alone, OnItsOwn(p),
         Acquire(p) \/ LetGo(p), ~Begin(p)
  PROVE  OnItsOwn(p)'
<1> USE DEF disk, local, budgets, history
<1>1. TypeOK /\ HolderKnown /\ OpenFirst
  BY DEF LoneIInv
<1>2. ASSUME NEW q \in Proc \ {p} PROVE pc'[q] = pc[q] /\ pc'[q] \in Outside
  <2>1. \E to : pc' = [pc EXCEPT ![p] = to]
    BY DEF Acquire, LetGo, Begin, Open, Write, WriteUnlink, Stat, Read, Malformed, Check, Verify, Unlink, Retry,
           Release, ReleaseStat, ReleaseUnlink, Fallback, FallbackRead, FallbackUnlink, Return, Goto
  <2> QED BY <1>1, <2>1 DEF TypeOK, OnItsOwn
<1>3. CASE LetGo(p)
  <2>1. pc'[p] \in {"r_stat", "r_unlink", "left", "fb_read", "fb_unlink", "idle"}
    BY <1>1, <1>3 DEF TypeOK, LetGo, Release, ReleaseStat, ReleaseUnlink, Fallback, FallbackRead, FallbackUnlink,
       Return, Goto
  <2> QED BY <1>2, <2>1 DEF OnItsOwn, Looking
<1>4. CASE Write(p) \/ WriteUnlink(p)
  <2>1. pc'[p] \in {"held", "w_unlink", "left"}
    BY <1>1, <1>4 DEF TypeOK, Write, WriteUnlink, Goto
  <2> QED BY <1>2, <2>1 DEF OnItsOwn, Looking
<1>5. CASE Open(p)
  <2>1. CASE path = NoFile
    <3>1. pc'[p] = "write"
      BY <1>1, <1>5, <2>1 DEF TypeOK, Open, Goto
    <3> QED BY <1>2, <3>1 DEF OnItsOwn, Looking
  <2>2. CASE path # NoFile
    <3>1. pc[p] = "open" /\ pc'[p] = "stat" /\ UNCHANGED <<path, text, old, try>>
      BY <1>1, <1>5, <2>2 DEF TypeOK, Open, Goto
    <3>2. "open" \in Looking
      BY DEF Looking
    <3> QED BY <1>2, <2>2, <3>1, <3>2 DEF OnItsOwn
  <2> QED BY <2>1, <2>2
<1>6. CASE Stat(p)
  <2>1. pc[p] = "stat" /\ UNCHANGED <<path, text, old>> /\ path # NoFile
    BY <1>6 DEF Stat, Retry, Goto, OnItsOwn, Looking
  <2>2. pc'[p] = "read" /\ ino'[p] = path /\ try' = try
    BY <1>1, <1>6, <2>1 DEF TypeOK, Stat, Goto
  <2> QED BY <1>2, <2>1, <2>2 DEF OnItsOwn, Looking
<1>7. CASE Read(p)
  <2>1. pc[p] = "read" /\ UNCHANGED <<path, text, old>> /\ path # NoFile
    BY <1>7 DEF Read, Retry, Goto, OnItsOwn, Looking
  <2>2. /\ pc'[p] = IF text = NoText THEN "malformed" ELSE "check"
        /\ ino' = ino /\ try' = try /\ seen'[p] = text
    BY <1>1, <1>7, <2>1 DEF TypeOK, Read, Goto
  <2> QED BY <1>2, <2>1, <2>2 DEF OnItsOwn, Looking
<1>8. CASE Malformed(p)
  <2>1. pc[p] = "malformed" /\ UNCHANGED <<path, text, old>> /\ path # NoFile /\ old
    BY <1>8 DEF Malformed, Retry, Goto, OnItsOwn, Looking
  <2>2. pc'[p] = "verify" /\ UNCHANGED local
    BY <1>1, <1>8, <2>1 DEF TypeOK, Malformed, Goto
  <2> QED BY <1>2, <2>1, <2>2 DEF OnItsOwn, Looking
<1>9. CASE Check(p)
  <2>1. pc[p] = "check" /\ UNCHANGED <<path, text, old>>
    BY <1>9 DEF Check, Goto
  <2>2. pc'[p] = "verify" /\ UNCHANGED local
    BY <1>1, <1>9, <2>1, HolderGone DEF TypeOK, Check, Goto
  <2> QED BY <1>2, <2>1, <2>2 DEF OnItsOwn, Looking
<1>10. CASE Verify(p)
  <2>1. pc[p] = "verify" /\ UNCHANGED <<path, text, old>> /\ path # NoFile /\ path = ino[p]
    BY <1>10 DEF Verify, Retry, Goto, OnItsOwn, Looking
  <2>2. pc'[p] = "unlink" /\ UNCHANGED local
    BY <1>1, <1>10, <2>1 DEF TypeOK, Verify, Goto
  <2> QED BY <1>2, <2>1, <2>2 DEF OnItsOwn, Looking
<1>11. CASE Unlink(p)
  <2>1. pc[p] = "unlink" /\ try[p] = 1
    BY <1>11 DEF Unlink, Retry, Goto, OnItsOwn, Looking
  <2>2. pc'[p] = "open" /\ path' = NoFile
    BY <1>1, <1>11, <2>1 DEF TypeOK, Unlink, Gone, Retry, Goto
  <2> QED BY <1>2, <2>2 DEF OnItsOwn, Looking
<1> QED BY <1>3, <1>4, <1>5, <1>6, <1>7, <1>8, <1>9, <1>10, <1>11 DEF Acquire

LEMMA LoneNext ==
  ASSUME LoneIInv, [Next]_vars, ProcFs, MaxAttempts > 1 PROVE LoneIInv'
<1> USE DEF disk, local, budgets, history
<1>1. TypeOK /\ HolderKnown /\ OpenFirst /\ TypeOK' /\ \A p \in alone : p \in Proc /\ OnItsOwn(p)
  BY TypeNext DEF LoneIInv, TypeOK
<1>2. CASE UNCHANGED vars
  BY <1>1, <1>2 DEF vars, LoneIInv, HolderKnown, OpenFirst, OnItsOwn
<1>3. CASE Next
  <2>1. HolderKnown' /\ OpenFirst'
    BY <1>1, <1>3, AcquireKept, LetGoKept, WorldKept DEF Next
  <2> SUFFICES ASSUME NEW p \in alone' PROVE OnItsOwn(p)'
    BY <1>1, <2>1 DEF LoneIInv
  <2>2. ASSUME NEW q \in Proc, Begin(q) PROVE OnItsOwn(p)'
    <3>1. p = q /\ Undisturbed(p)
      BY <2>2 DEF Begin
    <3>2. /\ pc[p] = "idle" /\ pc' = [pc EXCEPT ![p] = "open"] /\ UNCHANGED <<path, text, old, try>>
      BY <2>2, <3>1 DEF Begin, Goto
    <3>3. try[p] = 1
      BY <1>1, <2>2, <3>1, <3>2 DEF OpenFirst, Looking
    <3>4. pc'[p] = "open" /\ \A r \in Proc \ {p} : pc'[r] = pc[r]
      BY <1>1, <2>2, <3>1, <3>2 DEF TypeOK
    <3> QED BY <3>1, <3>2, <3>3, <3>4 DEF OnItsOwn, Undisturbed, Debris, Looking
  <2>3. CASE ~\E q \in Proc : Begin(q)
    <3>1. alone' = alone
      BY <1>3, <2>3 DEF Next, Acquire, LetGo, Open, Write, WriteUnlink, Stat, Read, Malformed, Check, Verify,
         Unlink, Release, ReleaseStat, ReleaseUnlink, Fallback, FallbackRead, FallbackUnlink, Return, Start, Quit,
         Crash, Age
    <3>2. p \in Proc /\ p \in alone /\ OnItsOwn(p)
      BY <1>1, <3>1
    <3>3. CASE Acquire(p) \/ LetGo(p)
      BY <2>3, <3>2, <3>3, OwnStep
    <3>4. ASSUME NEW q \in Proc \ {p}, Acquire(q) \/ LetGo(q) \/ Crash(q) PROVE FALSE
      <4>1. pc[q] \notin Outside
        BY <2>3, <3>4 DEF Acquire, LetGo, Open, Write, WriteUnlink, Stat, Read, Malformed, Check, Verify,
           Unlink, Retry, Release, ReleaseStat, ReleaseUnlink, Fallback, FallbackRead, FallbackUnlink, Return,
           Crash, Goto, Outside
      <4> QED BY <3>2, <4>1 DEF OnItsOwn
    <3>5. CASE Crash(p) \/ \E q \in Proc : Start(q) \/ Quit(q)
      <4>1. \A q \in Proc \ {p} : pc'[q] \in Outside
        BY <1>1, <3>2, <3>5 DEF Start, Quit, Crash, Goto, TypeOK, OnItsOwn, Outside
      <4>2. \/ pc'[p] \in Outside
            \/ pc'[p] = pc[p] /\ UNCHANGED <<disk, local>>
        BY <1>1, <3>2, <3>5 DEF Start, Quit, Crash, Goto, TypeOK, Outside
      <4>3. pc'[p] \in Outside => pc'[p] \notin Looking /\ pc'[p] # "refused"
        BY DEF Outside, Looking
      <4>4. \A x \in {"open", "malformed", "check"} : x \in Looking
        BY DEF Looking
      <4>5. CASE pc'[p] \in Outside
        BY <4>1, <4>3, <4>4, <4>5 DEF OnItsOwn
      <4>6. CASE pc'[p] = pc[p] /\ UNCHANGED <<disk, local>>
        BY <3>2, <4>1, <4>6 DEF OnItsOwn
      <4> QED BY <4>2, <4>5, <4>6
    <3>6. CASE Age
      BY <3>2, <3>6 DEF Age, OnItsOwn
    <3> QED BY <1>3, <3>2, <3>3, <3>4, <3>5, <3>6 DEF Next
  <2> QED BY <2>2, <2>3
<1> QED BY <1>2, <1>3

(* On a system whose process starts can be read, a run that begins while   *)
(* no other is under way, and that no other joins, is never refused: not   *)
(* by the file of a killed run, nor by one that was never written, nor by  *)
(* one whose pid another process has by now.  Two attempts are enough, of  *)
(* the five there are; nothing is asked of inode numbers or of time.       *)
THEOREM LoneCorrect == ASSUME ProcFs, MaxAttempts > 1 PROVE Spec => []LoneRunAcquires
<1>1. Init => LoneIInv
  <2> SUFFICES ASSUME Init PROVE LoneIInv
    OBVIOUS
  <2>1. HolderKnown /\ OpenFirst /\ \A p \in alone : OnItsOwn(p)
    BY DEF Init, HolderKnown, OpenFirst
  <2> QED BY <2>1, TypeInit DEF LoneIInv
<1>2. LoneIInv /\ [Next]_vars => LoneIInv'
  BY LoneNext
<1>3. LoneIInv => LoneRunAcquires
  BY DEF LoneIInv, LoneRunAcquires, OnItsOwn
<1> QED BY <1>1, <1>2, <1>3, PTL DEF Spec
=============================================================================
