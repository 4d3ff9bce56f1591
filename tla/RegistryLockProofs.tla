------------------------- MODULE RegistryLockProofs -------------------------
(* Theorems about RegistryLock, for every set of processes and sandboxes.  *)
EXTENDS RegistryLock, TLAPS

(***************************************************************************)
(* The registry's operations.                                              *)
(***************************************************************************)
LEMMA EmptyType == Atomic!Empty \in Atomic!Registries /\ NoOp \in Atomic!Op
  BY DEF Atomic!Empty, Atomic!Registries, NoOp, Atomic!Op

LEMMA OutcomesType ==
  ASSUME NEW o \in Atomic!Op, NEW r \in Atomic!Registries, Atomic!Applies(o, r)
  PROVE  Atomic!Outcomes(o, r) \subseteq Atomic!Registries
<1> USE DEF Atomic!Registries
<1>1. CASE o.kind = "clearAll"
  BY <1>1, EmptyType DEF Atomic!Outcomes
<1>2. CASE o.kind \in {"register", "update"}
  <2>1. o.name \in Name /\ o.value \in Value
    BY <1>2 DEF Atomic!Op
  <2>2. Atomic!Registered(o, r) \subseteq Atomic!Registries
    BY <2>1 DEF Atomic!Registered
  <2>3. [r EXCEPT !.entry = [@ EXCEPT ![o.name] = o.value]] \in Atomic!Registries
    BY <2>1
  <2> QED BY <1>2, <2>2, <2>3 DEF Atomic!Outcomes
<1>3. CASE o.kind \in {"remove", "setDefault"}
  <2>1. o.name \in Name
    BY <1>3 DEF Atomic!Op
  <2>2. Atomic!Removed(o, r) \subseteq Atomic!Registries
    BY <2>1 DEF Atomic!Removed, Atomic!Names
  <2>3. [r EXCEPT !.default = o.name] \in Atomic!Registries
    BY <2>1
  <2> QED BY <1>3, <2>2, <2>3 DEF Atomic!Outcomes
<1> QED BY <1>1, <1>2, <1>3 DEF Atomic!Op

LEMMA OutcomesDefault ==
  ASSUME NEW o \in Atomic!Op, NEW r \in Atomic!Registries, Atomic!Applies(o, r),
         Atomic!DefaultRegistered(r), NEW s \in Atomic!Outcomes(o, r)
  PROVE  Atomic!DefaultRegistered(s)
<1> USE LockNames DEF Atomic!DefaultRegistered, Atomic!Names, Atomic!Registries
<1>1. CASE o.kind = "clearAll"
  BY <1>1 DEF Atomic!Outcomes, Atomic!Empty
<1>2. CASE o.kind = "register"
  <2>1. o.name \in Name /\ o.value \in Value
    BY <1>2 DEF Atomic!Op
  <2> QED BY <1>2, <2>1 DEF Atomic!Outcomes, Atomic!Registered
<1>3. CASE o.kind = "update"
  <2>1. o.name \in Name /\ o.value \in Value
    BY <1>3 DEF Atomic!Op
  <2> QED BY <1>3, <2>1 DEF Atomic!Outcomes
<1>4. CASE o.kind = "remove"
  <2>1. o.name \in Name
    BY <1>4 DEF Atomic!Op
  <2>2. s \in Atomic!Removed(o, r)
    BY <1>4 DEF Atomic!Outcomes
  <2> QED BY <2>1, <2>2 DEF Atomic!Removed
<1>5. CASE o.kind = "setDefault"
  <2>1. o.name \in Name /\ r.entry[o.name] # NoEntry
    BY <1>5 DEF Atomic!Op, Atomic!Applies
  <2> QED BY <1>5, <2>1 DEF Atomic!Outcomes
<1> QED BY <1>1, <1>2, <1>3, <1>4, <1>5 DEF Atomic!Op

(***************************************************************************)
(* Type correctness.                                                       *)
(***************************************************************************)
LEMMA GotoType ==
  ASSUME TypeOK, NEW p \in Proc, NEW from, NEW to \in Pc, Goto(p, from, to)
  PROVE  pc' \in [Proc -> Pc]
  BY DEF TypeOK, Goto

LEMMA RetryType ==
  ASSUME TypeOK, NEW p \in Proc
  PROVE  AfterTry(p) \in {"out", "mkdir"} /\ Tried(p) \in 0 .. MaxRetries - 1
  BY LockBounds DEF TypeOK, AfterTry, Tried

LEMMA DirType ==
  ASSUME TypeOK, ClearDir \/ RemoveDir \/ UNCHANGED dir
  PROVE  exists' \in BOOLEAN /\ owner' \in Proc \cup {NoProc} /\ tmps' \subseteq Proc
         /\ age' \in 0 .. Stale + 1
<1>1. 0 \in 0 .. Stale + 1
  BY LockBounds
<1>2. CASE ClearDir
  <2>1. age' = age \/ age' = 0
    BY <1>2 DEF ClearDir, Touch
  <2> QED BY <1>1, <1>2, <2>1 DEF TypeOK, ClearDir
<1>3. CASE RemoveDir
  <2>1. \/ exists' = FALSE /\ age' = 0 /\ UNCHANGED <<owner, tmps>>
        \/ UNCHANGED dir
    BY <1>3 DEF RemoveDir
  <2> QED BY <1>1, <2>1 DEF TypeOK, dir
<1> QED BY <1>2, <1>3 DEF TypeOK, dir

LEMMA TypeInit == Init => TypeOK
<1> SUFFICES ASSUME Init PROVE TypeOK
  OBVIOUS
<1>1. 0 \in 0 .. Stale + 1 /\ 0 \in 0 .. MaxRetries - 1 /\ 0 \in 0 .. MaxFaults
      /\ 0 \in 0 .. MaxCrashes
  BY LockBounds
<1>2. file \in Atomic!Registries /\ op \in [Proc -> Atomic!Op] /\ copy \in [Proc -> Atomic!Registries]
  BY EmptyType DEF Init
<1>3. pc \in [Proc -> Pc] /\ \A p \in Proc : pc[p] = "out"
  BY DEF Init, Pc
<1> QED BY <1>1, <1>2, <1>3 DEF Init, TypeOK

LEMMA TypeNext == TypeOK /\ [Next]_vars => TypeOK'
<1> SUFFICES ASSUME TypeOK, [Next]_vars PROVE TypeOK'
  OBVIOUS
<1> USE GotoType, DirType DEF TypeOK, dir, local, budgets
<1>1. ASSUME NEW p \in Proc, Begin(p) PROVE TypeOK'
  BY <1>1 DEF Begin, Pc, Looking, Goto
<1>2. ASSUME NEW p \in Proc, Mkdir(p) PROVE TypeOK'
  <2>1. 0 \in 0 .. Stale + 1 /\ 0 \in 0 .. MaxRetries - 1
    BY LockBounds
  <2>2. pc' \in [Proc -> Pc] /\ \A q \in Proc : pc'[q] \in {"probe", "recheck"} => pc[q] = pc'[q]
    BY <1>2 DEF Mkdir, Pc, Acquiring, Looking, Goto
  <2>3. /\ exists' \in BOOLEAN /\ owner' \in Proc \cup {NoProc} /\ tmps' \subseteq Proc
        /\ age' \in 0 .. Stale + 1 /\ tries' \in [Proc -> 0 .. MaxRetries - 1]
    <3>1. \/ exists' = TRUE /\ owner' = NoProc /\ tmps' = {} /\ age' = 0
             /\ tries' = [tries EXCEPT ![p] = 0]
          \/ UNCHANGED <<exists, owner, tmps, age, tries>>
      BY <1>2 DEF Mkdir
    <3>2. [tries EXCEPT ![p] = 0] \in [Proc -> 0 .. MaxRetries - 1]
      BY <2>1
    <3> QED BY <2>1, <3>1, <3>2
  <2> QED BY <1>2, <2>2, <2>3 DEF Mkdir
<1>3. ASSUME NEW p \in Proc, WriteTmp(p) PROVE TypeOK'
  BY <1>3, LockBounds DEF WriteTmp, Fault, Touch, Pc, Acquiring, Goto
<1>4. ASSUME NEW p \in Proc, Rename(p) PROVE TypeOK'
  BY <1>4, LockBounds DEF Rename, Fault, Pc, Acquiring, Critical, Goto
<1>5. ASSUME NEW p \in Proc, FixTmp(p) PROVE TypeOK'
  BY <1>5, LockBounds DEF FixTmp, Touch, Pc, Acquiring, Goto
<1>6. ASSUME NEW p \in Proc, FixOwner(p) PROVE TypeOK'
  BY <1>6, LockBounds DEF FixOwner, Touch, Pc, Acquiring, Goto
<1>7. ASSUME NEW p \in Proc, FixDir(p) PROVE TypeOK'
  BY <1>7 DEF FixDir, Pc, Goto
<1>8. ASSUME NEW p \in Proc, Read(p) PROVE TypeOK'
  BY <1>8 DEF Read, Pc, Looking, Goto
<1>9. ASSUME NEW p \in Proc, Probe(p) PROVE TypeOK'
  BY <1>9 DEF Probe, Forget, Pc, Looking, Goto
<1>10. ASSUME NEW p \in Proc, Recheck(p) PROVE TypeOK'
  BY <1>10 DEF Recheck, Forget, Pc, Looking, Goto
<1>11. ASSUME NEW p \in Proc, Stat(p) PROVE TypeOK'
  BY <1>11, RetryType DEF Stat, Retry, Pc, Looking, Goto
<1>12. ASSUME NEW p \in Proc, ReapClear(p) PROVE TypeOK'
  BY <1>12 DEF ReapClear, Pc, Looking, Goto
<1>13. ASSUME NEW p \in Proc, ReapDir(p) PROVE TypeOK'
  BY <1>13, RetryType DEF ReapDir, Retry, Pc, Looking, Goto
<1>14. ASSUME NEW p \in Proc, Load(p) PROVE TypeOK'
  <2>1. copy' \in [Proc -> Atomic!Registries] /\ op' \in [Proc -> Atomic!Op]
    BY <1>14, EmptyType DEF Load, Chosen
  <2>2. faults' \in 0 .. MaxFaults /\ crashes' \in 0 .. MaxCrashes
    BY <1>14, LockBounds DEF Load, Fault
  <2>3. pc' \in [Proc -> Pc] /\ \A q \in Proc : pc'[q] \in {"probe", "recheck"} => seen'[q] \in Proc
    BY <1>14 DEF Load, Pc, Critical, Releasing, Goto
  <2> QED BY <1>14, <2>1, <2>2, <2>3 DEF Load
<1>15. ASSUME NEW p \in Proc, Save(p) PROVE TypeOK'
  <2>1. file' \in Atomic!Registries
    BY <1>15, OutcomesType DEF Save
  <2>2. faults' \in 0 .. MaxFaults /\ crashes' \in 0 .. MaxCrashes
    BY <1>15, LockBounds DEF Save, Fault
  <2>3. pc' \in [Proc -> Pc] /\ \A q \in Proc : pc'[q] \in {"probe", "recheck"} => seen'[q] \in Proc
    BY <1>15 DEF Save, Pc, Releasing, Goto
  <2> QED BY <1>15, <2>1, <2>2, <2>3, EmptyType DEF Save
<1>16. ASSUME NEW p \in Proc, Unlink(p) PROVE TypeOK'
  BY <1>16, LockBounds DEF Unlink, Touch, Pc, Releasing, Goto
<1>17. ASSUME NEW p \in Proc, ReleaseClear(p) PROVE TypeOK'
  BY <1>17 DEF ReleaseClear, Pc, Releasing, Goto
<1>18. ASSUME NEW p \in Proc, ReleaseDir(p) PROVE TypeOK'
  BY <1>18 DEF ReleaseDir, Pc, Goto
<1>19. ASSUME NEW p \in Proc, Exit(p) \/ Start(p) PROVE TypeOK'
  BY <1>19 DEF Exit, Start, Pc, Goto
<1>20. ASSUME NEW p \in Proc, Kill(p) PROVE TypeOK'
  BY <1>20, EmptyType, LockBounds DEF Kill, Pc
<1>21. CASE Tick
  <2>1. pc' \in [Proc -> Pc] /\ tries' \in [Proc -> 0 .. MaxRetries - 1]
    BY <1>21, RetryType DEF Tick, Pc, Looking
  <2>2. age' \in 0 .. Stale + 1
    BY <1>21, LockBounds DEF Tick
  <2>3. \A q \in Proc : pc'[q] \in {"probe", "recheck"} => seen'[q] \in Proc
    BY <1>21, RetryType DEF Tick
  <2> QED BY <1>21, <2>1, <2>2, <2>3 DEF Tick
<1>22. CASE UNCHANGED vars
  BY <1>22 DEF vars
<1> QED
  BY <1>1, <1>2, <1>3, <1>4, <1>5, <1>6, <1>7, <1>8, <1>9, <1>10, <1>11, <1>12, <1>13, <1>14,
     <1>15, <1>16, <1>17, <1>18, <1>19, <1>20, <1>21, <1>22
  DEF Next, Acquire, Finish

(***************************************************************************)
(* The lock, when nobody is killed or suspended inside it.                 *)
(***************************************************************************)
LockFacts == OneHolder /\ HolderHasDir /\ DirHasHolder /\ NobodyReaps /\ YoungWithoutOwner

LEMMA LockNext ==
  ASSUME TypeOK, LockFacts, [Next]_vars, Prompt, MaxCrashes = 0
  PROVE  LockFacts'
<1> USE LockNames DEF TypeOK, LockFacts, OneHolder, HolderHasDir, DirHasHolder, NobodyReaps,
    YoungWithoutOwner, Holding, Acquiring, Critical, Releasing, dir, local, budgets, Goto
<1>1. ASSUME NEW p \in Proc, Begin(p) PROVE LockFacts'
  BY <1>1 DEF Begin
<1>2. ASSUME NEW p \in Proc, Mkdir(p) PROVE LockFacts'
  BY <1>2 DEF Mkdir
<1>3. ASSUME NEW p \in Proc, WriteTmp(p) PROVE LockFacts'
  BY <1>3 DEF WriteTmp, Fault, Touch
<1>4. ASSUME NEW p \in Proc, Rename(p) PROVE LockFacts'
  BY <1>4 DEF Rename, Fault
<1>5. ASSUME NEW p \in Proc, FixTmp(p) PROVE LockFacts'
  BY <1>5 DEF FixTmp, Touch
<1>6. ASSUME NEW p \in Proc, FixOwner(p) PROVE LockFacts'
  BY <1>6 DEF FixOwner, Touch
<1>7. ASSUME NEW p \in Proc, FixDir(p) PROVE LockFacts'
  BY <1>7 DEF FixDir, RemoveDir
<1>8. ASSUME NEW p \in Proc, Read(p) PROVE LockFacts'
  BY <1>8 DEF Read
<1>9. ASSUME NEW p \in Proc, Probe(p) PROVE LockFacts'
  BY <1>9 DEF Probe, Forget
<1>10. ASSUME NEW p \in Proc, Recheck(p) PROVE LockFacts'
  BY <1>10 DEF Recheck, Forget
<1>11. ASSUME NEW p \in Proc, Stat(p) PROVE LockFacts'
  BY <1>11, RetryType, LockBounds DEF Stat, Retry
<1>12. ASSUME NEW p \in Proc, ReapClear(p) \/ ReapDir(p) PROVE LockFacts'
  BY <1>12 DEF ReapClear, ReapDir, Retry
<1>13. ASSUME NEW p \in Proc, Load(p) PROVE LockFacts'
  BY <1>13 DEF Load
<1>14. ASSUME NEW p \in Proc, Save(p) PROVE LockFacts'
  BY <1>14 DEF Save
<1>15. ASSUME NEW p \in Proc, Unlink(p) PROVE LockFacts'
  BY <1>15 DEF Unlink, Touch
<1>16. ASSUME NEW p \in Proc, ReleaseClear(p) PROVE LockFacts'
  BY <1>16 DEF ReleaseClear, ClearDir, Touch
<1>17. ASSUME NEW p \in Proc, ReleaseDir(p) PROVE LockFacts'
  BY <1>17 DEF ReleaseDir, RemoveDir
<1>18. ASSUME NEW p \in Proc, Exit(p) PROVE LockFacts'
  BY <1>18 DEF Exit
<1>19. ASSUME NEW p \in Proc, Start(p) PROVE LockFacts'
  BY <1>19 DEF Start
<1>20. ASSUME NEW p \in Proc, Kill(p) PROVE LockFacts'
  BY <1>20 DEF Kill
<1>21. CASE Tick
  BY <1>21, RetryType DEF Tick
<1>22. CASE UNCHANGED vars
  BY <1>22 DEF vars
<1> QED
  BY <1>1, <1>2, <1>3, <1>4, <1>5, <1>6, <1>7, <1>8, <1>9, <1>10, <1>11, <1>12, <1>13, <1>14,
     <1>15, <1>16, <1>17, <1>18, <1>19, <1>20, <1>21, <1>22
  DEF Next, Acquire, Finish

LEMMA LockInit == Init => LockFacts
  BY DEF Init, LockFacts, OneHolder, HolderHasDir, DirHasHolder, NobodyReaps, YoungWithoutOwner,
     Holding, Acquiring, Critical, Releasing

(* What the operation under the lock has read is what the file holds, if   *)
(* it could read it.                                                       *)
CopyFresh == \A p \in Proc : pc[p] = "save" => copy[p] \in {file, Atomic!Empty}

LEMMA FreshNext ==
  ASSUME TypeOK, OneHolder, CopyFresh, [Next]_vars
  PROVE  CopyFresh'
<1> USE DEF CopyFresh, TypeOK, dir, local, budgets, Goto
<1>1. ASSUME NEW p \in Proc, Begin(p) PROVE CopyFresh'
  BY <1>1 DEF Begin
<1>2. ASSUME NEW p \in Proc, Mkdir(p) PROVE CopyFresh'
  BY <1>2 DEF Mkdir
<1>3. ASSUME NEW p \in Proc, WriteTmp(p) PROVE CopyFresh'
  BY <1>3 DEF WriteTmp
<1>4. ASSUME NEW p \in Proc, Rename(p) PROVE CopyFresh'
  BY <1>4 DEF Rename
<1>5. ASSUME NEW p \in Proc, FixTmp(p) \/ FixOwner(p) \/ FixDir(p) PROVE CopyFresh'
  BY <1>5 DEF FixTmp, FixOwner, FixDir
<1>6. ASSUME NEW p \in Proc, Read(p) \/ Probe(p) \/ Recheck(p) PROVE CopyFresh'
  BY <1>6 DEF Read, Probe, Recheck, Forget
<1>7. ASSUME NEW p \in Proc, Stat(p) \/ ReapClear(p) \/ ReapDir(p) PROVE CopyFresh'
  BY <1>7, RetryType DEF Stat, ReapClear, ReapDir, Retry
<1>8. ASSUME NEW p \in Proc, Load(p) PROVE CopyFresh'
  BY <1>8 DEF Load
<1>9. ASSUME NEW p \in Proc, Save(p) PROVE CopyFresh'
  <2>1. ASSUME NEW q \in Proc, pc'[q] = "save" PROVE FALSE
    <3>1. q # p /\ pc[q] = "save" /\ pc[p] = "save"
      BY <1>9, <2>1 DEF Save
    <3> QED BY <3>1 DEF OneHolder, Holding, Critical
  <2> QED BY <2>1
<1>10. ASSUME NEW p \in Proc, Unlink(p) \/ ReleaseClear(p) \/ ReleaseDir(p) PROVE CopyFresh'
  BY <1>10 DEF Unlink, ReleaseClear, ReleaseDir
<1>11. ASSUME NEW p \in Proc, Exit(p) \/ Start(p) PROVE CopyFresh'
  BY <1>11 DEF Exit, Start
<1>12. ASSUME NEW p \in Proc, Kill(p) PROVE CopyFresh'
  BY <1>12 DEF Kill
<1>13. CASE Tick
  BY <1>13, RetryType DEF Tick
<1>14. CASE UNCHANGED vars
  BY <1>14 DEF vars
<1> QED
  BY <1>1, <1>2, <1>3, <1>4, <1>5, <1>6, <1>7, <1>8, <1>9, <1>10, <1>11, <1>12, <1>13, <1>14
  DEF Next, Acquire, Finish

(* Only a save changes the file.                                           *)
LEMMA FileSteps ==
  ASSUME [Next]_vars
  PROVE  UNCHANGED file \/ \E p \in Proc : Save(p)
  BY DEF Next, Acquire, Finish, Begin, Mkdir, WriteTmp, Rename, FixTmp, FixOwner, FixDir, Read,
     Probe, Recheck, Stat, ReapClear, ReapDir, Load, Unlink, ReleaseClear, ReleaseDir, Exit,
     Start, Kill, Tick, vars

(* Nobody else is about to save while p loads or saves.                    *)
LEMMA BlindAlone ==
  ASSUME OneHolder, NEW p \in Proc, pc[p] \in Holding
  PROVE  Blind <=> pc[p] = "save" /\ copy[p] # file
  BY DEF Blind, OneHolder, Holding, Critical

(* What a step may look like to Registry.                                  *)
LEMMA RegistrySteps ==
  ASSUME UNCHANGED file, Blind' => Blind, UNCHANGED faults \/ (faults' = faults + 1 /\ ~Blind')
  PROVE  [Atomic!Next]_(Atomic!registryVars)
<1>1. Blind \in BOOLEAN /\ Blind' \in BOOLEAN
  BY DEF Blind
<1>2. CASE faults' = faults + 1 /\ ~Blind'
  BY <1>1, <1>2 DEF Atomic!Next, Atomic!Fails
<1>3. CASE UNCHANGED faults /\ Blind' = Blind
  BY <1>3 DEF Atomic!registryVars
<1>4. CASE UNCHANGED faults /\ Blind' = FALSE
  BY <1>4 DEF Atomic!Next, Atomic!GiveUp
<1> QED BY <1>1, <1>2, <1>3, <1>4

LEMMA RegistryLoad ==
  ASSUME TypeOK, OneHolder, OneHolder', NEW p \in Proc, Load(p)
  PROVE  [Atomic!Next]_(Atomic!registryVars)
<1>1. pc[p] = "load" /\ pc'[p] \in {"save", "r_unlink"} /\ UNCHANGED file
  BY DEF Load, Goto, TypeOK
<1>2. ~Blind
  BY <1>1, BlindAlone DEF Holding, Critical
<1>3. Blind' <=> pc'[p] = "save" /\ copy'[p] # file
  BY <1>1, BlindAlone DEF Blind, OneHolder, Holding, Critical, Releasing
<1>4. CASE Fault
  BY <1>1, <1>2, <1>4 DEF Fault, Atomic!Next, Atomic!Fails
<1>5. CASE copy'[p] = file /\ UNCHANGED budgets
  BY <1>1, <1>2, <1>3, <1>5, RegistrySteps DEF budgets
<1> QED BY <1>4, <1>5 DEF Load, TypeOK

LEMMA RegistrySave ==
  ASSUME TypeOK, OneHolder, OneHolder', CopyFresh, NEW p \in Proc, Save(p)
  PROVE  [Atomic!Next]_(Atomic!registryVars)
<1>1. pc[p] = "save" /\ pc'[p] = "r_unlink" /\ op[p] \in Atomic!Op /\ copy[p] \in {file, Atomic!Empty}
  BY DEF Save, Goto, TypeOK, CopyFresh
<1>2. Blind <=> copy[p] # file
  BY <1>1, BlindAlone DEF Holding, Critical
<1>3. ~Blind'
  BY <1>1 DEF Blind, OneHolder, Holding, Critical, Releasing
<1>4. CASE Fault /\ UNCHANGED file
  BY <1>3, <1>4 DEF Fault, Atomic!Next, Atomic!Fails
<1>5. CASE UNCHANGED <<file, budgets>>
  BY <1>3, <1>5, RegistrySteps DEF budgets
<1>6. CASE Atomic!Applies(op[p], copy[p]) /\ file' \in Atomic!Outcomes(op[p], copy[p]) /\ UNCHANGED budgets
  <2>0. Blind \in BOOLEAN /\ Blind' = FALSE
    BY <1>3 DEF Blind
  <2>1. CASE copy[p] = file
    <3>1. Atomic!Apply(op[p])
      BY <1>2, <1>6, <2>0, <2>1 DEF budgets, Atomic!Apply
    <3> QED BY <1>1, <3>1 DEF Atomic!Next
  <2>2. CASE copy[p] # file
    <3>1. Atomic!Afresh(op[p])
      BY <1>1, <1>2, <1>6, <2>0, <2>2 DEF budgets, Atomic!Afresh
    <3> QED BY <1>1, <3>1 DEF Atomic!Next
  <2> QED BY <2>1, <2>2
<1> QED BY <1>4, <1>5, <1>6 DEF Save

(* Every other step fails, ends an operation or leaves the registry alone. *)
LEMMA RegistryNext ==
  ASSUME TypeOK, LockFacts, LockFacts', CopyFresh, [Next]_vars
  PROVE  [Atomic!Next]_(Atomic!registryVars)
<1>1. OneHolder /\ OneHolder'
  BY DEF LockFacts
<1>2. CASE \E p \in Proc : Load(p) \/ Save(p)
  BY <1>1, <1>2, RegistryLoad, RegistrySave
<1>3. CASE ~\E p \in Proc : Load(p) \/ Save(p)
  <2>1. UNCHANGED file
    BY <1>3, FileSteps
  <2>2. \A p \in Proc : pc'[p] = "save" => pc[p] = "save" /\ copy'[p] = copy[p]
    BY <1>3, RetryType DEF TypeOK, Next, Acquire, Finish, Begin, Mkdir, WriteTmp, Rename, FixTmp, FixOwner,
       FixDir, Read, Probe, Recheck, Stat, Retry, ReapClear, ReapDir, Unlink, ReleaseClear,
       ReleaseDir, Exit, Start, Kill, Tick, vars, local, Goto
  <2>3. Blind' => Blind
    BY <2>1, <2>2 DEF Blind
  <2>4. faults' \in {faults, faults + 1} /\ (faults' # faults => \E p \in Proc : pc[p] \in Acquiring)
    BY <1>3 DEF Next, Acquire, Finish, Begin, Mkdir, WriteTmp, Rename, FixTmp, FixOwner,
       FixDir, Read, Probe, Recheck, Stat, Retry, ReapClear, ReapDir, Unlink, ReleaseClear,
       ReleaseDir, Exit, Start, Kill, Tick, vars, budgets, Fault, Goto, Acquiring
  <2>5. (\E p \in Proc : pc[p] \in Acquiring) => ~Blind
    BY <1>1 DEF OneHolder, Blind, Holding, Critical, Acquiring
  <2> QED BY <2>1, <2>3, <2>4, <2>5, RegistrySteps
<1> QED BY <1>2, <1>3

(***************************************************************************)
(* The theorems.                                                           *)
(***************************************************************************)

(* When no process is killed, or suspended in the middle of an operation   *)
(* on the lock, the lock directory is one process's from mkdir to rmdir.   *)
THEOREM LockInvariant == ASSUME Prompt, MaxCrashes = 0 PROVE Spec => []LockIInv
<1>1. LockIInv <=> TypeOK /\ LockFacts
  BY DEF LockIInv, LockFacts
<1>2. Init => LockIInv
  BY <1>1, TypeInit, LockInit
<1>3. LockIInv /\ [Next]_vars => LockIInv'
  <2>1. LockIInv' <=> TypeOK' /\ LockFacts'
    BY DEF LockIInv, LockFacts
  <2> QED BY <1>1, <2>1, TypeNext, LockNext
<1> QED BY <1>2, <1>3, PTL DEF Spec

(* Then acquireLock lets one operation at a time read and write the file.  *)
THEOREM LockExcludes == ASSUME Prompt, MaxCrashes = 0 PROVE Spec => []MutualExclusion
<1>1. LockIInv => MutualExclusion
  BY DEF LockIInv, OneHolder, Holding, MutualExclusion
<1> QED BY <1>1, LockInvariant, PTL

(* And withLock implements the atomic registry: an operation works on what *)
(* the last one saved, and no update is lost but by an operation whose own *)
(* read of sandboxes.json failed.                                          *)
THEOREM LockImplementsRegistry == ASSUME Prompt, MaxCrashes = 0 PROVE Spec => AtomicOperations
<1>1. Init => CopyFresh /\ Atomic!Init
  BY DEF Init, CopyFresh, Atomic!Init, Blind
<1>2. LockIInv /\ CopyFresh /\ [Next]_vars => CopyFresh'
  BY FreshNext DEF LockIInv
<1>3. LockIInv /\ LockIInv' /\ CopyFresh /\ [Next]_vars => [Atomic!Next]_(Atomic!registryVars)
  BY RegistryNext DEF LockIInv, LockFacts
<1> QED BY <1>1, <1>2, <1>3, LockInvariant, PTL DEF Spec, AtomicOperations, Atomic!Spec

(* So as long as no call has failed, every saved registry is one whole     *)
(* operation on the registry saved before it.                              *)
SavesWhole ==
  faults = 0 =>
    \E o \in Atomic!Op : Atomic!Applies(o, file) /\ file' \in Atomic!Outcomes(o, file)
THEOREM NoUpdateLost == ASSUME Prompt, MaxCrashes = 0 PROVE Spec => [][SavesWhole]_file
<1> DEFINE Sees == faults \in Nat /\ (faults = 0 => ~Blind)
<1>1. Atomic!Init => Sees
  BY DEF Atomic!Init
<1>2. Sees /\ [Atomic!Next]_(Atomic!registryVars) => Sees'
  BY DEF Atomic!Next, Atomic!Fails, Atomic!GiveUp, Atomic!Apply, Atomic!Afresh, Atomic!registryVars
<1>3. Sees /\ [Atomic!Next]_(Atomic!registryVars) => [SavesWhole]_file
  BY DEF SavesWhole, Atomic!Next, Atomic!Fails, Atomic!GiveUp, Atomic!Apply, Atomic!Afresh, Atomic!registryVars
<1> QED BY <1>1, <1>2, <1>3, LockImplementsRegistry, PTL DEF AtomicOperations, Atomic!Spec

(* Whatever is killed or suspended, no saved registry has a default that   *)
(* is not registered: every operation writes a whole, consistent file.     *)
THEOREM DefaultCorrect == Spec => []DefaultRegistered
<1> DEFINE Consistent == /\ Atomic!DefaultRegistered(file)
                         /\ \A p \in Proc : Atomic!DefaultRegistered(copy[p])
<1>1. Atomic!DefaultRegistered(Atomic!Empty)
  BY DEF Atomic!DefaultRegistered, Atomic!Empty
<1>2. Init => TypeOK /\ Consistent
  BY <1>1, TypeInit DEF Init
<1>3. TypeOK /\ [Next]_vars => TypeOK'
  BY TypeNext
<1>4. TypeOK /\ Consistent /\ [Next]_vars => Consistent'
  <2> SUFFICES ASSUME TypeOK, Consistent, [Next]_vars PROVE Consistent'
    OBVIOUS
  <2>1. Atomic!DefaultRegistered(file')
    <3>1. ASSUME NEW p \in Proc, Save(p), file' # file PROVE Atomic!DefaultRegistered(file')
      BY <3>1, OutcomesDefault DEF Save, TypeOK
    <3> QED BY <3>1, FileSteps
  <2>2. ASSUME NEW q \in Proc PROVE copy'[q] \in {copy[q], file, Atomic!Empty}
    BY DEF TypeOK, Next, Acquire, Finish, Begin, Mkdir, WriteTmp, Rename, FixTmp, FixOwner, FixDir,
       Read, Probe, Recheck, Stat, Retry, ReapClear, ReapDir, Load, Save, Unlink, ReleaseClear,
       ReleaseDir, Exit, Start, Kill, Tick, vars, local
  <2> QED BY <1>1, <2>1, <2>2
<1> QED BY <1>2, <1>3, <1>4, PTL DEF Spec, DefaultRegistered
=============================================================================
