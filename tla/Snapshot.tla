------------------------------ MODULE Snapshot ------------------------------
(***************************************************************************)
(* Snapshots of a sandbox: `snapshot create' and `snapshot restore'        *)
(* (src/lib/actions/sandbox/snapshot.ts) over backupSandboxState,          *)
(* restoreSandboxState and the listing of src/lib/state/sandbox.ts.        *)
(*                                                                         *)
(* Commands run concurrently, in processes of their own, and die; the      *)
(* agent goes on writing in its sandbox.  A sandbox keeps one state        *)
(* directory (a set of files) and one state file (the SQLite database).    *)
(* A credential is a file of its own or a value in a config file or in an  *)
(* .env file; the directory has it while the file or the value is there.   *)
(***************************************************************************)
EXTENDS Integers, Sequences, FiniteSets

CONSTANTS Boxes,        \* sandboxes
          Files,        \* files of the state directory, and credentials in it
          Credentials,  \* those that sanitizeBackupDirectory takes out of a backup
          Data,         \* contents of the state file
          Tags,         \* names a user gives to snapshots
          Offered,      \* policy presets
          SnapJobs,     \* command processes
          MaxSnapCmds, MaxEdits, MaxSnapFaults  \* bounds

Empty  == "empty"     \* no state file, or one with nothing in it
NoTag  == "untagged"

ASSUME SnapBounds ==
  /\ {MaxSnapCmds, MaxEdits, MaxSnapFaults} \subseteq Nat
  /\ Credentials \subseteq Files /\ Data # {} /\ Empty \notin Data /\ NoTag \notin Tags

VARIABLES
  disk,      \* Boxes -> what is in the sandbox; live when the gateway lists it
  row,       \* Boxes -> its registry entry
  rules,     \* Boxes -> presets in the policy the gateway enforces
  snaps,     \* the backup directories in the order of their timestamps
  job,       \* SnapJobs -> the command it runs
  restored,  \* history, Boxes -> the snapshot it holds since a restore that succeeded
  overlap,   \* history: two creations ran at the same time
  apart,     \* history: sandboxes whose policy and entry were told apart
  cut,       \* history: sandboxes given an empty state file for the snapshot's
  snapCmds, edits, snapFaults

outsideSnap == <<disk, row, rules>>
snapVars == <<disk, row, rules, snaps, job, restored, overlap, apart, cut,
              snapCmds, edits, snapFaults>>

NoDisk == [live |-> FALSE, dir |-> {}, db |-> Empty]
NoRow  == [listed |-> FALSE, presets |-> {}]
NoJob  == [at |-> "idle"]

SnapTypeOK ==
  /\ disk \in [Boxes -> [live : BOOLEAN, dir : SUBSET Files, db : Data \union {Empty}]]
  /\ row \in [Boxes -> [listed : BOOLEAN, presets : SUBSET Offered]]
  /\ rules \in [Boxes -> SUBSET Offered]
  /\ \A s \in DOMAIN snaps : snaps[s] \in
       [of : Boxes, tag : Tags \union {NoTag}, dir : SUBSET Files, kept : BOOLEAN,
        db : Data \union {Empty}, file : BOOLEAN, presets : SUBSET Offered, listed : BOOLEAN,
        whole : BOOLEAN, dirThen : SUBSET Files]
  /\ \A s \in DOMAIN snaps : snaps[s].whole => snaps[s].listed /\ snaps[s].kept
  /\ \A j \in SnapJobs : job[j].at \in {"idle", "dirs", "file", "manifest", "delete", "clone",
       "clean", "extract", "refile", "presets", "done", "failed", "refused"}
  /\ restored \in [Boxes -> 0 .. Len(snaps)]
  /\ overlap \in BOOLEAN /\ apart \subseteq Boxes /\ cut \subseteq Boxes
  /\ snapCmds \in 0 .. MaxSnapCmds /\ edits \in 0 .. MaxEdits /\ snapFaults \in 0 .. MaxSnapFaults

Sane   == UNCHANGED <<snapCmds, edits, snapFaults>>
Faulty == snapFaults < MaxSnapFaults /\ snapFaults' = snapFaults + 1 /\ UNCHANGED <<snapCmds, edits>>
JobAt(j, at)    == job[j].at = at
JobTo(j, at)  == job' = [job EXCEPT ![j].at = at]
KeepHistory  == UNCHANGED <<restored, overlap, apart, cut>>
Reads        == UNCHANGED outsideSnap

Ends(j, at) == job' = [job EXCEPT ![j] = [at |-> at]]
(* Whatever changes a sandbox ends what the last restore made of it; a     *)
(* restore under way is no longer alone either.                            *)
Disturb(b)  == restored' = [restored EXCEPT ![b] = 0] /\ UNCHANGED <<overlap, apart, cut>>
Shaken(j, b) ==
  [i \in SnapJobs |-> IF i # j /\ job[i].at # "idle" /\ "to" \in DOMAIN job[i] /\ job[i].to = b
                      THEN [job[i] EXCEPT !.alone = FALSE] ELSE job[i]]

-----------------------------------------------------------------------------
(* Listing and selectors.                                                  *)

(* listBackups: the directories with a manifest, oldest first.             *)
Listed(b)     == {s \in DOMAIN snaps : snaps[s].of = b /\ snaps[s].listed}
(* Mutant: numbered from the newest.                                       *)
VersionFromNewest(s) == Cardinality({t \in Listed(snaps[s].of) : t >= s})
Version(s)    == Cardinality({t \in Listed(snaps[s].of) : t <= s})
Latest(b)     == {s \in Listed(b) : \A t \in Listed(b) : t <= s}
(* findBackup: a version, else a name (the newest that has it), else a     *)
(* timestamp; no name looks like a version.                                *)
ByTag(b, tag) == {s \in Listed(b) : snaps[s].tag = tag
                    /\ \A t \in Listed(b) : snaps[t].tag = tag => t <= s}
ByStamp(b)    == {{s} : s \in Listed(b)}
Selections(b) == {Latest(b)} \union {ByTag(b, tag) : tag \in Tags} \union ByStamp(b)

-----------------------------------------------------------------------------
(* snapshot create.                                                        *)

(* Mutant: a snapshot that is not complete does not hold its name.         *)
TakenByWhole(b, tag) == tag # NoTag /\ \E s \in Listed(b) : snaps[s].tag = tag /\ snaps[s].whole
Taken(b, tag) == tag # NoTag /\ \E s \in Listed(b) : snaps[s].tag = tag

Creating(i) == job[i].at \in {"dirs", "file", "manifest"}

(* The sandbox is live and the name is free; the directory is made.        *)
SnapCreate(j) ==
  /\ job[j].at \in {"idle", "done", "failed", "refused"} /\ snapCmds < MaxSnapCmds
  /\ \E b \in Boxes, tag \in Tags \union {NoTag} :
       IF disk[b].live /\ row[b].listed /\ ~Taken(b, tag)
       THEN /\ snaps' = Append(snaps, [of |-> b, tag |-> tag, dir |-> {}, kept |-> FALSE,
                  db |-> Empty, file |-> FALSE, presets |-> row[b].presets, listed |-> FALSE,
                  whole |-> FALSE, dirThen |-> {}])
            /\ job' = [job EXCEPT ![j] = [at |-> "dirs", snap |-> Len(snaps) + 1, ok |-> TRUE]]
            /\ overlap' = (overlap \/ \E i \in SnapJobs : Creating(i))
       ELSE Ends(j, "refused") /\ UNCHANGED <<snaps, overlap>>
  /\ snapCmds' = snapCmds + 1
  /\ Reads /\ UNCHANGED <<restored, apart, cut, edits, snapFaults>>

SnapOf(j) == snaps[job[j].snap]
Record(j, s) == snaps' = [snaps EXCEPT ![job[j].snap] = s]

(* Mutant: what tar reports on stderr is not looked at.                    *)
BackupDirsAll(j) ==
  /\ JobAt(j, "dirs")
  /\ LET now == disk[SnapOf(j).of] IN
     /\ now.live
     /\ \E got \in SUBSET now.dir :
          /\ Record(j, [SnapOf(j) EXCEPT !.dir = got, !.kept = TRUE, !.dirThen = now.dir])
          /\ IF got = now.dir THEN Sane ELSE Faulty
     /\ JobTo(j, "file")
  /\ Reads /\ KeepHistory

(* Mutant: a directory that failed does not make the backup fail.          *)
BackupDirsUnmarked(j) ==
  /\ JobAt(j, "dirs")
  /\ LET now == disk[SnapOf(j).of] IN
     \/ /\ now.live /\ Sane
        /\ Record(j, [SnapOf(j) EXCEPT !.dir = now.dir, !.kept = TRUE, !.dirThen = now.dir])
     \/ /\ now.live /\ Faulty
        /\ Record(j, [SnapOf(j) EXCEPT !.dirThen = now.dir])
  /\ JobTo(j, "file")
  /\ Reads /\ KeepHistory

(* tar over ssh.  What could not be read is marked, and the rest goes on;  *)
(* without ssh, or when the audit rejects a file, nothing is listed.       *)
BackupDirs(j) ==
  /\ JobAt(j, "dirs")
  /\ LET now == disk[SnapOf(j).of] IN
     \/ /\ now.live
        /\ Record(j, [SnapOf(j) EXCEPT !.dir = now.dir, !.kept = TRUE, !.dirThen = now.dir])
        /\ JobTo(j, "file") /\ Sane
     \/ /\ now.live /\ Faulty
        /\ \E got \in SUBSET now.dir :
             Record(j, [SnapOf(j) EXCEPT !.dir = got, !.dirThen = now.dir])
        /\ job' = [job EXCEPT ![j].at = "file", ![j].ok = FALSE]
     \/ (IF now.live THEN Faulty ELSE Sane) /\ Ends(j, "failed") /\ UNCHANGED snaps
  /\ Reads /\ KeepHistory

(* backupStateFile.  The commands of the remote shell are joined by `;',   *)
(* so that a python3 that fails is followed by the cat of an empty file,   *)
(* which counts as a backup.                                               *)
BackupFile(j) ==
  /\ JobAt(j, "file")
  /\ LET now == disk[SnapOf(j).of]
         s   == SnapOf(j) IN
     \/ /\ now.live /\ JobTo(j, "manifest") /\ Sane
        /\ Record(j, [s EXCEPT !.db = now.db, !.file = now.db # Empty])
     \/ /\ now.live /\ now.db # Empty /\ JobTo(j, "manifest") /\ Faulty
        /\ Record(j, [s EXCEPT !.db = Empty, !.file = TRUE])
     \/ /\ job' = [job EXCEPT ![j].at = "manifest", ![j].ok = FALSE]
        /\ UNCHANGED snaps /\ IF now.live THEN Faulty ELSE Sane
  /\ Reads /\ KeepHistory

(* sanitizeBackupDirectory, which may be unable to take a credential out.  *)
Sanitized(files, left) == (files \ Credentials) \union left

(* The backup is sanitized and gets its manifest.  A credential that cannot*)
(* be taken out is left in, or ends the command before the manifest (no    *)
(* `try' around the rewriting of a config file).                           *)
WriteManifest(j) ==
  /\ JobAt(j, "manifest")
  /\ \/ /\ \E left \in SUBSET (SnapOf(j).dir \intersect Credentials) :
             /\ Record(j, [SnapOf(j) EXCEPT !.dir = Sanitized(@, left),
                                             !.listed = TRUE, !.whole = job[j].ok])
             /\ IF left = {} THEN Sane ELSE Faulty
        /\ Ends(j, IF job[j].ok THEN "done" ELSE "failed")
     \/ Faulty /\ Ends(j, "failed") /\ UNCHANGED snaps
  /\ Reads /\ KeepHistory

-----------------------------------------------------------------------------
(* snapshot restore.                                                       *)

Restoring(b, to, s, at) ==
  [at |-> at, box |-> b, to |-> to, snap |-> s, ok |-> TRUE, alone |-> TRUE,
   del |-> {}, add |-> {}, warned |-> FALSE]

(* What is checked before anything is deleted, and what comes next.        *)
Preflight(b, to, sel, force, image) ==
  IF sel = {} THEN "refused"
  ELSE IF to = b THEN IF disk[to].live THEN "clean" ELSE "refused"
  ELSE IF (disk[to].live /\ ~force) \/ ~disk[b].live \/ ~image THEN "refused"
  ELSE IF disk[to].live THEN "delete" ELSE "clone"

SnapRestore(j) ==
  /\ job[j].at \in {"idle", "done", "failed", "refused"} /\ snapCmds < MaxSnapCmds
  /\ \E b, to \in Boxes, force, image \in BOOLEAN : \E sel \in Selections(b) :
       LET next == Preflight(b, to, sel, force, image) IN
       job' = [job EXCEPT ![j] = IF next = "refused" THEN [at |-> next]
                                 ELSE Restoring(b, to, CHOOSE s \in sel : TRUE, next)]
  /\ snapCmds' = snapCmds + 1
  /\ Reads /\ KeepHistory /\ UNCHANGED <<snaps, edits, snapFaults>>

(* deleteSandboxForRestore, with the entry and what the host keeps of it.  *)
DeleteTarget(j) ==
  /\ JobAt(j, "delete")
  /\ LET to == job[j].to IN
     \/ /\ disk' = [disk EXCEPT ![to] = NoDisk] /\ row' = [row EXCEPT ![to] = NoRow]
        /\ rules' = [rules EXCEPT ![to] = {}]
        /\ job' = [Shaken(j, to) EXCEPT ![j].at = "clone"]
        /\ Disturb(to) /\ Sane
     \/ Ends(j, "failed") /\ Faulty /\ Reads /\ KeepHistory
  /\ UNCHANGED snaps

(* The entry of the clone: that of the source without its policies.        *)
Cloned(entry) == [entry EXCEPT !.listed = TRUE, !.presets = {}]

(* autoCreateSandboxFromSource.  A sandbox that another command made       *)
(* meanwhile under the name passes for the one asked for; the entry then   *)
(* forgets the presets it was given.                                       *)
CloneSource(j) ==
  /\ JobAt(j, "clone")
  /\ LET to == job[j].to IN
     \/ /\ disk' = [disk EXCEPT ![to] = IF @.live THEN @ ELSE [NoDisk EXCEPT !.live = TRUE]]
        /\ rules' = [rules EXCEPT ![to] = IF disk[to].live THEN @ ELSE {}]
        /\ row' = [row EXCEPT ![to] = Cloned(row[job[j].box])]
        /\ job' = [Shaken(j, to) EXCEPT ![j].at = "clean", ![j].alone = @ /\ ~disk[to].live]
        /\ apart' = IF rules[to] = {} THEN apart ELSE apart \union {to}
        /\ restored' = [restored EXCEPT ![to] = 0] /\ UNCHANGED <<overlap, cut>> /\ Sane
     \/ Ends(j, "failed") /\ Faulty /\ Reads /\ KeepHistory
  /\ UNCHANGED snaps

(* backedUpDirs of the manifest.                                           *)
Restorable(s) == s.kept

(* Mutant: the files are extracted over what is there.                     *)
CleanTargetNot(j) ==
  /\ JobAt(j, "clean")
  /\ JobTo(j, IF Restorable(SnapOf(j)) THEN "extract" ELSE "refile")
  /\ Reads /\ Sane /\ KeepHistory /\ UNCHANGED snaps

(* The directory is packed, and removed in the sandbox, or in part when    *)
(* that fails.                                                             *)
CleanTarget(j) ==
  /\ JobAt(j, "clean")
  /\ LET to == job[j].to IN
     \/ /\ ~Restorable(SnapOf(j)) /\ JobTo(j, "refile")
        /\ Reads /\ Sane /\ KeepHistory
     \/ /\ Restorable(SnapOf(j)) /\ disk[to].live
        /\ disk' = [disk EXCEPT ![to].dir = {}]
        /\ job' = [Shaken(j, to) EXCEPT ![j].at = "extract"]
        /\ Disturb(to) /\ Sane /\ UNCHANGED <<row, rules>>
     \/ /\ Restorable(SnapOf(j)) /\ disk[to].live /\ Faulty
        /\ \E left \in SUBSET disk[to].dir : disk' = [disk EXCEPT ![to].dir = left]
        /\ job' = [Shaken(j, to) EXCEPT ![j] = [at |-> "failed"]]
        /\ Disturb(to) /\ UNCHANGED <<row, rules>>
     \/ /\ Restorable(SnapOf(j)) /\ ~disk[to].live /\ Ends(j, "failed")
        /\ Sane /\ Reads /\ KeepHistory
  /\ UNCHANGED snaps

(* A part may be extracted before it fails; the state file comes anyway.   *)
ExtractDir(j) ==
  /\ JobAt(j, "extract")
  /\ LET to == job[j].to IN
     \/ /\ disk[to].live /\ Sane
        /\ disk' = [disk EXCEPT ![to].dir = @ \union SnapOf(j).dir]
        /\ job' = [Shaken(j, to) EXCEPT ![j].at = "refile"]
        /\ Disturb(to)
     \/ /\ disk[to].live /\ Faulty
        /\ \E got \in SUBSET SnapOf(j).dir : disk' = [disk EXCEPT ![to].dir = @ \union got]
        /\ job' = [Shaken(j, to) EXCEPT ![j].at = "refile", ![j].ok = FALSE]
        /\ Disturb(to)
     \/ /\ ~disk[to].live /\ Sane /\ UNCHANGED disk /\ KeepHistory
        /\ job' = [job EXCEPT ![j].at = "refile", ![j].ok = FALSE]
  /\ UNCHANGED <<row, rules, snaps>>

(* restoreStateFile, and the verdict; the presets come only after it.  The *)
(* commands of the remote shell are joined by `;', so that a cat that      *)
(* fails is followed by the restore of an empty database, which counts; a  *)
(* restore that is told to have failed may have done its work or not.      *)
RestoreFile(j) ==
  /\ JobAt(j, "refile")
  /\ LET to     == job[j].to
         add    == SnapOf(j).presets \ row[to].presets
         del    == row[to].presets \ SnapOf(j).presets
         bad    == [Shaken(j, to) EXCEPT ![j] = [at |-> "failed"]]
         good   == [Shaken(j, to) EXCEPT ![j].at = "presets", ![j].add = add, ![j].del = del]
         Verdict == /\ job' = IF job[j].ok THEN good ELSE bad
                    /\ restored' = [restored EXCEPT ![to] =
                         IF job[j].ok /\ job[j].alone /\ disk[to].live THEN job[j].snap ELSE 0] IN
     \/ /\ SnapOf(j).file /\ disk[to].live /\ Sane /\ Verdict
        /\ disk' = [disk EXCEPT ![to].db = SnapOf(j).db] /\ cut' = cut \ {to}
     \/ /\ SnapOf(j).file /\ disk[to].live /\ Faulty /\ Verdict
        /\ disk' = [disk EXCEPT ![to].db = Empty] /\ cut' = cut \union {to}
     \/ /\ ~SnapOf(j).file /\ UNCHANGED <<disk, cut>> /\ Sane /\ Verdict
     \/ /\ SnapOf(j).file /\ disk[to].live /\ Faulty
        /\ \E db \in {disk[to].db, SnapOf(j).db, Empty} : disk' = [disk EXCEPT ![to].db = db]
        /\ job' = bad /\ restored' = [restored EXCEPT ![to] = 0] /\ UNCHANGED cut
     \/ /\ SnapOf(j).file /\ ~disk[to].live /\ Sane
        /\ job' = bad /\ UNCHANGED <<disk, restored, cut>>
  /\ UNCHANGED <<row, rules, snaps, overlap, apart>>

(* Mutant: presets are added, never removed.                               *)
ReconcileAddOnly(j) ==
  /\ JobAt(j, "presets")
  /\ \/ \E p \in job[j].add :
          /\ rules' = [rules EXCEPT ![job[j].to] = @ \union {p}]
          /\ row' = [row EXCEPT ![job[j].to].presets = IF row[job[j].to].listed THEN @ \union {p} ELSE @]
          /\ job' = [job EXCEPT ![j].add = @ \ {p}]
     \/ job[j].add = {} /\ JobTo(j, "done") /\ UNCHANGED <<row, rules>>
  /\ Sane /\ KeepHistory /\ UNCHANGED <<disk, snaps>>

(* removePreset and then applyPreset, one preset after another.  A policy  *)
(* that cannot be read is told before a removal, and taken for empty       *)
(* before an addition; a `policy set' that fails ends the process, which   *)
(* may also die before it has told the registry.                           *)
Reconcile(j) ==
  /\ JobAt(j, "presets")
  /\ LET to   == job[j].to
         less == job[j].del # {}
         todo == IF less THEN job[j].del ELSE job[j].add
         With(set, p) == IF less THEN set \ {p} ELSE set \union {p}
         Told(p) == [row EXCEPT ![to].presets = IF row[to].listed THEN With(@, p) ELSE @]
         rest(p) == [job[j] EXCEPT !.del = @ \ {p}, !.add = IF less THEN @ ELSE @ \ {p}] IN
     \/ \E p \in todo :
          /\ disk[to].live /\ (less => p \in rules[to])
          /\ rules' = [rules EXCEPT ![to] = With(@, p)] /\ row' = Told(p)
          /\ job' = [Shaken(j, to) EXCEPT ![j] = rest(p)]
          /\ Sane /\ KeepHistory
     \/ \E p \in todo :
          /\ disk[to].live /\ ~less /\ Faulty
          /\ rules' = [rules EXCEPT ![to] = {p}] /\ row' = Told(p)
          /\ job' = [Shaken(j, to) EXCEPT ![j] = rest(p)]
          /\ apart' = apart \union {to} /\ UNCHANGED <<restored, overlap, cut>>
     \/ \E p \in todo :
          /\ less /\ job' = [job EXCEPT ![j] = [rest(p) EXCEPT !.warned = TRUE]]
          /\ IF disk[to].live /\ p \in rules[to] THEN Faulty ELSE Sane
          /\ KeepHistory /\ UNCHANGED <<row, rules>>
     \/ /\ todo # {} /\ (less => disk[to].live) /\ Ends(j, "failed")
        /\ IF disk[to].live THEN Faulty ELSE Sane
        /\ KeepHistory /\ UNCHANGED <<row, rules>>
     \/ \E p \in todo :
          /\ disk[to].live /\ (less => p \in rules[to]) /\ Faulty
          /\ rules' = [rules EXCEPT ![to] = With(@, p)] /\ Ends(j, "failed")
          /\ apart' = apart \union {to} /\ UNCHANGED <<row, restored, overlap, cut>>
     \/ todo = {} /\ JobTo(j, "done") /\ Sane /\ KeepHistory /\ UNCHANGED <<row, rules>>
  /\ UNCHANGED <<disk, snaps>>

-----------------------------------------------------------------------------
(* The agent, policy commands, and the death of a command.                 *)

Edit(b) ==
  /\ disk[b].live /\ edits < MaxEdits /\ edits' = edits + 1
  /\ \/ /\ \E f \in Files :
             disk' = [disk EXCEPT ![b].dir = IF f \in @ THEN @ \ {f} ELSE @ \union {f}]
        /\ UNCHANGED <<row, rules>>
     \/ /\ \E d \in Data \ {disk[b].db} : disk' = [disk EXCEPT ![b].db = d]
        /\ UNCHANGED <<row, rules>>
     \/ /\ row[b].listed /\ UNCHANGED disk
        /\ \E p \in Offered : LET on == rules[b] \union {p} IN
             /\ p \notin rules[b]
             /\ rules' = [rules EXCEPT ![b] = on] /\ row' = [row EXCEPT ![b].presets = on]
  /\ job' = [j \in SnapJobs |-> IF "to" \in DOMAIN job[j] /\ job[j].to = b
                                THEN [job[j] EXCEPT !.alone = FALSE] ELSE job[j]]
  /\ Disturb(b)
  /\ UNCHANGED <<snaps, snapCmds, snapFaults>>

JobDies(j) ==
  /\ job[j].at \notin {"idle", "done", "failed", "refused"} /\ Faulty
  /\ Ends(j, "failed")
  /\ Reads /\ UNCHANGED snaps /\ KeepHistory

-----------------------------------------------------------------------------
(* One sandbox is live, with its files; the others do not exist, or exist  *)
(* with nothing in them.                                                   *)
SnapInit ==
  /\ \E b \in Boxes, others \in BOOLEAN :
       /\ disk = [x \in Boxes |-> IF x = b THEN [live |-> TRUE, dir |-> Files, db |-> CHOOSE d \in Data : TRUE]
                                  ELSE [NoDisk EXCEPT !.live = others]]
       /\ row = [x \in Boxes |-> IF x = b THEN [listed |-> TRUE, presets |-> {}]
                                 ELSE [NoRow EXCEPT !.listed = others]]
       /\ rules = [x \in Boxes |-> {}]
  /\ snaps = <<>> /\ job = [j \in SnapJobs |-> NoJob]
  /\ restored = [b \in Boxes |-> 0] /\ overlap = FALSE
  /\ apart = {} /\ cut = {}
  /\ snapCmds = 0 /\ edits = 0 /\ snapFaults = 0

SnapSteps(j) ==
  \/ BackupDirs(j) \/ BackupFile(j) \/ WriteManifest(j)
  \/ DeleteTarget(j) \/ CloneSource(j) \/ CleanTarget(j) \/ ExtractDir(j)
  \/ RestoreFile(j) \/ Reconcile(j)

SnapNext ==
  \/ \E j \in SnapJobs : SnapCreate(j) \/ SnapRestore(j) \/ SnapSteps(j) \/ JobDies(j)
  \/ \E b \in Boxes : Edit(b)

SnapSpec == SnapInit /\ [][SnapNext]_snapVars

-----------------------------------------------------------------------------
(* After a restore that succeeded, undisturbed, the state directory is     *)
(* what it was in the sandbox that was backed up, for a directory that the *)
(* manifest calls backed up, but for the credentials: of these there are   *)
(* none but what the backup could not be rid of, not even newer ones.  The *)
(* state file is that of the snapshot, or empty where its transfer failed  *)
(* unseen: "Restore performs a clean replacement of each state directory". *)
RestoredIsTruth ==
  \A b \in Boxes : restored[b] # 0 =>
    LET s == snaps[restored[b]] IN
      /\ s.kept => /\ disk[b].dir \ Credentials = s.dirThen \ Credentials
                   /\ disk[b].dir \intersect Credentials \subseteq s.dir
      /\ s.file => disk[b].db = IF b \in cut THEN Empty ELSE s.db

(* No two snapshots of a sandbox have the same name, unless two of them    *)
(* were made at the same time.                                             *)
NamesAreUnique ==
  ~overlap => \A b \in Boxes : \A s, t \in Listed(b) :
    snaps[s].tag = snaps[t].tag => s = t \/ snaps[s].tag = NoTag

(* The version of a snapshot stays what the list has shown, unless two     *)
(* were made at the same time (the one that began first may end last).     *)
VersionsStay ==
  [][~overlap' => \A b \in Boxes : \A s \in Listed(b) : Version(s)' = Version(s)]_snapVars

(* After a restore without a warning the gateway enforces the presets of   *)
(* the snapshot, and the registry says so, until a command or the agent    *)
(* touches the sandbox; unless a policy could not be read before one was   *)
(* added to it, a command died before it told the registry, or a clone     *)
(* took over a sandbox with presets.                                       *)
PresetsFollow ==
  \A j \in SnapJobs : LET c == job[j] IN
    JobAt(j, "done") /\ "to" \in DOMAIN c /\ c.alone /\ ~c.warned /\ c.to \notin apart =>
      /\ rules[c.to] = SnapOf(j).presets
      /\ row[c.to].listed => row[c.to].presets = SnapOf(j).presets

=============================================================================
