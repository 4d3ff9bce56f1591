--------------------------- MODULE LifecycleProofs ---------------------------
(* Theorems about Lifecycle, for every set of channels and presets and      *)
(* every bound.                                                             *)
EXTENDS Lifecycle, TLAPS

(***************************************************************************)
(* The inductive invariant.                                                *)
(***************************************************************************)
(* Which command a step belongs to.                                        *)
Ops ==
  /\ cmd.pc = "idle" => cmd = NoCmd
  /\ cmd.pc = "upsert" => cmd.c \subseteq TokenCh
  /\ cmd.pc \in {"open", "backup", "unregister", "stash", "preserve", "restore", "relock",
                 "unmade"} => cmd.op = "rebuild"
  /\ cmd.pc \in {"create", "register", "select", "work"} => cmd.op \in {"rebuild", "resume"}
  /\ cmd.pc = "delete" => cmd.op \in {"rebuild", "destroy"}
  /\ cmd.pc \in {"services", "artifacts", "unlist", "detachSession"} => cmd.op = "destroy"
  /\ cmd.pc \in {"upsert", "enable", "clear", "detach", "disable", "sync"}
       => cmd.op \notin {"rebuild", "resume", "destroy"}
  /\ cmd.pc \in {"apply", "record", "narrow", "forget"} => cmd.op # "destroy"

(* The steps of a rebuild or a resumed onboarding that have a sandbox.     *)
InSandbox == {"open", "backup", "register", "select", "work", "apply", "record", "narrow",
           "forget", "preserve", "restore", "relock"}
HasBox ==
  /\ cmd.op \in {"rebuild", "resume"} /\ cmd.pc \in InSandbox => Live
  /\ cmd.op = "rebuild" /\ cmd.pc = "delete" => Live
  /\ cmd.pc \in {"open", "backup"} => Present

(* What a destroy has already cleaned up, unless it said that it could not *)
(* (told).                                                                 *)
Destroying ==
  /\ gone => Idle
  /\ cmd.pc \in {"services", "artifacts", "unlist", "detachSession"} => ~Live
  /\ cmd.pc \in {"artifacts", "unlist", "detachSession"} /\ ~cmd.told => providers = {}
  /\ cmd.pc \in {"unlist", "detachSession"} /\ ~cmd.told => shield.mode = "none"
  /\ cmd.pc = "detachSession" => ~Present

(* A rebuild that opened the window passes "relock" or has told the user;  *)
(* outside onboard() it narrows no preset, which could end the command.    *)
Relocking ==
  /\ cmd.pc = "open" => ~cmd.was
  /\ cmd.pc = "unmade" /\ cmd.was => cmd.told
  /\ cmd.op = "rebuild" /\ ~cmd.inner
       => /\ cmd.pc \notin {"create", "register", "select", "narrow", "forget"}
          /\ cmd.pc \in {"preserve", "restore", "work", "apply", "record"} => cmd.del = {}
  /\ cmd.op = "resume" => cmd.inner

IInv == LifecycleTypeOK /\ Ops /\ HasBox /\ Destroying /\ DestroyedLeavesNothing
/\ Relocking

(* The command after a step, and what takes a destroy past its deletion.   *)
DyingPc == {"services", "artifacts", "unlist", "detachSession"}
Dies == cmd'.pc \in DyingPc => DeleteSandbox \/ CleanServices \/ CleanShields \/ UnlistSandbox
Good == cmd' \in Command /\ Ops' /\ Relocking' /\ HasBox' /\ Dies

LEMMA Bounds == MaxCmds \in Nat /\ MaxFailures \in Nat /\ MaxDeaths \in Nat
  BY LifecycleBounds

LEMMA NoCmdTyped == NoCmd \in Command
  BY DEF Command, Pc, Op, NoCmd, Entry, NoConfig

(* What the selections of channels and presets return.                     *)
LEMMA SetsTyped ==
  ASSUME IInv
  PROVE  /\ Paused \subseteq Channel
         /\ Prune(cmd.saved, cmd.sb.disabled) \subseteq Preset
         /\ Present => entry \in Entry /\ Applied \subseteq Preset
         /\ Selection \subseteq Preset
         /\ Live => box \in Sandbox /\ box.data \subseteq QrCh
         /\ Channel \subseteq Preset
<1>1. Paused \subseteq Channel BY DEF IInv, LifecycleTypeOK, Paused, Disabled, Present,
  Session, Entry
<1>2. Prune(cmd.saved, cmd.sb.disabled) \subseteq Preset BY DEF IInv, LifecycleTypeOK, Prune,
  Command
<1>3. Present => entry \in Entry BY DEF IInv, LifecycleTypeOK, Present
<1>4. Applied \subseteq Preset BY <1>3 DEF Applied, Present, Entry, Preset
<1>5. Required(PolicyChannels) \subseteq Preset
  BY LifecycleNames DEF Required, Preset, Builtin, Channel
<1>6. Clamped \subseteq Preset BY <1>4 DEF Clamped, Preset
<1>7. Selection \subseteq Preset BY <1>4, <1>5, <1>6 DEF Selection, Prune
<1>8. Live => box \in Sandbox /\ box.data \subseteq QrCh
  BY DEF IInv, LifecycleTypeOK, Live, Sandbox
<1> QED BY <1>1, <1>2, <1>3, <1>4, <1>7, <1>8 DEF Preset, Builtin

(* What each variable is changed by, and its type after.                   *)
LEMMA EntryStep ==
  ASSUME IInv, LifecycleNext
  PROVE  entry' \in Entry \cup {NoEntry}
<1>0. CASE entry' = entry
  BY <1>0 DEF IInv, LifecycleTypeOK
<1>1. CASE ApplyInRegistry
  <2>1. cmd.p \subseteq Preset /\ cmd.p \ Custom \subseteq Preset
        /\ cmd.p \cap Custom \subseteq Custom
    BY DEF IInv, LifecycleTypeOK, Command
  <2>2. \/ entry' = entry
        \/ /\ Present
           /\ entry' = [entry EXCEPT !.policies = entry.policies \cup (cmd.p \ Custom),
                                     !.custom = entry.custom \cup (cmd.p \cap Custom)]
    BY <1>1 DEF ApplyInRegistry
  <2> QED BY <1>0, <2>1, <2>2, SetsTyped DEF Entry
<1>2. CASE NarrowInRegistry
  <2>1. \/ entry' = entry
        \/ /\ Present
           /\ entry' = [entry EXCEPT !.policies = entry.policies \ cmd.p,
                                     !.custom = entry.custom \ cmd.p]
    BY <1>2 DEF NarrowInRegistry
  <2> QED BY <1>0, <2>1, SetsTyped DEF Entry
<1>3. CASE EnableInRegistry
  <2>1. cmd.c \subseteq Channel
    BY DEF IInv, LifecycleTypeOK, Command
  <2>2. /\ Present
        /\ entry' = [entry EXCEPT !.channels = entry.channels \cup cmd.c, !.listed = TRUE,
                                  !.disabled = entry.disabled \ cmd.c]
    BY <1>3 DEF EnableInRegistry
  <2> QED BY <2>1, <2>2, SetsTyped DEF Entry
<1>4. CASE DisableInRegistry
  BY <1>4, SetsTyped DEF DisableInRegistry, Entry
<1>5. ASSUME NEW c \in Channel, ChannelStop(c) \/ ChannelStart(c)
      PROVE  entry' \in Entry \cup {NoEntry}
  BY <1>5, SetsTyped DEF ChannelStop, ChannelStart, Entry
<1>6. CASE UnregisterSandbox \/ CreateSandbox \/ UnlistSandbox
  BY <1>6 DEF UnregisterSandbox, CreateSandbox, UnlistSandbox
<1>7. CASE RegisterSandbox
  <2>1. Live
    BY <1>7 DEF RegisterSandbox, At, IInv, Ops, HasBox, InSandbox
  <2>2. /\ session.channels \subseteq Channel /\ cmd.off \subseteq Channel
        /\ Required(box.active) \subseteq Preset
    BY <2>1, SetsTyped DEF IInv, LifecycleTypeOK, Session, Command, Sandbox, Required
  <2> QED BY <1>7, <2>2 DEF RegisterSandbox, Registered, Entry
<1>8. CASE PreserveFields
  <2>1. session.channels \subseteq Channel /\ cmd.sb.disabled \subseteq Channel
    BY DEF IInv, LifecycleTypeOK, Session, Command, Entry
  <2>2. /\ Present
        /\ entry' = [entry EXCEPT !.channels = session.channels, !.disabled = cmd.sb.disabled]
    BY <1>8 DEF PreserveFields
  <2> QED BY <2>1, <2>2, SetsTyped DEF Entry
<1>9. CASE Recover
  <2>1. session.presets \subseteq Preset
    BY DEF IInv, LifecycleTypeOK, Session
  <2>2. entry' = [NoConfig EXCEPT !.policies = {}]
        \/ entry' = [NoConfig EXCEPT !.policies = session.presets]
    BY <1>9 DEF Recover
  <2> QED BY <2>1, <2>2 DEF NoConfig, Entry
<1>10. CASE RecoverOther
  BY <1>10, SetsTyped DEF RecoverOther, IInv, LifecycleTypeOK, Session, Entry
<1>11. ASSUME NEW s \in UserChoices, Onboard(s, Extra)
       PROVE  entry' \in Entry \cup {NoEntry}
  <2>1. s \subseteq Channel /\ Disabled \subseteq Channel
        /\ Extra \cup Required(s) \subseteq Preset
    BY SetsTyped DEF UserChoices, Disabled, Required, Entry, Preset, Builtin
  <2> QED BY <1>11, <2>1 DEF Onboard, OnboardedEntry, Entry
<1>12. SUFFICES ASSUME ~ApplyInRegistry, ~NarrowInRegistry, ~EnableInRegistry,
                       ~DisableInRegistry, ~UnregisterSandbox, ~CreateSandbox,
                       ~UnlistSandbox, ~RegisterSandbox, ~PreserveFields, ~Recover,
                       ~RecoverOther,
                       \A c \in Channel : ~ChannelStop(c),
                       \A c \in Channel : ~ChannelStart(c),
                       \A s \in UserChoices : ~Onboard(s, Extra)
                PROVE  entry' = entry
  BY <1>0, <1>1, <1>2, <1>3, <1>4, <1>5, <1>6, <1>7, <1>8, <1>9, <1>10, <1>11
<1> QED
  BY <1>12, ZenonT(30) DEF LifecycleNext, CommandStarts, CommandSteps, work,
     ApplyAtGateway, ApplyFails, Backup, ChannelAdd, ChannelRemove, CleanServices,
     CleanShields, ClearState, DeleteSandbox, Destroy, DetachProvider, DetachSession, Die,
     NarrowAtGateway, NarrowFails, OnboardOther, OpenWindow, Pair, PolicyAdd, PolicyRemove,
     PresetsDone, Rebuild, RebuildFails, Relock, RestoreState, Resume, SelectPresets,
     ShieldsDown, ShieldsUp, StashInSession, SyncSession, UpsertProvider, NextPreset

LEMMA SessionStep ==
  ASSUME IInv, LifecycleNext
  PROVE  session' \in Session
<1>0. session \in Session
  BY DEF IInv, LifecycleTypeOK
<1>1. CASE SyncSession
  <2>1. session.presets \cup cmd.p \subseteq Preset
        /\ session.presets \ cmd.p \subseteq Preset
    BY <1>0 DEF IInv, LifecycleTypeOK, Command, Session
  <2> QED BY <1>0, <1>1, <2>1 DEF SyncSession, Session
<1>2. CASE StashInSession
  <2>1. Recorded \subseteq Channel /\ cmd.sb.disabled \subseteq Channel
    BY <1>0 DEF Recorded, IInv, LifecycleTypeOK, Session, Command, Entry
  <2>2. session' = [session EXCEPT !.own = TRUE, !.open = TRUE, !.channels = Recorded,
                                   !.disabled = cmd.sb.disabled, !.mirrored = TRUE]
    BY <1>2 DEF StashInSession
  <2> QED BY <1>0, <2>1, <2>2 DEF Session
<1>3. CASE CreateSandbox \/ RegisterSandbox
  <2>1. session' = [session EXCEPT !.confirmed = FALSE]
        \/ session' = [session EXCEPT !.confirmed = TRUE]
    BY <1>3 DEF CreateSandbox, RegisterSandbox
  <2> QED BY <1>0, <2>1 DEF Session
<1>4. CASE SelectPresets
  <2>1. Selection \subseteq Preset /\ session' = [session EXCEPT !.presets = Selection]
    BY <1>4, SetsTyped DEF SelectPresets
  <2> QED BY <1>0, <2>1 DEF Session
<1>5. CASE PresetsDone
  <2>1. session' = session \/ session' = [session EXCEPT !.open = FALSE]
    BY <1>5 DEF PresetsDone
  <2> QED BY <1>0, <2>1 DEF Session
<1>6. CASE DetachSession
  <2>1. session' = [session EXCEPT !.own = FALSE]
    BY <1>6 DEF DetachSession
  <2> QED BY <1>0, <2>1 DEF Session
<1>7. ASSUME NEW s \in UserChoices, Onboard(s, Extra) \/ OnboardOther(s, Extra)
      PROVE  session' \in Session
  <2>1. s \subseteq Channel /\ Extra \cup Required(s) \subseteq Preset
    BY SetsTyped DEF UserChoices, Required, Preset, Builtin
  <2>2. Onboarded(s, Extra) \in Session
    BY <2>1 DEF Onboarded, Session
  <2>3. session' = Onboarded(s, Extra)
        \/ session' = [Onboarded(s, Extra) EXCEPT !.own = FALSE]
    BY <1>7 DEF Onboard, OnboardOther
  <2> QED BY <2>2, <2>3 DEF Session
<1>8. SUFFICES ASSUME ~SyncSession, ~StashInSession, ~CreateSandbox, ~RegisterSandbox,
                      ~SelectPresets, ~PresetsDone, ~DetachSession,
                      \A s \in UserChoices : ~Onboard(s, Extra),
                      \A s \in UserChoices : ~OnboardOther(s, Extra)
               PROVE  session' = session
  BY <1>0, <1>1, <1>2, <1>3, <1>4, <1>5, <1>6, <1>7
<1> QED
  BY <1>8, ZenonT(30) DEF LifecycleNext, CommandStarts, CommandSteps, work,
     ApplyAtGateway, ApplyFails, ApplyInRegistry, Backup, ChannelAdd, ChannelRemove,
     ChannelStart, ChannelStop, CleanServices, CleanShields, ClearState, DeleteSandbox,
     Destroy, DetachProvider, Die, DisableInRegistry, EnableInRegistry, NarrowAtGateway,
     NarrowFails, NarrowInRegistry, OpenWindow, Pair, PolicyAdd, PolicyRemove,
     PreserveFields, Rebuild, RebuildFails, Recover, RecoverOther, Relock, RestoreState,
     Resume, ShieldsDown, ShieldsUp, UnlistSandbox, UnregisterSandbox, UpsertProvider,
     NextPreset

LEMMA FreshTyped ==
  ASSUME IInv
  PROVE  Fresh(ActiveOf(session.channels, Paused)) \in Sandbox
<1> DEFINE active == ActiveOf(session.channels, Paused)
<1>1. active \subseteq Channel
  BY SetsTyped DEF ActiveOf, IInv, LifecycleTypeOK, Session
<1>2. Required(active) \subseteq Preset
  BY <1>1, SetsTyped DEF Required
<1> QED BY <1>1, <1>2 DEF Fresh, Sandbox

(* A sandbox goes only by DeleteSandbox.                                   *)
LEMMA BoxStep ==
  ASSUME IInv, LifecycleNext
  PROVE  /\ box' \in Sandbox \cup {NoBox}
         /\ Live /\ cmd.pc # "delete" => Live'
<1> DEFINE Typed == /\ box' \in Sandbox \cup {NoBox}
                    /\ Live /\ cmd.pc # "delete" => Live'
<1>0. ASSUME box' \in Sandbox PROVE Typed
  BY <1>0, LifecycleNone DEF Live
<1>1. Live => box \in Sandbox
  BY SetsTyped
<1>2. CASE ApplyAtGateway
  <2>1. Live /\ cmd.p \subseteq Preset
    BY <1>2 DEF ApplyAtGateway, IInv, LifecycleTypeOK, Command
  <2>2. box' = [box EXCEPT !.live = box.live \cup cmd.p] \/ box' = [box EXCEPT !.live = cmd.p]
    BY <1>2 DEF ApplyAtGateway
  <2> QED BY <1>0, <1>1, <2>1, <2>2 DEF Sandbox
<1>3. CASE NarrowAtGateway
  BY <1>0, <1>1, <1>3 DEF NarrowAtGateway, Sandbox
<1>4. CASE ClearState /\ box' # box
  BY <1>0, <1>1, <1>4 DEF ClearState, Sandbox
<1>5. CASE OpenWindow /\ box' # box
  <2>1. Live
    BY <1>5 DEF OpenWindow, At, IInv, Ops, HasBox, InSandbox
  <2>2. box' = [box EXCEPT !.live = {}, !.locked = FALSE]
    BY <1>5 DEF OpenWindow
  <2> QED BY <1>0, <1>1, <2>1, <2>2 DEF Sandbox
<1>6. CASE DeleteSandbox
  <2>1. cmd.pc = "delete" /\ (box' = NoBox \/ box' = box)
    BY <1>6 DEF DeleteSandbox, At
  <2> QED BY <2>1 DEF IInv, LifecycleTypeOK
<1>7. CASE CreateSandbox /\ box' # box
  <2>1. box' = Fresh(ActiveOf(session.channels, Paused))
    BY <1>7 DEF CreateSandbox
  <2> QED BY <1>0, <2>1, FreshTyped
<1>8. CASE RestoreState
  <2>1. Live /\ cmd.data \subseteq QrCh
    BY <1>8 DEF RestoreState, At, IInv, Ops, HasBox, InSandbox, LifecycleTypeOK, Command
  <2>2. \E d \in SUBSET QrCh : box' = [box EXCEPT !.data = d]
    BY <1>8, <2>1 DEF RestoreState
  <2> QED BY <1>0, <1>1, <2>1, <2>2 DEF Sandbox
<1>9. CASE Relock /\ box' # box
  <2>1. Live
    BY <1>9 DEF Relock, At, IInv, Ops, HasBox, InSandbox
  <2>2. shield.snap \subseteq Preset
    BY DEF IInv, LifecycleTypeOK
  <2>3. box' = [box EXCEPT !.locked = TRUE, !.live = shield.snap]
        \/ box' = [box EXCEPT !.locked = TRUE, !.live = box.live]
    BY <1>9 DEF Relock, LockUp
  <2> QED BY <1>0, <1>1, <2>1, <2>2, <2>3 DEF Sandbox
<1>10. ASSUME NEW c \in Channel, Pair(c)
       PROVE  Typed
  BY <1>0, <1>1, <1>10 DEF Pair, Sandbox
<1>11. CASE ShieldsUp
  <2>1. Live /\ shield.snap \subseteq Preset
    BY <1>11 DEF ShieldsUp, IInv, LifecycleTypeOK
  <2>2. box' = [box EXCEPT !.locked = TRUE, !.live = shield.snap]
        \/ box' = [box EXCEPT !.locked = TRUE, !.live = box.live]
    BY <1>11 DEF ShieldsUp, LockUp
  <2> QED BY <1>0, <1>1, <2>1, <2>2 DEF Sandbox
<1>12. CASE ShieldsDown
  <2>1. Live /\ box' = [box EXCEPT !.live = {}, !.locked = FALSE]
    BY <1>12 DEF ShieldsDown
  <2> QED BY <1>0, <1>1, <2>1 DEF Sandbox
<1>13. ASSUME NEW s \in UserChoices, Onboard(s, Extra)
       PROVE  Typed
  <2>1. s \ Disabled \subseteq Channel /\ Extra \cup Required(s) \subseteq Preset
    BY SetsTyped DEF UserChoices, Required, Preset, Builtin
  <2> QED BY <1>0, <1>13, <2>1 DEF Onboard, OnboardedBox, Sandbox
<1>14. CASE box' = box
  BY <1>14 DEF IInv, LifecycleTypeOK, Live
<1>15. SUFFICES ASSUME ~ApplyAtGateway, ~NarrowAtGateway, ~ClearState, ~OpenWindow,
                       ~DeleteSandbox, ~CreateSandbox, ~RestoreState, ~Relock,
                       \A c \in Channel : ~Pair(c), ~ShieldsUp, ~ShieldsDown,
                       \A s \in UserChoices : ~Onboard(s, Extra)
                PROVE  box' = box
  BY <1>2, <1>3, <1>4, <1>5, <1>6, <1>7, <1>8, <1>9, <1>10, <1>11, <1>12, <1>13, <1>14
<1> QED
  BY <1>15, ZenonT(30) DEF LifecycleNext, CommandStarts, CommandSteps, work,
     ApplyFails, ApplyInRegistry, Backup, ChannelAdd, ChannelRemove, ChannelStart,
     ChannelStop, CleanServices, CleanShields, Destroy, DetachProvider, DetachSession, Die,
     DisableInRegistry, EnableInRegistry, NarrowFails, NarrowInRegistry, OnboardOther,
     PolicyAdd, PolicyRemove, PreserveFields, PresetsDone, Rebuild, RebuildFails, Recover,
     RecoverOther, RegisterSandbox, Resume, SelectPresets, StashInSession, SyncSession,
     UnlistSandbox, UnregisterSandbox, UpsertProvider, NextPreset

(* Providers and shields.                                                  *)
LEMMA OthersStep ==
  ASSUME IInv, LifecycleNext
  PROVE  /\ providers' \subseteq TokenCh
         /\ shield' \in [mode : {"none", "down", "up"}, snap : SUBSET Preset]
<1> DEFINE Shield == [mode : {"none", "down", "up"}, snap : SUBSET Preset]
<1>0. providers \subseteq TokenCh /\ shield \in Shield
  BY DEF IInv, LifecycleTypeOK
<1>1. CASE UpsertProvider
  <2>1. cmd.c \subseteq TokenCh /\ shield' = shield
    BY <1>1 DEF UpsertProvider, At, IInv, Ops
  <2> QED BY <1>0, <1>1, <2>1 DEF UpsertProvider
<1>2. CASE DetachProvider \/ CleanServices
  BY <1>0, <1>2 DEF DetachProvider, CleanServices
<1>3. ASSUME NEW s \in UserChoices, Onboard(s, Extra)
      PROVE  providers' \subseteq TokenCh /\ shield' \in Shield
  BY <1>0, <1>3 DEF Onboard
<1>4. CASE OpenWindow
  <2>1. Live
    BY <1>4 DEF OpenWindow, At, IInv, Ops, HasBox, InSandbox
  <2>2. box.live \subseteq Preset
    BY <2>1, SetsTyped DEF Sandbox
  <2> QED BY <1>0, <1>4, <2>2 DEF OpenWindow
<1>5. CASE Relock \/ ShieldsUp
  BY <1>0, <1>5 DEF Relock, ShieldsUp, LockUp
<1>6. CASE CleanShields
  BY <1>0, <1>6 DEF CleanShields
<1>7. CASE ShieldsDown
  <2>1. box.live \subseteq Preset
    BY <1>7, SetsTyped DEF ShieldsDown, Sandbox
  <2> QED BY <1>0, <1>7, <2>1 DEF ShieldsDown
<1>8. SUFFICES ASSUME ~UpsertProvider, ~DetachProvider, ~CleanServices, ~OpenWindow,
                      ~Relock,
                      ~CleanShields, ~ShieldsUp, ~ShieldsDown,
                      \A s \in UserChoices : ~Onboard(s, Extra)
               PROVE  providers' = providers /\ shield' = shield
  BY <1>0, <1>1, <1>2, <1>3, <1>4, <1>5, <1>6, <1>7
<1> QED
  BY <1>8, ZenonT(30) DEF LifecycleNext, CommandStarts, CommandSteps, work,
     ApplyAtGateway, ApplyFails, ApplyInRegistry, Backup, ChannelAdd, ChannelRemove,
     ChannelStart, ChannelStop, ClearState, CreateSandbox, DeleteSandbox, Destroy,
     DetachSession, Die, DisableInRegistry, EnableInRegistry, NarrowAtGateway, NarrowFails,
     NarrowInRegistry, OnboardOther, Pair, PolicyAdd, PolicyRemove, PreserveFields,
     PresetsDone, Rebuild, RebuildFails, Recover, RecoverOther, RegisterSandbox,
     RestoreState, Resume, SelectPresets, StashInSession, SyncSession, UnlistSandbox,
     UnregisterSandbox, NextPreset

(* The history.                                                            *)
LEMMA HistoryStep ==
  ASSUME IInv, LifecycleNext
  PROVE  /\ stopped' \subseteq Channel /\ removed' \subseteq Channel
         /\ gone' \in BOOLEAN /\ mislaid' \in BOOLEAN /\ strayed' \in BOOLEAN
<1>0. /\ stopped \subseteq Channel /\ removed \subseteq Channel
      /\ gone \in BOOLEAN /\ mislaid \in BOOLEAN /\ strayed \in BOOLEAN
  BY DEF IInv, LifecycleTypeOK
<1> DEFINE Kept == gone' \in BOOLEAN /\ mislaid' \in BOOLEAN /\ strayed' \in BOOLEAN
           Sets == stopped' \subseteq Channel /\ removed' \subseteq Channel
<1>1. CASE UNCHANGED history
  BY <1>0, <1>1 DEF history
<1>2. CASE UpsertProvider \/ EnableInRegistry
  <2>1. Sets BY <1>0, <1>2 DEF UpsertProvider, EnableInRegistry
  <2>2. Kept BY <1>0, <1>2 DEF UpsertProvider, EnableInRegistry
  <2> QED BY <2>1, <2>2
<1>3. CASE DisableInRegistry
  <2>1. cmd.c \cap entry.channels \subseteq Channel
    BY DEF IInv, LifecycleTypeOK, Command
  <2>2. Sets BY <1>0, <1>3, <2>1 DEF DisableInRegistry
  <2>3. Kept BY <1>0, <1>3 DEF DisableInRegistry
  <2> QED BY <2>2, <2>3
<1>4. ASSUME NEW c \in Channel, ChannelStop(c) \/ ChannelStart(c)
      PROVE  Sets /\ Kept
  <2>1. Sets BY <1>0, <1>4 DEF ChannelStop, ChannelStart
  <2>2. Kept BY <1>0, <1>4 DEF ChannelStop, ChannelStart
  <2> QED BY <2>1, <2>2
<1>5. CASE ApplyAtGateway \/ ApplyFails
  <2>1. Sets BY <1>0, <1>5 DEF ApplyAtGateway, ApplyFails, Keep, history
  <2>2. Kept BY <1>0, <1>5 DEF ApplyAtGateway, ApplyFails, Keep, history
  <2> QED BY <2>1, <2>2
<1>6. CASE CreateSandbox \/ DetachSession
  <2>1. Sets BY <1>0, <1>6 DEF CreateSandbox, DetachSession
  <2>2. Kept BY <1>0, <1>6 DEF CreateSandbox, DetachSession
  <2> QED BY <2>1, <2>2
<1>7. CASE ShieldsUp \/ ShieldsDown \/ Recover \/ RecoverOther
  <2>1. Sets BY <1>0, <1>7 DEF ShieldsUp, ShieldsDown, Recover, RecoverOther
  <2>2. Kept BY <1>0, <1>7 DEF ShieldsUp, ShieldsDown, Recover, RecoverOther
  <2> QED BY <2>1, <2>2
<1>8. ASSUME NEW s \in UserChoices, Onboard(s, Extra)
      PROVE  Sets /\ Kept
  <2>1. Sets BY <1>0, <1>8 DEF Onboard
  <2>2. Kept BY <1>0, <1>8 DEF Onboard
  <2> QED BY <2>1, <2>2
<1>9. CASE Die
  <2>1. Sets BY <1>0, <1>9 DEF Die
  <2>2. Kept BY <1>0, <1>9 DEF Die
  <2> QED BY <2>1, <2>2
<1>10. SUFFICES ASSUME ~UpsertProvider, ~EnableInRegistry, ~DisableInRegistry,
                       ~ApplyAtGateway,
                       ~ApplyFails, ~CreateSandbox, ~DetachSession, ~ShieldsUp,
                       ~ShieldsDown,
                       ~Recover, ~RecoverOther, ~Die, \A c \in Channel : ~ChannelStop(c),
                       \A c \in Channel : ~ChannelStart(c),
                       \A s \in UserChoices : ~Onboard(s, Extra)
                PROVE  UNCHANGED history
  BY <1>1, <1>2, <1>3, <1>4, <1>5, <1>6, <1>7, <1>8, <1>9
<1> QED
  BY <1>10, ZenonT(30) DEF LifecycleNext, CommandStarts, CommandSteps, Keep,
     ApplyInRegistry, Backup, ChannelAdd, ChannelRemove, CleanServices, CleanShields,
     ClearState, DeleteSandbox, Destroy, DetachProvider, NarrowAtGateway, NarrowFails,
     NarrowInRegistry, OnboardOther, OpenWindow, Pair, PolicyAdd, PolicyRemove,
     PreserveFields, PresetsDone, Rebuild, RebuildFails, RegisterSandbox, Relock,
     RestoreState, Resume, SelectPresets, StashInSession, SyncSession, UnlistSandbox,
     UnregisterSandbox, NextPreset

LEMMA BudgetStep ==
  ASSUME IInv, LifecycleNext
  PROVE  cmds' \in 0 .. MaxCmds /\ failures' \in 0 .. MaxFailures
  /\ deaths' \in 0 .. MaxDeaths
<1>0. cmds \in 0 .. MaxCmds /\ failures \in 0 .. MaxFailures /\ deaths \in 0 .. MaxDeaths
  BY DEF IInv, LifecycleTypeOK
<1>1. CASE UNCHANGED <<cmds, failures, deaths>>
  BY <1>0, <1>1
<1>2. CASE cmds < MaxCmds /\ cmds' = cmds + 1 /\ UNCHANGED <<failures, deaths>>
  BY <1>0, <1>2, Bounds
<1>3. CASE Failure
  BY <1>0, <1>3, Bounds DEF Failure
<1>4. CASE Die
  BY <1>0, <1>4, Bounds DEF Die
<1> QED
  BY <1>1, <1>2, <1>3, <1>4, ZenonT(30) DEF LifecycleNext, CommandStarts, CommandSteps,
     Begin, Step, Goto, End, FailEnd, FailTo, lbudgets,
     ApplyAtGateway, ApplyFails, ApplyInRegistry, Backup, ChannelAdd, ChannelRemove,
     ChannelStart, ChannelStop, CleanServices, CleanShields, ClearState, CreateSandbox,
     DeleteSandbox, Destroy, DetachProvider, DetachSession, DisableInRegistry,
     EnableInRegistry, NarrowAtGateway, NarrowFails, NarrowInRegistry, Onboard,
     OnboardOther, OpenWindow, Pair, PolicyAdd, PolicyRemove, PreserveFields, PresetsDone,
     Rebuild, RebuildFails, Recover, RecoverOther, RegisterSandbox, Relock, RestoreState,
     Resume, SelectPresets, ShieldsDown, ShieldsUp, StashInSession, SyncSession,
     UnlistSandbox, UnregisterSandbox, UpsertProvider, NextPreset

(* A backup fails, or is remembered in the command.                        *)
LEMMA BackupForms ==
  ASSUME Backup
  PROVE  \/ cmd' = [cmd EXCEPT !.pc = "relock"]
         \/ \E d \in SUBSET box.data :
              cmd' = [cmd EXCEPT !.pc = "delete", !.data = d, !.saved = entry.policies]
  BY DEF Backup, Step, FailTo

(* The next command is of its type and keeps the parts of the invariant.   *)
LEMMA CommandStep ==
  ASSUME IInv, LifecycleNext, Live /\ cmd.pc # "delete" => Live'
  PROVE  Good
<1>0. ASSUME cmd' = NoCmd PROVE Good
  BY <1>0, NoCmdTyped DEF Good, NoCmd, Ops, Relocking, HasBox, InSandbox, Dies, DyingPc
<1>1. Live /\ cmd.pc # "delete" => Live'
  OBVIOUS
<1> USE DEF Good, IInv, LifecycleTypeOK, Command, Op, Pc, Ops, Relocking, HasBox, InSandbox,
  Live, Present, NoCmd, Dies, DyingPc
<1>2. ASSUME NEW p \in Preset, PolicyAdd(p)
         PROVE  Good
  <2>1. /\ cmd.pc = "idle"
        /\ cmd' = [NoCmd EXCEPT !.op = "addPolicy", !.pc = "apply", !.p = {p}]
    BY <1>2 DEF PolicyAdd, Begin, Idle
  <2>0. {p} \in SUBSET Preset
    BY <1>2, <2>1, SetsTyped, NoCmdTyped DEF IInv, LifecycleTypeOK, Command, Entry
  <2>2. Good
    <3>1. cmd' \in Command
      BY ZenonT(60), <2>1, <2>0, SetsTyped, NoCmdTyped DEF IInv, LifecycleTypeOK, Command, Op, Pc
    <3>2. Ops' /\ Relocking' /\ HasBox' /\ Dies
      BY <1>1, <2>1, <2>0
    <3> QED BY <3>1, <3>2 DEF Good
  <2> QED BY <2>2
<1>3. ASSUME NEW p \in Preset, PolicyRemove(p)
         PROVE  Good
  <2>1. /\ cmd.pc = "idle"
        /\ cmd' = [NoCmd EXCEPT !.op = "removePolicy", !.pc = "narrow", !.p = {p}]
    BY <1>3 DEF PolicyRemove, Begin, Idle
  <2>0. {p} \in SUBSET Preset
    BY <1>3, <2>1, SetsTyped, NoCmdTyped DEF IInv, LifecycleTypeOK, Command, Entry
  <2>2. Good
    <3>1. cmd' \in Command
      BY ZenonT(60), <2>1, <2>0, SetsTyped, NoCmdTyped DEF IInv, LifecycleTypeOK, Command, Op, Pc
    <3>2. Ops' /\ Relocking' /\ HasBox' /\ Dies
      BY <1>1, <2>1, <2>0
    <3> QED BY <3>1, <3>2 DEF Good
  <2> QED BY <2>2
<1>4. CASE ApplyAtGateway
  <2>1. cmd.pc = "apply" /\ cmd' = [cmd EXCEPT !.pc = "record"]
    BY <1>4 DEF ApplyAtGateway, At, Goto, Step, FailTo
  <2> QED BY <1>1, <2>1, SetsTyped, NoCmdTyped
<1>5. CASE ApplyInRegistry
  <2>1. cmd.pc = "record"
    BY <1>5 DEF ApplyInRegistry, At, Step, AfterPreset
  <2>0. cmd.add \ cmd.p \in SUBSET Preset
    BY <1>5, <2>1, SetsTyped, NoCmdTyped DEF IInv, LifecycleTypeOK, Command, Entry
  <2>2. \/ /\ cmd.op \in {"rebuild", "resume"}
           /\ cmd' = [cmd EXCEPT !.pc = "work", !.add = cmd.add \ cmd.p]
        \/ /\ cmd.op \notin {"rebuild", "resume"}
           /\ cmd' = [cmd EXCEPT !.pc = "sync", !.add = cmd.add \ cmd.p]
    BY <1>5 DEF ApplyInRegistry, At, Step, AfterPreset
  <2>3. CASE /\ cmd.op \in {"rebuild", "resume"}
             /\ cmd' = [cmd EXCEPT !.pc = "work", !.add = cmd.add \ cmd.p]
    <3>1. cmd' \in Command
      BY ZenonT(60), <2>3, <2>0, SetsTyped, NoCmdTyped DEF IInv, LifecycleTypeOK, Command, Op, Pc
    <3>2. Ops' /\ Relocking' /\ HasBox' /\ Dies
      BY <1>1, <2>1, <2>0, <2>3
    <3> QED BY <3>1, <3>2 DEF Good
  <2>4. CASE /\ cmd.op \notin {"rebuild", "resume"}
             /\ cmd' = [cmd EXCEPT !.pc = "sync", !.add = cmd.add \ cmd.p]
    <3>1. cmd' \in Command
      BY ZenonT(60), <2>4, <2>0, SetsTyped, NoCmdTyped DEF IInv, LifecycleTypeOK, Command, Op, Pc
    <3>2. Ops' /\ Relocking' /\ HasBox' /\ Dies
      BY <1>1, <2>1, <2>0, <2>4
    <3> QED BY <3>1, <3>2 DEF Good
  <2> QED BY <2>2, <2>3, <2>4
<1>6. CASE ApplyFails
  <2>1. cmd.pc = "apply"
    BY <1>6 DEF ApplyFails, At, For, Step, End, FailTo, FailEnd, Unrecreated
  <2>2. \/ cmd' = NoCmd
        \/ cmd.op = "rebuild" /\ cmd' = [cmd EXCEPT !.pc = "unmade", !.told = cmd.was]
    BY <1>6 DEF ApplyFails, At, For, Step, End, FailTo, FailEnd, Unrecreated
  <2>3. CASE cmd' = NoCmd BY <2>3, <1>0
  <2>4. CASE cmd.op = "rebuild" /\ cmd' = [cmd EXCEPT !.pc = "unmade", !.told = cmd.was]
    BY ZenonT(60), <1>1, <2>1, <2>4, SetsTyped, NoCmdTyped
  <2> QED BY <2>2, <2>3, <2>4
<1>7. CASE NarrowAtGateway
  <2>1. cmd.pc = "narrow" /\ cmd' = [cmd EXCEPT !.pc = "forget"]
    BY <1>7 DEF NarrowAtGateway, At, Goto, Step
  <2> QED BY <1>1, <2>1, SetsTyped, NoCmdTyped
<1>8. CASE NarrowInRegistry
  <2>1. cmd.pc = "forget"
    BY <1>8 DEF NarrowInRegistry, At, Step, AfterPreset
  <2>0. cmd.del \ cmd.p \in SUBSET Preset
    BY <1>8, <2>1, SetsTyped, NoCmdTyped DEF IInv, LifecycleTypeOK, Command, Entry
  <2>2. \/ /\ cmd.op \in {"rebuild", "resume"}
           /\ cmd' = [cmd EXCEPT !.pc = "work", !.del = cmd.del \ cmd.p]
        \/ /\ cmd.op \notin {"rebuild", "resume"}
           /\ cmd' = [cmd EXCEPT !.pc = "sync", !.del = cmd.del \ cmd.p]
    BY <1>8 DEF NarrowInRegistry, At, Step, AfterPreset
  <2>3. CASE /\ cmd.op \in {"rebuild", "resume"}
             /\ cmd' = [cmd EXCEPT !.pc = "work", !.del = cmd.del \ cmd.p]
    <3>1. cmd' \in Command
      BY ZenonT(60), <2>3, <2>0, SetsTyped, NoCmdTyped DEF IInv, LifecycleTypeOK, Command, Op, Pc
    <3>2. Ops' /\ Relocking' /\ HasBox' /\ Dies
      BY <1>1, <2>1, <2>0, <2>3
    <3> QED BY <3>1, <3>2 DEF Good
  <2>4. CASE /\ cmd.op \notin {"rebuild", "resume"}
             /\ cmd' = [cmd EXCEPT !.pc = "sync", !.del = cmd.del \ cmd.p]
    <3>1. cmd' \in Command
      BY ZenonT(60), <2>4, <2>0, SetsTyped, NoCmdTyped DEF IInv, LifecycleTypeOK, Command, Op, Pc
    <3>2. Ops' /\ Relocking' /\ HasBox' /\ Dies
      BY <1>1, <2>1, <2>0, <2>4
    <3> QED BY <3>1, <3>2 DEF Good
  <2> QED BY <2>2, <2>3, <2>4
<1>9. CASE NarrowFails
  <2>1. cmd.pc = "narrow"
    BY <1>9 DEF NarrowFails, At, For, Step, End, FailTo, FailEnd, Unrecreated
  <2>2. \/ cmd' = NoCmd
        \/ cmd.op = "rebuild" /\ cmd' = [cmd EXCEPT !.pc = "unmade", !.told = cmd.was]
    BY <1>9 DEF NarrowFails, At, For, Step, End, FailTo, FailEnd, Unrecreated
  <2>3. CASE cmd' = NoCmd BY <2>3, <1>0
  <2>4. CASE cmd.op = "rebuild" /\ cmd' = [cmd EXCEPT !.pc = "unmade", !.told = cmd.was]
    BY ZenonT(60), <1>1, <2>1, <2>4, SetsTyped, NoCmdTyped
  <2> QED BY <2>2, <2>3, <2>4
<1>10. CASE SyncSession
  <2>1. cmd.pc = "sync"
    BY <1>10 DEF SyncSession, At, For, Goto, Step, End
  <2>2. \/ cmd' = NoCmd
        \/ cmd' = [cmd EXCEPT !.pc = "enable"]
    BY <1>10 DEF SyncSession, At, For, Goto, Step, End
  <2>3. CASE cmd' = NoCmd BY <2>3, <1>0
  <2>4. CASE cmd' = [cmd EXCEPT !.pc = "enable"]
    BY <1>1, <2>1, <2>4, SetsTyped, NoCmdTyped
  <2> QED BY <2>2, <2>3, <2>4
<1>11. ASSUME NEW c \in Channel, ChannelAdd(c)
         PROVE  Good
  <2>1. cmd.pc = "idle"
    BY <1>11 DEF ChannelAdd, Begin, Idle, Channel
  <2>0. {c} \in SUBSET Channel /\ {c} \in SUBSET Preset
    BY <1>11, <2>1, SetsTyped, NoCmdTyped DEF IInv, LifecycleTypeOK, Command, Entry
  <2>2. \/ cmd' = [NoCmd EXCEPT !.op = "addChannel", !.c = {c},
                                !.p = {c}, !.pc = "apply"]
        \/ /\ c \in TokenCh
           /\ cmd' = [NoCmd EXCEPT !.op = "addChannel", !.c = {c},
                                   !.p = {c}, !.pc = "upsert"]
    BY <1>11 DEF ChannelAdd, Begin, Idle, Channel
  <2>3. CASE cmd' = [NoCmd EXCEPT !.op = "addChannel", !.c = {c},
                                  !.p = {c}, !.pc = "apply"]
    <3>1. cmd' \in Command
      BY ZenonT(60), <2>3, <2>0, SetsTyped, NoCmdTyped DEF IInv, LifecycleTypeOK, Command, Op, Pc
    <3>2. Ops' /\ Relocking' /\ HasBox' /\ Dies
      BY <1>1, <2>1, <2>0, <2>3
    <3> QED BY <3>1, <3>2 DEF Good
  <2>4. CASE /\ c \in TokenCh
             /\ cmd' = [NoCmd EXCEPT !.op = "addChannel", !.c = {c},
                                     !.p = {c}, !.pc = "upsert"]
    <3>1. cmd' \in Command
      BY ZenonT(60), <2>4, <2>0, SetsTyped, NoCmdTyped DEF IInv, LifecycleTypeOK, Command, Op, Pc
    <3>2. Ops' /\ Relocking' /\ HasBox' /\ Dies
      BY <1>1, <2>1, <2>0, <2>4
    <3> QED BY <3>1, <3>2 DEF Good
  <2> QED BY <2>2, <2>3, <2>4
<1>12. CASE UpsertProvider
  <2>1. cmd.pc = "upsert"
    BY <1>12 DEF UpsertProvider, At, Goto, Step, FailEnd
  <2>2. \/ cmd' = NoCmd
        \/ cmd' = [cmd EXCEPT !.pc = "enable"]
    BY <1>12 DEF UpsertProvider, At, Goto, Step, FailEnd
  <2>3. CASE cmd' = NoCmd BY <2>3, <1>0
  <2>4. CASE cmd' = [cmd EXCEPT !.pc = "enable"]
    BY <1>1, <2>1, <2>4, SetsTyped, NoCmdTyped
  <2> QED BY <2>2, <2>3, <2>4
<1>13. CASE EnableInRegistry
  <2>1. cmd.pc = "enable"
    BY <1>13 DEF EnableInRegistry, At, Goto, Step, End
  <2>2. \/ cmd' = NoCmd
        \/ cmd' = [cmd EXCEPT !.pc = "apply"]
    BY <1>13 DEF EnableInRegistry, At, Goto, Step, End
  <2>3. CASE cmd' = NoCmd BY <2>3, <1>0
  <2>4. CASE cmd' = [cmd EXCEPT !.pc = "apply"]
    BY <1>1, <2>1, <2>4, SetsTyped, NoCmdTyped
  <2> QED BY <2>2, <2>3, <2>4
<1>14. ASSUME NEW c \in Channel, ChannelRemove(c)
         PROVE  Good
  <2>1. cmd.pc = "idle"
    BY <1>14 DEF ChannelRemove, Begin, Idle
  <2>0. {c} \in SUBSET Channel /\ {c} \in SUBSET Preset
    BY <1>14, <2>1, SetsTyped, NoCmdTyped DEF IInv, LifecycleTypeOK, Command, Entry
  <2>2. \/ cmd' = [NoCmd EXCEPT !.op = "removeChannel", !.c = {c},
                                !.p = {c}, !.pc = "detach"]
        \/ cmd' = [NoCmd EXCEPT !.op = "removeChannel", !.c = {c},
                                !.p = {c}, !.pc = "clear"]
        \/ cmd' = [NoCmd EXCEPT !.op = "removeChannel", !.c = {c},
                                !.p = {c}, !.pc = "disable"]
    BY <1>14 DEF ChannelRemove, Begin, Idle
  <2>3. CASE cmd' = [NoCmd EXCEPT !.op = "removeChannel", !.c = {c},
                                  !.p = {c}, !.pc = "detach"]
    <3>1. cmd' \in Command
      BY ZenonT(60), <2>3, <2>0, SetsTyped, NoCmdTyped DEF IInv, LifecycleTypeOK, Command, Op, Pc
    <3>2. Ops' /\ Relocking' /\ HasBox' /\ Dies
      BY <1>1, <2>1, <2>0, <2>3
    <3> QED BY <3>1, <3>2 DEF Good
  <2>4. CASE cmd' = [NoCmd EXCEPT !.op = "removeChannel", !.c = {c},
                                  !.p = {c}, !.pc = "clear"]
    <3>1. cmd' \in Command
      BY ZenonT(60), <2>4, <2>0, SetsTyped, NoCmdTyped DEF IInv, LifecycleTypeOK, Command, Op, Pc
    <3>2. Ops' /\ Relocking' /\ HasBox' /\ Dies
      BY <1>1, <2>1, <2>0, <2>4
    <3> QED BY <3>1, <3>2 DEF Good
  <2>5. CASE cmd' = [NoCmd EXCEPT !.op = "removeChannel", !.c = {c},
                                  !.p = {c}, !.pc = "disable"]
    <3>1. cmd' \in Command
      BY ZenonT(60), <2>5, <2>0, SetsTyped, NoCmdTyped DEF IInv, LifecycleTypeOK, Command, Op, Pc
    <3>2. Ops' /\ Relocking' /\ HasBox' /\ Dies
      BY <1>1, <2>1, <2>0, <2>5
    <3> QED BY <3>1, <3>2 DEF Good
  <2> QED BY <2>2, <2>3, <2>4, <2>5
<1>15. CASE ClearState
  <2>1. cmd.pc = "clear"
    BY <1>15 DEF ClearState, At, Goto, Step, End, FailEnd
  <2>2. \/ cmd' = NoCmd
        \/ cmd' = [cmd EXCEPT !.pc = "disable"]
    BY <1>15 DEF ClearState, At, Goto, Step, End, FailEnd
  <2>3. CASE cmd' = NoCmd BY <2>3, <1>0
  <2>4. CASE cmd' = [cmd EXCEPT !.pc = "disable"]
    BY <1>1, <2>1, <2>4, SetsTyped, NoCmdTyped
  <2> QED BY <2>2, <2>3, <2>4
<1>16. CASE DetachProvider
  <2>1. cmd.pc = "detach"
    BY <1>16 DEF DetachProvider, At, Goto, Step, FailEnd
  <2>2. \/ cmd' = NoCmd
        \/ cmd' = [cmd EXCEPT !.pc = "disable"]
    BY <1>16 DEF DetachProvider, At, Goto, Step, FailEnd
  <2>3. CASE cmd' = NoCmd BY <2>3, <1>0
  <2>4. CASE cmd' = [cmd EXCEPT !.pc = "disable"]
    BY <1>1, <2>1, <2>4, SetsTyped, NoCmdTyped
  <2> QED BY <2>2, <2>3, <2>4
<1>17. CASE DisableInRegistry
  <2>1. cmd.pc = "disable"
    BY <1>17 DEF DisableInRegistry, At, Goto, Step
  <2>2. \/ cmd' = [cmd EXCEPT !.pc = "narrow"]
        \/ cmd' = [cmd EXCEPT !.pc = "sync"]
    BY <1>17 DEF DisableInRegistry, At, Goto, Step
  <2>3. CASE cmd' = [cmd EXCEPT !.pc = "narrow"]
    BY <1>1, <2>1, <2>3, SetsTyped, NoCmdTyped
  <2>4. CASE cmd' = [cmd EXCEPT !.pc = "sync"]
    BY <1>1, <2>1, <2>4, SetsTyped, NoCmdTyped
  <2> QED BY <2>2, <2>3, <2>4
<1>18. CASE Rebuild
  <2>1. /\ cmd.pc = "idle" /\ Live /\ Present /\ entry' = entry
        /\ cmd' = [NoCmd EXCEPT !.op = "rebuild", !.pc = "open", !.sb = entry]
    BY <1>18 DEF Rebuild, Begin, Idle, work
  <2> QED BY ZenonT(60), <1>1, <2>1, SetsTyped, NoCmdTyped
<1>19. CASE OpenWindow
  <2>1. cmd.pc = "open" /\ entry' = entry
    BY <1>19 DEF OpenWindow, At, Goto, Step, FailEnd
  <2>2. \/ cmd' = NoCmd
        \/ cmd' = [cmd EXCEPT !.pc = "backup"]
        \/ cmd' = [cmd EXCEPT !.pc = "backup", !.was = TRUE]
    BY <1>19 DEF OpenWindow, At, Goto, Step, FailEnd
  <2>3. CASE cmd' = NoCmd BY <2>3, <1>0
  <2>4. CASE cmd' = [cmd EXCEPT !.pc = "backup"]
    BY <1>1, <2>1, <2>4, SetsTyped, NoCmdTyped
  <2>5. CASE cmd' = [cmd EXCEPT !.pc = "backup", !.was = TRUE]
    BY ZenonT(60), <1>1, <2>1, <2>5, SetsTyped, NoCmdTyped
  <2> QED BY <2>2, <2>3, <2>4, <2>5
<1>20. CASE Backup
  <2>1. cmd.pc = "backup" /\ entry' = entry /\ cmd.op = "rebuild" /\ Present /\ Live
    BY <1>20 DEF Backup, At, Step, FailTo, work, IInv, Ops, HasBox, InSandbox
  <2>0. entry.policies \in SUBSET Preset /\ \A d \in SUBSET box.data : d \in SUBSET QrCh
    BY <1>20, <2>1, SetsTyped, NoCmdTyped DEF IInv, LifecycleTypeOK, Command, Entry
  <2>2. \/ cmd' = [cmd EXCEPT !.pc = "relock"]
        \/ \E d \in SUBSET box.data :
             cmd' = [cmd EXCEPT !.pc = "delete", !.data = d, !.saved = entry.policies]
    BY <1>20, BackupForms
  <2>3. CASE cmd' = [cmd EXCEPT !.pc = "relock"]
    <3>1. cmd' \in Command
      BY <2>3, <2>0, SetsTyped, NoCmdTyped DEF IInv, LifecycleTypeOK, Command, Op, Pc
    <3>2. Ops' /\ Relocking' /\ HasBox' /\ Dies
      BY <1>1, <2>1, <2>0, <2>3
    <3> QED BY <3>1, <3>2 DEF Good
  <2>4. ASSUME NEW d \in SUBSET box.data,
               cmd' = [cmd EXCEPT !.pc = "delete", !.data = d, !.saved = entry.policies]
               PROVE Good
    <3>1. cmd' \in Command
      BY ZenonT(60), <2>4, <2>0, SetsTyped, NoCmdTyped DEF IInv, LifecycleTypeOK, Command, Op, Pc
    <3>2. Ops' /\ Relocking' /\ HasBox' /\ Dies
      BY <1>1, <2>1, <2>0, <2>4
    <3> QED BY <3>1, <3>2 DEF Good
  <2> QED BY <2>2, <2>3, <2>4
<1>21. CASE DeleteSandbox
  <2>1. cmd.pc = "delete"
    BY <1>21 DEF DeleteSandbox, At, For, Goto, Step, FailTo, IInv, Ops
  <2>2. \/ cmd' = NoCmd
        \/ cmd.op = "rebuild" /\ box' = box /\ cmd' = [cmd EXCEPT !.pc = "relock"]
        \/ cmd.op = "rebuild" /\ cmd' = [cmd EXCEPT !.pc = "unregister"]
        \/ cmd.op = "destroy" /\ cmd' = [cmd EXCEPT !.pc = "services"]
    BY <1>21 DEF DeleteSandbox, At, For, Goto, Step, FailTo, IInv, Ops
  <2>3. CASE cmd' = NoCmd BY <2>3, <1>0
  <2>4. CASE cmd.op = "rebuild" /\ box' = box /\ cmd' = [cmd EXCEPT !.pc = "relock"]
    BY <1>1, <1>21, <2>1, <2>4, SetsTyped, NoCmdTyped
  <2>5. CASE cmd.op = "rebuild" /\ cmd' = [cmd EXCEPT !.pc = "unregister"]
    BY <1>1, <1>21, <2>1, <2>5, SetsTyped, NoCmdTyped
  <2>6. CASE cmd.op = "destroy" /\ cmd' = [cmd EXCEPT !.pc = "services"]
    BY <1>1, <1>21, <2>1, <2>6, SetsTyped, NoCmdTyped
  <2> QED BY <2>2, <2>3, <2>4, <2>5, <2>6
<1>22. CASE UnregisterSandbox
  <2>1. cmd.pc = "unregister" /\ cmd' = [cmd EXCEPT !.pc = "stash"]
    BY <1>22 DEF UnregisterSandbox, At, Goto, Step
  <2> QED BY <1>1, <2>1, SetsTyped, NoCmdTyped
<1>23. CASE StashInSession
  <2>1. cmd.pc = "stash" /\ cmd' = [cmd EXCEPT !.pc = "create", !.inner = TRUE]
    BY <1>23 DEF StashInSession, At, Step
  <2> QED BY ZenonT(60), <1>1, <2>1, SetsTyped, NoCmdTyped
<1>24. CASE Resume
  <2>1. cmd.pc = "idle"
    BY <1>24 DEF Resume, Begin, Idle
  <2>2. \/ Live /\ cmd' = [NoCmd EXCEPT !.op = "resume", !.inner = TRUE, !.pc = "select"]
        \/ cmd' = [NoCmd EXCEPT !.op = "resume", !.inner = TRUE, !.pc = "create"]
    BY <1>24 DEF Resume, Begin, Idle
  <2>3. CASE Live /\ cmd' = [NoCmd EXCEPT !.op = "resume", !.inner = TRUE, !.pc = "select"]
    BY ZenonT(60), <1>1, <2>1, <2>3, SetsTyped, NoCmdTyped
  <2>4. CASE cmd' = [NoCmd EXCEPT !.op = "resume", !.inner = TRUE, !.pc = "create"]
    BY ZenonT(60), <1>1, <2>1, <2>4, SetsTyped, NoCmdTyped
  <2> QED BY <2>2, <2>3, <2>4
<1>25. CASE CreateSandbox
  <2>1. cmd.pc = "create"
    BY <1>25 DEF CreateSandbox, At, For, Step, FailTo, Unrecreated, IInv, Ops
  <2>0. Paused \in SUBSET Channel
        /\ (box' = Fresh(ActiveOf(session.channels, Paused)) => Live')
    BY <1>25, <2>1, FreshTyped, LifecycleNone, SetsTyped, NoCmdTyped DEF IInv,
       LifecycleTypeOK, Command, Entry, Live
  <2>2. \/ cmd' = NoCmd
        \/ /\ box' = Fresh(ActiveOf(session.channels, Paused))
           /\ cmd' = [cmd EXCEPT !.pc = "register", !.off = Paused]
        \/ cmd.op = "rebuild" /\ cmd' = [cmd EXCEPT !.pc = "unmade", !.told = cmd.was]
    BY <1>25 DEF CreateSandbox, At, For, Step, FailTo, Unrecreated, IInv, Ops
  <2>3. CASE cmd' = NoCmd BY <2>3, <1>0
  <2>4. CASE /\ box' = Fresh(ActiveOf(session.channels, Paused))
             /\ cmd' = [cmd EXCEPT !.pc = "register", !.off = Paused]
    <3>1. cmd' \in Command
      BY ZenonT(60), <2>4, <2>0, SetsTyped, NoCmdTyped DEF IInv, LifecycleTypeOK, Command, Op, Pc
    <3>2. Ops' /\ Relocking' /\ HasBox' /\ Dies
      BY <1>1, <2>1, <2>0, <2>4
    <3> QED BY <3>1, <3>2 DEF Good
  <2>5. CASE cmd.op = "rebuild" /\ cmd' = [cmd EXCEPT !.pc = "unmade", !.told = cmd.was]
    <3>1. cmd' \in Command
      BY ZenonT(60), <2>5, <2>0, SetsTyped, NoCmdTyped DEF IInv, LifecycleTypeOK, Command, Op, Pc
    <3>2. Ops' /\ Relocking' /\ HasBox' /\ Dies
      BY <1>1, <2>1, <2>0, <2>5
    <3> QED BY <3>1, <3>2 DEF Good
  <2> QED BY <2>2, <2>3, <2>4, <2>5
<1>26. CASE RegisterSandbox
  <2>1. cmd.pc = "register" /\ cmd' = [cmd EXCEPT !.pc = "select"]
    BY <1>26 DEF RegisterSandbox, At, Goto, Step
  <2> QED BY <1>1, <2>1, SetsTyped, NoCmdTyped
<1>27. CASE SelectPresets
  <2>1. cmd.pc = "select" /\ Present
    BY <1>27 DEF SelectPresets, At, Step
  <2>0. Applied \ Selection \in SUBSET Preset /\ Selection \ Applied \in SUBSET Preset
    BY <1>27, <2>1, SetsTyped, NoCmdTyped DEF IInv, LifecycleTypeOK, Command, Entry
  <2>2. \/ cmd' = [cmd EXCEPT !.pc = "work"]
        \/ cmd' = [cmd EXCEPT !.pc = "work", !.del = Applied \ Selection,
                              !.add = Selection \ Applied]
    BY <1>27 DEF SelectPresets, At, Step
  <2>3. CASE cmd' = [cmd EXCEPT !.pc = "work"]
    <3>1. cmd' \in Command
      BY <2>3, <2>0, SetsTyped, NoCmdTyped DEF IInv, LifecycleTypeOK, Command, Op, Pc
    <3>2. Ops' /\ Relocking' /\ HasBox' /\ Dies
      BY <1>1, <2>1, <2>0, <2>3
    <3> QED BY <3>1, <3>2 DEF Good
  <2>4. CASE cmd' = [cmd EXCEPT !.pc = "work", !.del = Applied \ Selection,
                                !.add = Selection \ Applied]
    <3>1. cmd' \in Command
      BY <2>4, <2>0, SetsTyped, NoCmdTyped DEF IInv, LifecycleTypeOK, Command, Op, Pc
    <3>2. Ops' /\ Relocking' /\ HasBox' /\ Dies
      BY <1>1, <2>1, <2>0, <2>4
    <3> QED BY <3>1, <3>2 DEF Good
  <2> QED BY <2>2, <2>3, <2>4
<1>28. CASE NextPreset
  <2>1. cmd.pc = "work"
    BY <1>28 DEF NextPreset, At, Step
  <2>0. \A q \in cmd.del \cup cmd.add : {q} \in SUBSET Preset
    BY <1>28, <2>1, SetsTyped, NoCmdTyped DEF IInv, LifecycleTypeOK, Command, Entry
  <2>2. \/ cmd.del # {} /\ \E q \in cmd.del : cmd' = [cmd EXCEPT !.pc = "narrow", !.p = {q}]
        \/ cmd' = [cmd EXCEPT !.pc = "apply", !.p = cmd.add]
        \/ \E q \in cmd.add : cmd' = [cmd EXCEPT !.pc = "apply", !.p = {q}]
        \/ \E q \in cmd.add : cmd' = [cmd EXCEPT !.add = cmd.add \ {q}, !.lost = TRUE]
    BY <1>28 DEF NextPreset, At, Step
  <2>3. ASSUME cmd.del # {}, NEW q \in cmd.del,
               cmd' = [cmd EXCEPT !.pc = "narrow", !.p = {q}] PROVE Good
    <3>1. cmd' \in Command
      BY ZenonT(60), <2>3, <2>0, SetsTyped, NoCmdTyped DEF IInv, LifecycleTypeOK, Command, Op, Pc
    <3>2. Ops' /\ Relocking' /\ HasBox' /\ Dies
      BY <1>1, <2>1, <2>0, <2>3
    <3> QED BY <3>1, <3>2 DEF Good
  <2>4. CASE cmd' = [cmd EXCEPT !.pc = "apply", !.p = cmd.add]
    <3>1. cmd' \in Command
      BY ZenonT(60), <2>4, <2>0, SetsTyped, NoCmdTyped DEF IInv, LifecycleTypeOK, Command, Op, Pc
    <3>2. Ops' /\ Relocking' /\ HasBox' /\ Dies
      BY <1>1, <2>1, <2>0, <2>4
    <3> QED BY <3>1, <3>2 DEF Good
  <2>5. ASSUME NEW q \in cmd.add, cmd' = [cmd EXCEPT !.pc = "apply", !.p = {q}] PROVE Good
    <3>1. cmd' \in Command
      BY ZenonT(60), <2>5, <2>0, SetsTyped, NoCmdTyped DEF IInv, LifecycleTypeOK, Command, Op, Pc
    <3>2. Ops' /\ Relocking' /\ HasBox' /\ Dies
      BY <1>1, <2>1, <2>0, <2>5
    <3> QED BY <3>1, <3>2 DEF Good
  <2>6. ASSUME NEW q \in cmd.add, cmd' = [cmd EXCEPT !.add = cmd.add \ {q}, !.lost = TRUE]
        PROVE Good
    <3>1. cmd' \in Command
      BY ZenonT(60), <2>6, <2>0, SetsTyped, NoCmdTyped DEF IInv, LifecycleTypeOK, Command, Op, Pc
    <3>2. Ops' /\ Relocking' /\ HasBox' /\ Dies
      BY <1>1, <2>1, <2>0, <2>6
    <3> QED BY <3>1, <3>2 DEF Good
  <2> QED BY <2>2, <2>3, <2>4, <2>5, <2>6
<1>29. CASE PresetsDone
  <2>1. cmd.pc = "work" /\ cmd.del = {}
    BY <1>29 DEF PresetsDone, At, For, Goto, Step, End, IInv, Ops
  <2>2. \/ cmd' = NoCmd
        \/ cmd.op = "rebuild" /\ cmd' = [cmd EXCEPT !.pc = "preserve", !.inner = FALSE]
        \/ ~cmd.inner /\ cmd' = [cmd EXCEPT !.pc = "relock"]
    BY <1>29 DEF PresetsDone, At, For, Goto, Step, End, IInv, Ops
  <2>3. CASE cmd' = NoCmd BY <2>3, <1>0
  <2>4. CASE cmd.op = "rebuild" /\ cmd' = [cmd EXCEPT !.pc = "preserve", !.inner = FALSE]
    BY ZenonT(60), <1>1, <2>1, <2>4, SetsTyped, NoCmdTyped
  <2>5. CASE ~cmd.inner /\ cmd' = [cmd EXCEPT !.pc = "relock"]
    BY <1>1, <2>1, <2>5, SetsTyped, NoCmdTyped
  <2> QED BY <2>2, <2>3, <2>4, <2>5
<1>30. CASE PreserveFields
  <2>1. cmd.pc = "preserve" /\ cmd' = [cmd EXCEPT !.pc = "restore"]
    BY <1>30 DEF PreserveFields, At, Goto, Step
  <2> QED BY <1>1, <2>1, SetsTyped, NoCmdTyped
<1>31. CASE RestoreState
  <2>1. /\ cmd.pc = "restore"
        /\ cmd' = [cmd EXCEPT !.pc = "work", !.add = Prune(cmd.saved, cmd.sb.disabled)]
    BY <1>31 DEF RestoreState, At, Step, FailTo
  <2> QED BY ZenonT(60), <1>1, <2>1, SetsTyped, NoCmdTyped
<1>32. CASE Relock
  <2>1. cmd.pc = "relock"
    BY <1>32 DEF Relock, At, Step, End, FailTo
  <2>2. \/ cmd' = NoCmd
        \/ cmd' = [cmd EXCEPT !.pc = "unmade", !.told = TRUE]
    BY <1>32 DEF Relock, At, Step, End, FailTo
  <2>3. CASE cmd' = NoCmd BY <2>3, <1>0
  <2>4. CASE cmd' = [cmd EXCEPT !.pc = "unmade", !.told = TRUE]
    BY ZenonT(60), <1>1, <2>1, <2>4, SetsTyped, NoCmdTyped
  <2> QED BY <2>2, <2>3, <2>4
<1>33. CASE Destroy
  <2>1. cmd.pc = "idle" /\ cmd' = [NoCmd EXCEPT !.op = "destroy", !.pc = "delete"]
    BY <1>33 DEF Destroy, Begin, Idle
  <2> QED BY ZenonT(60), <1>1, <2>1, SetsTyped, NoCmdTyped
<1>34. CASE CleanServices
  <2>1. cmd.pc = "services"
    BY <1>34 DEF CleanServices, At, Goto, Step, FailTo
  <2>2. \/ cmd' = [cmd EXCEPT !.pc = "artifacts"]
        \/ cmd' = [cmd EXCEPT !.pc = "artifacts", !.told = TRUE]
    BY <1>34 DEF CleanServices, At, Goto, Step, FailTo
  <2>3. CASE cmd' = [cmd EXCEPT !.pc = "artifacts"]
    BY <1>1, <1>34, <2>1, <2>3, SetsTyped, NoCmdTyped
  <2>4. CASE cmd' = [cmd EXCEPT !.pc = "artifacts", !.told = TRUE]
    BY ZenonT(60), <1>1, <1>34, <2>1, <2>4, SetsTyped, NoCmdTyped
  <2> QED BY <2>2, <2>3, <2>4
<1>35. CASE CleanShields
  <2>1. cmd.pc = "artifacts"
    BY <1>35 DEF CleanShields, At, Goto, Step, FailTo
  <2>2. \/ cmd' = [cmd EXCEPT !.pc = "unlist"]
        \/ cmd' = [cmd EXCEPT !.pc = "unlist", !.told = TRUE]
    BY <1>35 DEF CleanShields, At, Goto, Step, FailTo
  <2>3. CASE cmd' = [cmd EXCEPT !.pc = "unlist"]
    BY <1>1, <1>35, <2>1, <2>3, SetsTyped, NoCmdTyped
  <2>4. CASE cmd' = [cmd EXCEPT !.pc = "unlist", !.told = TRUE]
    BY ZenonT(60), <1>1, <1>35, <2>1, <2>4, SetsTyped, NoCmdTyped
  <2> QED BY <2>2, <2>3, <2>4
<1>36. CASE UnlistSandbox
  <2>1. cmd.pc = "unlist" /\ cmd' = [cmd EXCEPT !.pc = "detachSession"]
    BY <1>36 DEF UnlistSandbox, At, Goto, Step
  <2> QED BY <1>1, <1>36, <2>1, SetsTyped, NoCmdTyped
<1>37. ASSUME NEW c \in Channel, Pair(c)
        PROVE  Good
  BY <1>1, <1>37 DEF Pair, Good, IInv, LifecycleTypeOK, Ops, Relocking, HasBox, Live,
     Present,
     Idle, InSandbox, Dies, DyingPc
<1>38. ASSUME NEW c \in Channel, ChannelStop(c) \/ ChannelStart(c)
        PROVE  Good
  BY <1>0, <1>38 DEF ChannelStop, ChannelStart, Begin
<1>39. ASSUME NEW s \in UserChoices, Onboard(s, Extra) \/ OnboardOther(s, Extra)
        PROVE  Good
  BY <1>0, <1>39 DEF Onboard, OnboardOther, Begin
<1>40. CASE ShieldsUp \/ ShieldsDown \/ Recover \/ RecoverOther
  BY <1>0, <1>40 DEF ShieldsUp, ShieldsDown, Recover, RecoverOther, Begin
<1>41. CASE Die \/ RebuildFails \/ DetachSession
  BY <1>0, <1>41 DEF Die, RebuildFails, DetachSession, End, Step
<1> QED
  BY <1>2, <1>3, <1>4, <1>5, <1>6, <1>7, <1>8, <1>9, <1>10, <1>11, <1>12, <1>13, <1>14,
     <1>15, <1>16, <1>17, <1>18, <1>19, <1>20, <1>21, <1>22, <1>23, <1>24, <1>25, <1>26,
       <1>27, <1>28, <1>29, <1>30, <1>31, <1>32, <1>33, <1>34, <1>35, <1>36, <1>37, <1>38,
         <1>39, <1>40, <1>41
  DEF LifecycleNext, CommandStarts, CommandSteps

(* A destroy that has told of nothing has left nothing so far.             *)
LEMMA DestroyStep ==
  ASSUME IInv, LifecycleNext, Dies
  PROVE  Destroying' /\ DestroyedLeavesNothing'
<1> DEFINE Dying == /\ cmd'.pc \in DyingPc => ~Live'
                    /\ cmd'.pc \in {"artifacts", "unlist", "detachSession"} /\ ~cmd'.told
                         => providers' = {}
                    /\ cmd'.pc \in {"unlist", "detachSession"} /\ ~cmd'.told
                         => shield'.mode = "none"
                    /\ cmd'.pc = "detachSession" => ~Present'
           Gone == gone' => Idle' /\ DestroyedLeavesNothing'
<1>1. Dying
  <2>1. CASE DeleteSandbox
    <3>1. cmd.pc = "delete" /\ (box' = NoBox \/ cmd'.pc \in {"idle", "relock"})
      BY <2>1 DEF DeleteSandbox, At, For, FailTo, NoCmd, IInv, LifecycleTypeOK, Command
    <3>2. cmd'.pc \notin {"artifacts", "unlist", "detachSession"}
      BY <2>1 DEF DeleteSandbox, At, For, Goto, Step, FailTo, NoCmd, IInv, LifecycleTypeOK,
         Command
    <3> QED BY <3>1, <3>2 DEF Live, DyingPc
  <2>2. CASE CleanServices
    <3>1. cmd.pc = "services" /\ box' = box /\ ~Live
      BY <2>2 DEF CleanServices, At, IInv, Destroying
    <3>2. \/ providers' = {} /\ cmd' = [cmd EXCEPT !.pc = "artifacts"]
          \/ cmd' = [cmd EXCEPT !.pc = "artifacts", !.told = TRUE]
      BY <2>2 DEF CleanServices, Goto, Step, FailTo
    <3> QED BY <3>1, <3>2 DEF Live, IInv, LifecycleTypeOK, Command
  <2>3. CASE CleanShields
    <3>1. /\ cmd.pc = "artifacts" /\ box' = box /\ providers' = providers /\ ~Live
          /\ ~cmd.told => providers = {}
      BY <2>3 DEF CleanShields, At, IInv, Destroying
    <3>2. \/ shield' = [mode |-> "none", snap |-> {}] /\ cmd' = [cmd EXCEPT !.pc = "unlist"]
          \/ cmd' = [cmd EXCEPT !.pc = "unlist", !.told = TRUE]
      BY <2>3 DEF CleanShields, Goto, Step, FailTo
    <3>3. CASE /\ shield' = [mode |-> "none", snap |-> {}]
               /\ cmd' = [cmd EXCEPT !.pc = "unlist"]
      BY <3>1, <3>3 DEF Live, IInv, LifecycleTypeOK, Command
    <3>4. CASE cmd' = [cmd EXCEPT !.pc = "unlist", !.told = TRUE]
      BY <3>1, <3>4 DEF Live, IInv, LifecycleTypeOK, Command
    <3> QED BY <3>2, <3>3, <3>4
  <2>4. CASE UnlistSandbox
    <3>1. /\ cmd.pc = "unlist" /\ box' = box /\ providers' = providers /\ shield' = shield
          /\ ~Live /\ entry' = NoEntry
          /\ ~cmd.told => providers = {} /\ shield.mode = "none"
      BY <2>4 DEF UnlistSandbox, At, IInv, Destroying
    <3>2. cmd' = [cmd EXCEPT !.pc = "detachSession"]
      BY <2>4 DEF UnlistSandbox, Goto, Step
    <3> QED BY <3>1, <3>2 DEF Live, Present, IInv, LifecycleTypeOK, Command
  <2>5. CASE cmd'.pc \notin DyingPc
    BY <2>5 DEF DyingPc
  <2> QED BY <2>1, <2>2, <2>3, <2>4, <2>5 DEF Dies
<1>2. Gone
  <2>1. CASE DetachSession
    <3>1. /\ cmd.pc = "detachSession" /\ gone' = ~cmd.told /\ cmd' = NoCmd
          /\ box' = box /\ entry' = entry /\ providers' = providers /\ shield' = shield
      BY <2>1 DEF DetachSession, At, End, Step
    <3>2. ~session'.own
      BY <2>1 DEF DetachSession, IInv, LifecycleTypeOK, Session
    <3>3. ~Live /\ ~Present /\ (~cmd.told => providers = {} /\ shield.mode = "none")
      BY <3>1 DEF IInv, Destroying
    <3> QED BY <3>1, <3>2, <3>3 DEF DestroyedLeavesNothing, Idle, NoCmd, Live, Present
  <2>2. CASE CreateSandbox \/ Recover
    BY <2>2 DEF CreateSandbox, Recover
  <2>3. ASSUME NEW s \in UserChoices, Onboard(s, Extra)
        PROVE  Gone
    BY <2>3 DEF Onboard
  <2>4. ASSUME NEW s \in UserChoices, OnboardOther(s, Extra), gone
        PROVE  Gone
    <3>1. /\ cmd' = NoCmd /\ UNCHANGED <<entry, box, providers, shield>>
          /\ session' = [Onboarded(s, Extra) EXCEPT !.own = FALSE]
      BY <2>4 DEF OnboardOther, Begin
    <3>2. ~session'.own
      BY <3>1 DEF Onboarded
    <3> QED BY <2>4, <3>1, <3>2 DEF IInv, DestroyedLeavesNothing, Idle, NoCmd, Live, Present
  <2>5. SUFFICES ASSUME ~DetachSession, ~CreateSandbox, ~Recover,
                        \A s \in UserChoices : ~Onboard(s, Extra),
                        gone => \A s \in UserChoices : ~OnboardOther(s, Extra)
                 PROVE  Gone
    BY <2>1, <2>2, <2>3, <2>4
  <2>6. gone' = gone
    BY <2>5, ZenonT(30) DEF LifecycleNext, CommandStarts, CommandSteps, Keep, history,
     ApplyAtGateway, ApplyFails, ApplyInRegistry, Backup, ChannelAdd, ChannelRemove,
     ChannelStart, ChannelStop, CleanServices, CleanShields, ClearState, DeleteSandbox,
     Destroy, DetachProvider, Die, DisableInRegistry, EnableInRegistry, NarrowAtGateway,
     NarrowFails, NarrowInRegistry, OnboardOther, OpenWindow, Pair, PolicyAdd,
     PolicyRemove, PreserveFields, PresetsDone, Rebuild, RebuildFails, RecoverOther,
     RegisterSandbox, Relock, RestoreState, Resume, SelectPresets, ShieldsDown, ShieldsUp,
     StashInSession, SyncSession, UnlistSandbox, UnregisterSandbox, UpsertProvider,
     NextPreset
  <2>7. ~gone
    <3>1. SUFFICES ASSUME gone PROVE FALSE
      OBVIOUS
    <3>2. cmd.pc = "idle" /\ ~Live /\ ~Present /\ ~Pending
      BY <3>1 DEF IInv, Destroying, DestroyedLeavesNothing, Idle, Pending
    <3>3. ~CommandSteps
      BY <3>2 DEF CommandSteps, At,
     ApplyAtGateway, ApplyInRegistry, ApplyFails, NarrowAtGateway, NarrowInRegistry,
     NarrowFails, SyncSession, UpsertProvider, EnableInRegistry, ClearState,
     DetachProvider, DisableInRegistry, OpenWindow, Backup, DeleteSandbox,
     UnregisterSandbox, StashInSession, RegisterSandbox, SelectPresets, NextPreset,
     PresetsDone, PreserveFields, RestoreState, Relock, CleanServices, CleanShields,
     UnlistSandbox, DetachSession, CreateSandbox, RebuildFails
    <3>4. ~CommandStarts
      BY <2>5, <3>1, <3>2 DEF CommandStarts, PolicyAdd, PolicyRemove, ChannelAdd,
         ChannelRemove,
         ChannelStop, ChannelStart, Pair, Rebuild, Resume, Destroy, ShieldsUp, ShieldsDown,
         RecoverOther
    <3>5. ~Die
      BY <3>2 DEF Die, Idle
    <3> QED BY <3>3, <3>4, <3>5 DEF LifecycleNext
  <2> QED BY <2>6, <2>7
<1> QED BY <1>1, <1>2 DEF Destroying, DyingPc, DestroyedLeavesNothing

-----------------------------------------------------------------------------
(* The first state.                                                        *)
LEMMA LifecycleInitial == LifecycleInit => IInv
<1> SUFFICES ASSUME LifecycleInit PROVE IInv
  OBVIOUS
<1>1. PICK s \in UserChoices :
        /\ session = Onboarded(s, Extra) /\ entry = OnboardedEntry(s, Extra, {})
        /\ box = OnboardedBox(s, Extra, {}) /\ providers = s \cap TokenCh
  BY DEF LifecycleInit
<1>2. s \subseteq Channel /\ Extra \cup Required(s) \subseteq Preset
  BY LifecycleNames DEF UserChoices, Required, Preset, Builtin, Channel
<1>3. session \in Session
  BY <1>1, <1>2 DEF Onboarded, Session
<1>4. entry \in Entry /\ box \in Sandbox
  BY <1>1, <1>2 DEF OnboardedEntry, OnboardedBox, Entry, Sandbox
<1>5. /\ shield = [mode |-> "none", snap |-> {}] /\ cmd = NoCmd /\ stopped = {}
      /\ removed = {}
      /\ gone = FALSE /\ mislaid = FALSE /\ strayed = FALSE
      /\ cmds = 0 /\ failures = 0 /\ deaths = 0
  BY DEF LifecycleInit
<1>6. LifecycleTypeOK
  <2>1. shield \in [mode : {"none", "down", "up"}, snap : SUBSET Preset]
    BY <1>5
  <2>2. providers \subseteq TokenCh /\ {gone, mislaid, strayed} \subseteq BOOLEAN
    BY <1>1, <1>5
  <2>3. cmds \in 0 .. MaxCmds /\ failures \in 0 .. MaxFailures /\ deaths \in 0 .. MaxDeaths
    BY <1>5, Bounds
  <2> QED BY <1>3, <1>4, <1>5, <2>1, <2>2, <2>3, NoCmdTyped DEF LifecycleTypeOK
<1>7. Ops /\ HasBox /\ Destroying /\ DestroyedLeavesNothing /\ Relocking
  BY <1>5 DEF NoCmd, Ops, HasBox, InSandbox, Destroying, DestroyedLeavesNothing, Relocking
<1> QED BY <1>6, <1>7 DEF IInv

LEMMA LifecycleStep == IInv /\ [LifecycleNext]_lifecycleVars => IInv'
<1>1. ASSUME IInv, UNCHANGED lifecycleVars PROVE IInv'
  BY <1>1 DEF lifecycleVars, work, history, lbudgets, IInv, LifecycleTypeOK, Ops, HasBox,
     Live,
     Present, Destroying, DestroyedLeavesNothing, Idle, Relocking
<1>2. ASSUME IInv, LifecycleNext PROVE IInv'
  <2>1. Good
    BY <1>2, BoxStep, CommandStep
  <2>2. LifecycleTypeOK'
    BY <1>2, <2>1, EntryStep, SessionStep, BoxStep, OthersStep, HistoryStep, BudgetStep
    DEF LifecycleTypeOK, Good
  <2>3. Destroying' /\ DestroyedLeavesNothing'
    BY <1>2, <2>1, DestroyStep DEF Good
  <2> QED BY <2>1, <2>2, <2>3 DEF Good, IInv
<1> QED BY <1>1, <1>2

(* Whatever commands run in whatever order, fail or die half-way: the      *)
(* steps of a command (rebuild.ts, destroy.ts, policy/index.ts,            *)
(* policy-channel.ts) find the sandbox and the entry they rely on, and a   *)
(* destroy has removed what it says it has.                                *)
THEOREM LifecycleInvariant == LifecycleSpec => []IInv
  BY LifecycleInitial, LifecycleStep, PTL DEF LifecycleSpec

(* The entry, the session, the sandbox and the command under way are       *)
(* always of their types.                                                  *)
THEOREM LifecycleTypeCorrect == LifecycleSpec => []LifecycleTypeOK
<1>1. IInv => LifecycleTypeOK
  BY DEF IInv
<1> QED BY <1>1, LifecycleInvariant, PTL

(* A destroy (destroy.ts) that reported no failure leaves no sandbox, no   *)
(* entry, no session of it, no provider and no shields state behind, and   *)
(* nothing but an onboarding or a recovery brings one back.                *)
THEOREM DestroyCorrect == LifecycleSpec => []DestroyedLeavesNothing
<1>1. IInv => DestroyedLeavesNothing
  BY DEF IInv
<1> QED BY <1>1, LifecycleInvariant, PTL

(* Where a command is after a step that changes other fields too.          *)
LEMMA NextPc ==
  ASSUME NEW d \in Command, NEW x, NEW y, NEW z
  PROVE  /\ [d EXCEPT !.pc = x].pc = x           /\ [d EXCEPT !.pc = x, !.add = y].pc = x
         /\ [d EXCEPT !.pc = x, !.del = y].pc = x /\ [d EXCEPT !.pc = x, !.p = y].pc = x
         /\ [d EXCEPT !.pc = x, !.off = y].pc = x /\ [d EXCEPT !.pc = x, !.told = y].pc = x
         /\ [d EXCEPT !.pc = x, !.inner = y].pc = x
         /\ [d EXCEPT !.pc = x, !.data = y, !.saved = z].pc = x
         /\ [d EXCEPT !.pc = x, !.del = y, !.add = z].pc = x
         /\ [d EXCEPT !.add = y, !.lost = z].pc = d.pc
  BY DEF Command

(* How a rebuild of a locked sandbox ends: locked again, gone, or told.    *)
LEMMA RelockStep ==
  ASSUME IInv, LifecycleNext, For("rebuild"), cmd.was, cmd' = NoCmd, deaths' = deaths,
         ~At("apply")
  PROVE  ~Live \/ box'.locked \/ cmd.told
<1>0. cmd.op = "rebuild" /\ cmd.pc \notin {"idle", "apply"}
  BY DEF For, At, IInv, Ops, NoCmd
<1>1. cmd.pc \notin {"open", "upsert", "enable", "clear", "detach", "disable", "sync",
                    "services", "artifacts", "unlist", "detachSession"}
  BY <1>0 DEF IInv, Ops, Relocking
<1>2. CASE cmd.pc = "unmade"
  BY <1>2 DEF IInv, Relocking
<1>3. CASE Relock
  <2>1. box' = [box EXCEPT !.locked = TRUE,
                           !.live = IF shield.mode = "down" THEN shield.snap ELSE box.live]
    BY <1>3 DEF Relock, LockUp, FailTo, NoCmd, IInv, LifecycleTypeOK, Command
  <2>2. Live
    BY <1>3 DEF Relock, At, IInv, Ops, HasBox, InSandbox
  <2> QED BY <2>1, <2>2, SetsTyped DEF Sandbox
<1>4. SUFFICES ASSUME cmd.pc # "unmade", ~Relock
               PROVE  FALSE
  BY <1>2, <1>3
<1>5. cmd \in Command /\ cmd'.pc = "idle"
  BY DEF IInv, LifecycleTypeOK, NoCmd
<1>17. cmd.pc # "idle"
  BY <1>0
<1>18. \A x : cmd' = [cmd EXCEPT !.pc = x] => x = "idle"
  BY <1>5 DEF Command
<1>6. ~ApplyAtGateway /\ ~ApplyInRegistry /\ ~NarrowAtGateway /\ ~NarrowInRegistry
  <2>1. ~ApplyAtGateway
    BY <1>0 DEF ApplyAtGateway, At
  <2>2. ~ApplyInRegistry
    <3>1. SUFFICES ASSUME ApplyInRegistry PROVE FALSE
      OBVIOUS
    <3>2. cmd' = [cmd EXCEPT !.pc = "work", !.add = cmd.add \ cmd.p]
      BY <3>1, <1>0 DEF ApplyInRegistry, Step, AfterPreset
    <3> QED BY <1>5, <3>2, NextPc
  <2>3. ~NarrowAtGateway
    BY <1>18 DEF NarrowAtGateway, Goto, Step
  <2>4. ~NarrowInRegistry
    <3>1. SUFFICES ASSUME NarrowInRegistry PROVE FALSE
      OBVIOUS
    <3>2. cmd' = [cmd EXCEPT !.pc = "work", !.del = cmd.del \ cmd.p]
      BY <3>1, <1>0 DEF NarrowInRegistry, Step, AfterPreset
    <3> QED BY <1>5, <3>2, NextPc
  <2> QED BY <2>1, <2>2, <2>3, <2>4
<1>7. ~NarrowFails
  <2>1. SUFFICES ASSUME NarrowFails PROVE FALSE
    OBVIOUS
  <2>2. cmd.inner
    BY <1>0, <2>1 DEF NarrowFails, At, IInv, Relocking
  <2>3. cmd' = [cmd EXCEPT !.pc = "unmade", !.told = cmd.was]
    BY <1>0, <2>1, <2>2 DEF NarrowFails, Step, FailTo, Unrecreated, For
  <2> QED BY <1>5, <2>3 DEF Command
<1>8. ~Backup
  <2>1. SUFFICES ASSUME Backup PROVE FALSE
    OBVIOUS
  <2>2. \/ cmd' = [cmd EXCEPT !.pc = "relock"]
        \/ \E d \in SUBSET box.data :
             cmd' = [cmd EXCEPT !.pc = "delete", !.data = d, !.saved = entry.policies]
    BY <2>1 DEF Backup, Step, FailTo
  <2>3. cmd' # [cmd EXCEPT !.pc = "relock"]
    BY <1>18
  <2>4. ASSUME NEW d \in SUBSET box.data,
               cmd' = [cmd EXCEPT !.pc = "delete", !.data = d, !.saved = entry.policies]
        PROVE  FALSE
    BY <1>5, <2>4, NextPc
  <2> QED BY <2>2, <2>3, <2>4
<1>9. ~DeleteSandbox /\ ~UnregisterSandbox /\ ~StashInSession
  <2>1. ~DeleteSandbox
    <3>1. DeleteSandbox => \/ cmd' = [cmd EXCEPT !.pc = "unregister"]
                           \/ cmd' = [cmd EXCEPT !.pc = "relock"]
      BY <1>0 DEF DeleteSandbox, For, Goto, Step, FailTo
    <3> QED BY <1>18, <3>1
  <2>2. ~UnregisterSandbox
    BY <1>18 DEF UnregisterSandbox, Goto, Step
  <2>3. ~StashInSession
    <3>1. SUFFICES ASSUME StashInSession PROVE FALSE
      OBVIOUS
    <3>2. cmd' = [cmd EXCEPT !.pc = "create", !.inner = TRUE]
      BY <3>1 DEF StashInSession, Step
    <3> QED BY <1>5, <3>2, NextPc
  <2> QED BY <2>1, <2>2, <2>3
<1>10. ~CreateSandbox
  <2>1. SUFFICES ASSUME CreateSandbox PROVE FALSE
    OBVIOUS
  <2>2. \/ cmd' = [cmd EXCEPT !.pc = "register", !.off = Paused]
        \/ cmd' = [cmd EXCEPT !.pc = "unmade", !.told = cmd.was]
    BY <2>1, <1>0 DEF CreateSandbox, For, Step, FailTo, Unrecreated
  <2>3. CASE cmd' = [cmd EXCEPT !.pc = "register", !.off = Paused]
    BY <1>5, <2>3, NextPc
  <2>4. CASE cmd' = [cmd EXCEPT !.pc = "unmade", !.told = cmd.was]
    BY <1>5, <2>4, NextPc
  <2> QED BY <2>2, <2>3, <2>4
<1>11. ~RegisterSandbox /\ ~SelectPresets /\ ~PreserveFields /\ ~RestoreState
  <2>1. ~RegisterSandbox /\ ~PreserveFields
    BY <1>18 DEF RegisterSandbox, PreserveFields, Goto, Step
  <2>2. ~SelectPresets
    <3>1. SUFFICES ASSUME SelectPresets PROVE FALSE
      OBVIOUS
    <3>2. \/ cmd' = [cmd EXCEPT !.pc = "work"]
          \/ cmd' = [cmd EXCEPT !.pc = "work", !.del = Applied \ Selection,
                   !.add = Selection \ Applied]
      BY <3>1 DEF SelectPresets, Step
    <3>3. CASE cmd' = [cmd EXCEPT !.pc = "work"]
      BY <1>5, <3>3, NextPc
    <3>4. CASE cmd' = [cmd EXCEPT !.pc = "work", !.del = Applied \ Selection,
                   !.add = Selection \ Applied]
      BY <1>5, <3>4, NextPc
    <3> QED BY <3>2, <3>3, <3>4
  <2>3. ~RestoreState
    <3>1. SUFFICES ASSUME RestoreState PROVE FALSE
      OBVIOUS
    <3>2. cmd' = [cmd EXCEPT !.pc = "work", !.add = Prune(cmd.saved, cmd.sb.disabled)]
      BY <3>1 DEF RestoreState, Step, FailTo
    <3> QED BY <1>5, <3>2, NextPc
  <2> QED BY <2>1, <2>2, <2>3
<1>12. ~NextPreset
  <2>1. SUFFICES ASSUME NextPreset PROVE FALSE
    OBVIOUS
  <2>2. cmd.pc = "work"
    BY <2>1 DEF NextPreset, At
  <2>3. \/ \E q \in cmd.del : cmd' = [cmd EXCEPT !.pc = "narrow", !.p = {q}]
        \/ cmd' = [cmd EXCEPT !.pc = "apply", !.p = cmd.add]
        \/ \E q \in cmd.add : cmd' = [cmd EXCEPT !.pc = "apply", !.p = {q}]
        \/ \E q \in cmd.add : cmd' = [cmd EXCEPT !.add = cmd.add \ {q}, !.lost = TRUE]
    BY <2>1 DEF NextPreset, Step
  <2>4. ASSUME NEW q \in cmd.del, cmd' = [cmd EXCEPT !.pc = "narrow", !.p = {q}]
        PROVE  FALSE
    BY <1>5, <2>4, NextPc
  <2>5. ASSUME cmd' = [cmd EXCEPT !.pc = "apply", !.p = cmd.add]
        PROVE  FALSE
    BY <1>5, <2>5, NextPc
  <2>6. ASSUME NEW q \in cmd.add, cmd' = [cmd EXCEPT !.pc = "apply", !.p = {q}]
        PROVE  FALSE
    BY <1>5, <2>6, NextPc
  <2>7. ASSUME NEW q \in cmd.add, cmd' = [cmd EXCEPT !.add = cmd.add \ {q}, !.lost = TRUE]
        PROVE  FALSE
    BY <1>5, <1>17, <2>7, NextPc
  <2> QED BY <2>3, <2>4, <2>5, <2>6, <2>7
<1>13. ~PresetsDone
  <2>1. SUFFICES ASSUME PresetsDone PROVE FALSE
    OBVIOUS
  <2>2. \/ cmd' = [cmd EXCEPT !.pc = "preserve", !.inner = FALSE]
        \/ cmd' = [cmd EXCEPT !.pc = "relock"]
    BY <2>1, <1>0 DEF PresetsDone, For, Goto, Step
  <2>3. CASE cmd' = [cmd EXCEPT !.pc = "preserve", !.inner = FALSE]
    BY <1>5, <2>3, NextPc
  <2>4. CASE cmd' = [cmd EXCEPT !.pc = "relock"]
    BY <1>5, <2>4, NextPc
  <2> QED BY <2>2, <2>3, <2>4
<1>14. ~Die
  BY DEF Die, IInv, LifecycleTypeOK
<1>15. /\ ~ApplyFails /\ ~SyncSession /\ ~UpsertProvider /\ ~EnableInRegistry /\ ~ClearState
       /\ ~DetachProvider /\ ~DisableInRegistry /\ ~OpenWindow /\ ~RebuildFails
       /\ ~CleanServices /\ ~CleanShields /\ ~UnlistSandbox /\ ~DetachSession
  BY <1>0, <1>1, <1>4 DEF ApplyFails, SyncSession, UpsertProvider, EnableInRegistry,
     ClearState,
     DetachProvider, DisableInRegistry, OpenWindow, RebuildFails, CleanServices,
     CleanShields,
     UnlistSandbox, DetachSession, At
<1>16. ~CommandStarts
  BY <1>0 DEF CommandStarts, Begin, Idle, PolicyAdd, PolicyRemove, ChannelAdd,
     ChannelRemove,
     ChannelStop, ChannelStart, Pair, Rebuild, Resume, Destroy, ShieldsUp, ShieldsDown,
     Recover, RecoverOther, Onboard, OnboardOther
<1> QED
  BY <1>4, <1>6, <1>7, <1>8, <1>9, <1>10, <1>11, <1>12, <1>13, <1>14, <1>15, <1>16
  DEF LifecycleNext, CommandSteps

(* A rebuild (rebuild.ts, runRebuildWithShieldsWindow) that found shields  *)
(* up does not leave a sandbox behind unlocked without saying so, at any   *)
(* of its early returns and failures but a dying `policy set'.             *)
THEOREM RelockCorrect == LifecycleSpec => LockedRebuildRelocks
<1>1. IInv /\ [LifecycleNext]_lifecycleVars
        => [ For("rebuild") /\ cmd.was /\ cmd' = NoCmd /\ deaths' = deaths /\ ~At("apply")
               => ~Live \/ box'.locked \/ cmd.told ]_lifecycleVars
  BY RelockStep
<1> QED BY <1>1, LifecycleInvariant, PTL DEF LifecycleSpec, LockedRebuildRelocks

-----------------------------------------------------------------------------
(***************************************************************************)
(* What a sandbox keeps: a second inductive invariant, on top of IInv.     *)
(***************************************************************************)
(* While no command died and neither shields nor recovery were used, the   *)
(* registry and the policy differ by the preset of the step under way.     *)
RecordKept == ~strayed =>
  /\ shield.mode = "none" /\ ~cmd.was
  /\ Present /\ Live =>
       /\ cmd.pc \notin {"record", "forget"} => Applied = box.live
       /\ cmd.pc = "record" => Applied \cup cmd.p = box.live
       /\ cmd.pc = "forget" => Applied \ cmd.p = box.live
  /\ cmd.pc = "register" => box.live = Required(box.active)

(* What a command that removes a channel has already seen to, and what the *)
(* session owes a rebuild: it is resumable, with a list of stopped         *)
(* channels, as long as onboard() runs.                                    *)
Around ==
  /\ removed \cap providers = {}
  /\ cmd.pc = "detach" => cmd.c \subseteq TokenCh
  /\ cmd.pc = "clear" => cmd.c \subseteq QrCh
  /\ cmd.pc = "disable" =>
       /\ cmd.c \cap providers = {}
       /\ Live /\ Present => cmd.c \cap entry.channels \cap box.data = {}
  /\ session.open => session.mirrored
  /\ cmd.inner => Pending
  /\ cmd.op # "rebuild" => cmd.data = {}

(* Stopped and removed channels, in each of the places a sandbox may be    *)
(* made from: the entry, the session, the entry read by a rebuild, its     *)
(* backup, and the list that createSandbox goes by.                        *)
Unwanted == ~mislaid =>
  /\ Present => /\ entry.listed /\ removed \cap entry.channels = {}
                /\ stopped \subseteq entry.disabled
  /\ Live => removed \cap box.data = {}
  /\ Pending \/ cmd.pc = "preserve" => removed \cap session.channels = {}
  /\ Pending => stopped \subseteq session.disabled
  /\ cmd.op = "rebuild" => /\ cmd.sb.listed /\ removed \cap cmd.sb.channels = {}
                           /\ stopped \subseteq cmd.sb.disabled
  /\ removed \cap cmd.data = {}
  /\ cmd.pc = "register" => stopped \subseteq cmd.off

(* Where a rebuild has the presets and the channels it started from.       *)
Saved == Prune(cmd.saved, cmd.sb.disabled)
SameChannels == /\ cmd.sb.listed => entry.channels = cmd.sb.channels
                /\ entry.disabled = cmd.sb.disabled
Rebuilding == cmd.op = "rebuild" =>
  /\ cmd.pc \in {"open", "backup", "delete"} => entry = cmd.sb
  /\ cmd.pc \in {"open", "backup"} => cmd.saved = {}
  /\ cmd.pc = "delete" => cmd.saved = entry.policies
  /\ (cmd.inner \/ cmd.pc = "preserve") /\ cmd.sb.listed => session.channels = cmd.sb.channels
  /\ ~cmd.inner /\ Present /\ cmd.pc \in {"restore", "work", "apply", "record"} => SameChannels
  /\ ~cmd.inner /\ Present /\ cmd.pc \in {"work", "apply", "record"} /\ ~cmd.lost =>
       Saved \subseteq entry.policies \cup cmd.add
  /\ ~cmd.inner /\ cmd.pc \in {"apply", "record"} => cmd.p \subseteq Builtin
  /\ cmd.pc = "relock" /\ ~cmd.lost /\ cmd.saved # {} /\ Present =>
       Saved \subseteq entry.policies /\ SameChannels

KeptIInv == RecordKept /\ Around /\ Unwanted /\ Rebuilding

(* What leaves the parts of it alone.                                      *)
SessionKept == /\ session'.own = session.own /\ session'.open = session.open
               /\ session'.mirrored = session.mirrored
               /\ session'.channels = session.channels
               /\ session'.disabled = session.disabled
CommandKept == cmd'.op = cmd.op /\ cmd'.sb = cmd.sb /\ cmd'.c = cmd.c

LEMMA RecordFrame ==
  ASSUME RecordKept, strayed => strayed', shield'.mode = shield.mode, cmd'.was => cmd.was,
         Present' => Present /\ Applied' = Applied,
         Live' => Live /\ box'.live = box.live,
         cmd.pc \notin {"record", "forget"}, cmd'.pc \notin {"record", "forget", "register"}
  PROVE  RecordKept'
BY DEF RecordKept

LEMMA AroundFrame ==
  ASSUME Around, removed' \subseteq removed, providers' \subseteq providers, SessionKept,
         cmd'.pc \notin {"disable", "clear", "detach"}, cmd'.inner => cmd.inner,
         cmd'.op # "rebuild" => cmd'.data = {}
  PROVE  Around'
BY DEF Around, SessionKept, Pending

LEMMA UnwantedFrame ==
  ASSUME Unwanted, mislaid => mislaid', stopped' \subseteq stopped, removed' \subseteq removed,
         Present' => /\ Present /\ entry'.listed = entry.listed
                     /\ entry'.channels = entry.channels /\ entry'.disabled = entry.disabled,
         Live' => Live /\ box'.data \subseteq box.data, SessionKept,
         cmd'.pc \notin {"preserve", "register"},
         cmd'.op = "rebuild" => cmd.op = "rebuild" /\ cmd'.sb = cmd.sb,
         cmd'.data \subseteq cmd.data
  PROVE  Unwanted'
<1>1. SUFFICES ASSUME ~mislaid'
               PROVE  Unwanted'
  BY DEF Unwanted
<1>2. ~mislaid
  BY <1>1
<1>3. Pending' = Pending
  BY DEF SessionKept, Pending
<1> QED BY <1>1, <1>2, <1>3 DEF Unwanted, SessionKept

(* Whatever only starts or ends a command and is no rebuild.               *)
LEMMA QuietKept ==
  ASSUME IInv, KeptIInv, UNCHANGED work, stopped' = stopped, removed' = removed,
         mislaid => mislaid', strayed => strayed',
         cmd.pc \notin {"record", "forget"}, cmd'.op # "rebuild",
         cmd'.pc \notin {"record", "forget", "register", "disable", "clear", "detach",
                         "preserve"},
         ~cmd'.was, cmd'.inner => cmd.inner, cmd'.data = {}
  PROVE  KeptIInv'
<1>1. /\ SessionKept /\ (Present' <=> Present) /\ Applied' = Applied /\ (Live' <=> Live)
      /\ entry' = entry /\ box' = box /\ shield' = shield /\ providers' = providers
  BY DEF work, SessionKept, Present, Applied, Live
<1>2. RecordKept'
  BY <1>1, RecordFrame DEF KeptIInv
<1>3. Around'
  BY <1>1, AroundFrame DEF KeptIInv
<1>4. Unwanted'
  BY <1>1, UnwantedFrame DEF KeptIInv
<1>5. Rebuilding'
  BY DEF Rebuilding
<1> QED BY <1>2, <1>3, <1>4, <1>5 DEF KeptIInv

LEMMA EndKept ==
  ASSUME IInv, KeptIInv, UNCHANGED work, stopped' = stopped, removed' = removed,
         mislaid => mislaid', strayed => strayed', cmd.pc \notin {"record", "forget"},
         cmd' = NoCmd
  PROVE  KeptIInv'
<1>1. /\ cmd'.op = "none" /\ cmd'.pc = "idle" /\ cmd'.was = FALSE /\ cmd'.inner = FALSE
      /\ cmd'.data = {}
  BY DEF NoCmd
<1> QED BY <1>1, QuietKept

(* The commands begin.                                                     *)
LEMMA StartKept ==
  ASSUME IInv, KeptIInv, CommandStarts
  PROVE  KeptIInv'
<1>0. /\ cmd.pc = "idle" => cmd = NoCmd
      /\ NoCmd.pc = "idle" /\ NoCmd.op = "none" /\ ~NoCmd.was /\ ~NoCmd.inner
      /\ NoCmd.data = {}
  BY DEF IInv, Ops, NoCmd
<1>1. /\ Present => entry \in Entry
      /\ Live => box \in Sandbox /\ box.data \subseteq QrCh
      /\ session \in Session
      /\ providers \subseteq TokenCh
  BY SetsTyped DEF IInv, LifecycleTypeOK
<1>2. ASSUME NEW p \in Preset, PolicyAdd(p) \/ PolicyRemove(p) PROVE KeptIInv'
  <2>1. /\ cmd.pc = "idle" /\ UNCHANGED work /\ UNCHANGED history
        /\ \/ cmd' = [NoCmd EXCEPT !.op = "addPolicy", !.pc = "apply", !.p = {p}]
           \/ cmd' = [NoCmd EXCEPT !.op = "removePolicy", !.pc = "narrow", !.p = {p}]
    BY <1>2 DEF PolicyAdd, PolicyRemove, Begin, Idle
  <2>2. /\ cmd'.op # "rebuild" /\ cmd'.pc \in {"apply", "narrow"} /\ ~cmd'.was
        /\ ~cmd'.inner /\ cmd'.data = {}
    BY <2>1 DEF NoCmd
  <2> QED BY <2>1, <2>2, QuietKept DEF history
<1>3. ASSUME NEW c \in Channel, ChannelAdd(c) PROVE KeptIInv'
  <2>1. /\ cmd.pc = "idle" /\ UNCHANGED work /\ UNCHANGED history
        /\ \/ cmd' = [NoCmd EXCEPT !.op = "addChannel", !.c = {c}, !.p = {c}, !.pc = "apply"]
           \/ cmd' = [NoCmd EXCEPT !.op = "addChannel", !.c = {c}, !.p = {c}, !.pc = "upsert"]
    BY <1>3 DEF ChannelAdd, Begin, Idle
  <2>2. /\ cmd'.op # "rebuild" /\ cmd'.pc \in {"apply", "upsert"} /\ ~cmd'.was
        /\ ~cmd'.inner /\ cmd'.data = {}
    BY <2>1 DEF NoCmd
  <2> QED BY <2>1, <2>2, QuietKept DEF history
<1>4. ASSUME NEW c \in Channel, ChannelRemove(c) PROVE KeptIInv'
  <2>1. /\ cmd.pc = "idle" /\ UNCHANGED work /\ UNCHANGED history
        /\ \E x \in {"detach", "clear", "disable"} :
             /\ cmd' = [NoCmd EXCEPT !.op = "removeChannel", !.c = {c}, !.p = {c}, !.pc = x]
             /\ IF c \in TokenCh THEN x = "detach"
                ELSE x = IF Residue(c) THEN "clear" ELSE "disable"
    BY <1>4 DEF ChannelRemove, Begin, Idle
  <2>2. /\ cmd'.op # "rebuild" /\ cmd'.pc \in {"detach", "clear", "disable"} /\ ~cmd'.was
        /\ ~cmd'.inner /\ cmd'.data = {} /\ cmd'.c = {c}
        /\ IF c \in TokenCh THEN cmd'.pc = "detach"
           ELSE cmd'.pc = IF Residue(c) THEN "clear" ELSE "disable"
    BY <2>1 DEF NoCmd
  <2>3. /\ SessionKept /\ (Present' <=> Present) /\ Applied' = Applied /\ (Live' <=> Live)
        /\ entry' = entry /\ box' = box /\ shield' = shield /\ providers' = providers
        /\ session' = session
        /\ removed' = removed /\ stopped' = stopped /\ mislaid' = mislaid /\ strayed' = strayed
    BY <2>1 DEF work, history, SessionKept, Present, Applied, Live
  <2>4. RecordKept'
    BY <2>1, <2>2, <2>3, RecordFrame DEF KeptIInv
  <2>5. Unwanted'
    BY <1>0, <2>1, <2>2, <2>3, UnwantedFrame DEF KeptIInv
  <2>6. Around'
    <3>1. cmd'.pc = "detach" => cmd'.c \subseteq TokenCh
      BY <2>2
    <3>2. cmd'.pc = "clear" => cmd'.c \subseteq QrCh
      BY <1>4, <2>2 DEF Channel
    <3>3. cmd'.pc = "disable" => /\ c \notin providers'
                                 /\ Live' /\ Present' => c \notin entry'.channels
      BY <1>1, <2>2, <2>3 DEF Residue
    <3>4. removed' \cap providers' = {} /\ (session'.open => session'.mirrored)
      BY <2>3 DEF KeptIInv, Around
    <3> QED BY <2>2, <3>1, <3>2, <3>3, <3>4 DEF Around
  <2>7. Rebuilding'
    BY <2>2 DEF Rebuilding
  <2> QED BY <2>4, <2>5, <2>6, <2>7 DEF KeptIInv
<1>5. ASSUME NEW c \in Channel, ChannelStop(c) \/ ChannelStart(c) PROVE KeptIInv'
  <2>1. /\ cmd.pc = "idle" /\ cmd' = NoCmd /\ Present
        /\ \/ entry' = [entry EXCEPT !.disabled = entry.disabled \cup {c}]
              /\ stopped' = stopped \cup {c} /\ mislaid' = (mislaid \/ Pending)
           \/ entry' = [entry EXCEPT !.disabled = entry.disabled \ {c}]
              /\ stopped' = stopped \ {c} /\ mislaid' = mislaid
        /\ UNCHANGED <<session, box, providers, shield, removed, strayed>>
    BY <1>5 DEF ChannelStop, ChannelStart, Begin, Idle
  <2>2. /\ entry'.listed = entry.listed /\ entry'.channels = entry.channels
        /\ entry'.policies = entry.policies /\ entry'.custom = entry.custom
        /\ \/ entry'.disabled = entry.disabled \cup {c}
              /\ stopped' = stopped \cup {c} /\ mislaid' = (mislaid \/ Pending)
           \/ entry'.disabled = entry.disabled \ {c}
              /\ stopped' = stopped \ {c} /\ mislaid' = mislaid
    BY <1>1, <2>1 DEF Entry
  <2>3. /\ SessionKept /\ (Present' => Applied' = Applied) /\ (Live' <=> Live)
        /\ (Pending' <=> Pending)
    BY <2>1, <2>2 DEF SessionKept, Present, Applied, Live, Pending
  <2>4. RecordKept'
    BY <1>0, <2>1, <2>3, RecordFrame DEF KeptIInv
  <2>5. Around'
    BY <1>0, <2>1, <2>3, AroundFrame DEF KeptIInv
  <2>6. Unwanted'
    <3>1. SUFFICES ASSUME ~mislaid' PROVE Unwanted'
      BY DEF Unwanted
    <3>0. mislaid \in BOOLEAN
      BY DEF IInv, LifecycleTypeOK
    <3>2. Unwanted /\ ~mislaid /\ cmd = NoCmd
      <4>1. ~mislaid
        BY <2>2, <3>0, <3>1
      <4> QED BY <1>0, <2>1, <4>1 DEF KeptIInv
    <3>3. Present' => /\ entry'.listed /\ removed' \cap entry'.channels = {}
                      /\ stopped' \subseteq entry'.disabled
      BY <2>1, <2>2, <3>2 DEF Unwanted
    <3>4. Live' => removed' \cap box'.data = {}
      BY <2>1, <2>3, <3>2 DEF Unwanted
    <3>5. Pending' => removed' \cap session'.channels = {} /\ stopped' \subseteq session'.disabled
      BY <2>1, <2>2, <2>3, <3>1, <3>2 DEF Unwanted
    <3> QED BY <1>0, <2>1, <3>3, <3>4, <3>5 DEF Unwanted
  <2>7. Rebuilding'
    BY <1>0, <2>1 DEF Rebuilding
  <2> QED BY <2>4, <2>5, <2>6, <2>7 DEF KeptIInv
<1>6. ASSUME NEW c \in Channel, Pair(c) PROVE KeptIInv'
  <2>1. /\ cmd.pc = "idle" /\ cmd' = cmd /\ Present /\ Live /\ c \in entry.channels
        /\ box' = [box EXCEPT !.data = box.data \cup {c}]
        /\ UNCHANGED <<entry, session, providers, shield, stopped, removed, mislaid, strayed>>
    BY <1>6 DEF Pair, Idle, history
  <2>2. box'.data = box.data \cup {c} /\ box'.live = box.live
    BY <1>1, <2>1 DEF Sandbox
  <2>3. SessionKept /\ (Present' <=> Present) /\ Applied' = Applied /\ (Pending' <=> Pending)
    BY <2>1 DEF SessionKept, Present, Applied, Pending
  <2>4. RecordKept'
    BY <1>0, <2>1, <2>2, <2>3, RecordFrame DEF KeptIInv
  <2>5. Around'
    BY <1>0, <2>1, <2>3, AroundFrame DEF KeptIInv, Around
  <2>6. Unwanted'
    <3>1. SUFFICES ASSUME ~mislaid' PROVE Unwanted'
      BY DEF Unwanted
    <3>2. Unwanted /\ ~mislaid /\ cmd = NoCmd
      BY <1>0, <2>1, <3>1 DEF KeptIInv
    <3>3. removed' \cap box'.data = {}
      BY <2>1, <2>2, <3>2 DEF Unwanted
    <3> QED BY <1>0, <2>1, <2>3, <3>2, <3>3 DEF Unwanted
  <2>7. Rebuilding'
    BY <1>0, <2>1 DEF Rebuilding
  <2> QED BY <2>4, <2>5, <2>6, <2>7 DEF KeptIInv
<1>7. CASE Rebuild
  <2>1. /\ cmd.pc = "idle" /\ UNCHANGED work /\ UNCHANGED history /\ Present /\ Live
        /\ cmd' = [NoCmd EXCEPT !.op = "rebuild", !.pc = "open", !.sb = entry]
    BY <1>7 DEF Rebuild, Begin, Idle
  <2>2. /\ cmd'.op = "rebuild" /\ cmd'.pc = "open" /\ ~cmd'.was /\ ~cmd'.inner
        /\ cmd'.data = {} /\ cmd'.sb = entry /\ cmd'.saved = {}
    BY <2>1 DEF NoCmd
  <2>3. /\ SessionKept /\ (Present' <=> Present) /\ Applied' = Applied /\ (Live' <=> Live)
        /\ entry' = entry /\ box' = box /\ shield' = shield /\ providers' = providers
        /\ session' = session /\ (Pending' <=> Pending)
        /\ removed' = removed /\ stopped' = stopped /\ mislaid' = mislaid /\ strayed' = strayed
    BY <2>1 DEF work, history, SessionKept, Present, Applied, Live, Pending
  <2>4. RecordKept'
    BY <2>1, <2>2, <2>3, RecordFrame DEF KeptIInv
  <2>5. Around'
    BY <2>2, <2>3, AroundFrame DEF KeptIInv
  <2>6. Unwanted'
    BY <2>1, <2>2, <2>3 DEF Unwanted, KeptIInv
  <2>7. Rebuilding'
    BY <2>2, <2>3 DEF Rebuilding
  <2> QED BY <2>4, <2>5, <2>6, <2>7 DEF KeptIInv
<1>8. CASE Resume
  <2>1. /\ cmd.pc = "idle" /\ UNCHANGED work /\ UNCHANGED history /\ Pending
        /\ \E x \in {"select", "create"} :
             cmd' = [NoCmd EXCEPT !.op = "resume", !.inner = TRUE, !.pc = x]
    BY <1>8 DEF Resume, Begin, Idle
  <2>2. /\ cmd'.op = "resume" /\ cmd'.pc \in {"select", "create"} /\ ~cmd'.was
        /\ cmd'.data = {}
    BY <2>1 DEF NoCmd
  <2>3. /\ SessionKept /\ (Present' <=> Present) /\ Applied' = Applied /\ (Live' <=> Live)
        /\ entry' = entry /\ box' = box /\ shield' = shield /\ providers' = providers
        /\ session' = session /\ (Pending' <=> Pending)
        /\ removed' = removed /\ stopped' = stopped /\ mislaid' = mislaid /\ strayed' = strayed
    BY <2>1 DEF work, history, SessionKept, Present, Applied, Live, Pending
  <2>4. RecordKept'
    BY <2>1, <2>2, <2>3, RecordFrame DEF KeptIInv
  <2>5. Around'
    BY <2>1, <2>2, <2>3 DEF KeptIInv, Around
  <2>6. Unwanted'
    BY <1>0, <2>1, <2>2, <2>3, UnwantedFrame DEF KeptIInv
  <2>7. Rebuilding'
    BY <2>2 DEF Rebuilding
  <2> QED BY <2>4, <2>5, <2>6, <2>7 DEF KeptIInv
<1>9. CASE Destroy
  <2>1. /\ cmd.pc = "idle" /\ UNCHANGED work /\ UNCHANGED history
        /\ cmd' = [NoCmd EXCEPT !.op = "destroy", !.pc = "delete"]
    BY <1>9 DEF Destroy, Begin, Idle
  <2>2. /\ cmd'.op # "rebuild" /\ cmd'.pc = "delete" /\ ~cmd'.was
        /\ ~cmd'.inner /\ cmd'.data = {}
    BY <2>1 DEF NoCmd
  <2> QED BY <2>1, <2>2, QuietKept DEF history
<1>10. CASE ShieldsUp \/ ShieldsDown
  <2>1. /\ cmd.pc = "idle" /\ cmd' = NoCmd /\ Live /\ strayed'
        /\ UNCHANGED <<entry, session, providers, stopped, removed, mislaid>>
    BY <1>10 DEF ShieldsUp, ShieldsDown, Begin, Idle
  <2>2. box'.data = box.data
    <3>1. \/ box' = [box EXCEPT !.locked = TRUE,
               !.live = IF shield.mode = "down" THEN shield.snap ELSE box.live]
          \/ box' = [box EXCEPT !.live = {}, !.locked = FALSE]
      BY <1>10 DEF ShieldsUp, ShieldsDown, LockUp
    <3> QED BY <1>1, <2>1, <3>1 DEF Sandbox
  <2>3. SessionKept /\ (Present' <=> Present)
    BY <2>1 DEF SessionKept, Present
  <2>4. RecordKept'
    BY <2>1 DEF RecordKept
  <2>5. Around'
    BY <1>0, <2>1, <2>3, AroundFrame DEF KeptIInv
  <2>6. Unwanted'
    BY <1>0, <2>1, <2>2, <2>3, UnwantedFrame DEF KeptIInv
  <2>7. Rebuilding'
    BY <1>0, <2>1 DEF Rebuilding
  <2> QED BY <2>4, <2>5, <2>6, <2>7 DEF KeptIInv
<1>11. CASE Recover \/ RecoverOther
  <2>1. /\ cmd.pc = "idle" /\ cmd' = NoCmd /\ strayed'
        /\ \/ mislaid'
           \/ /\ Present /\ entry' = [entry EXCEPT !.policies = session.presets]
              /\ mislaid' = mislaid
        /\ UNCHANGED <<session, box, providers, shield, stopped, removed>>
    BY <1>11 DEF Recover, RecoverOther, Begin, Idle
  <2>2. ~mislaid' => /\ Present /\ entry'.listed = entry.listed /\ mislaid' = mislaid
                     /\ entry'.channels = entry.channels /\ entry'.disabled = entry.disabled
    BY <1>1, <2>1 DEF Entry
  <2>3. SessionKept /\ (Live' <=> Live)
    BY <2>1 DEF SessionKept, Live
  <2>4. RecordKept'
    BY <2>1 DEF RecordKept
  <2>5. Around'
    BY <1>0, <2>1, <2>3, AroundFrame DEF KeptIInv
  <2>6. Unwanted'
    <3>1. CASE mislaid'
      BY <3>1 DEF Unwanted
    <3>2. CASE ~mislaid'
      BY <1>0, <2>1, <2>2, <2>3, <3>2, UnwantedFrame DEF KeptIInv
    <3> QED BY <3>1, <3>2
  <2>7. Rebuilding'
    BY <1>0, <2>1 DEF Rebuilding
  <2> QED BY <2>4, <2>5, <2>6, <2>7 DEF KeptIInv
<1>12. ASSUME NEW s \in UserChoices, Onboard(s, Extra) PROVE KeptIInv'
  <2>1. /\ cmd.pc = "idle" /\ cmd' = NoCmd /\ session' = Onboarded(s, Extra)
        /\ entry' = OnboardedEntry(s, Extra, Disabled) /\ box' = OnboardedBox(s, Extra, Disabled)
        /\ providers' = providers \cup (s \cap TokenCh)
        /\ removed' = removed \ s /\ stopped' = stopped \cap Disabled
        /\ UNCHANGED <<shield, mislaid, strayed>>
    BY <1>12 DEF Onboard, Begin, Idle
  <2>2. /\ ~session'.open
        /\ entry'.policies \cup entry'.custom = Extra \cup Required(s)
        /\ entry'.listed /\ entry'.channels = s /\ entry'.disabled = Disabled
        /\ box'.data = {} /\ box'.live = Extra \cup Required(s)
    BY <2>1 DEF Onboarded, OnboardedEntry, OnboardedBox
  <2>3. Present' => Applied' = box'.live
    BY <2>2 DEF Applied, Present
  <2>4. RecordKept'
    BY <1>0, <2>1, <2>3 DEF KeptIInv, RecordKept
  <2>5. Around'
    <3>1. removed' \cap providers' = {}
      BY <2>1 DEF KeptIInv, Around
    <3> QED BY <1>0, <2>1, <2>2, <3>1 DEF Around
  <2>6. Unwanted'
    <3>1. removed' \cap entry'.channels = {} /\ stopped' \subseteq entry'.disabled
      BY <2>1, <2>2
    <3>2. ~Pending'
      BY <2>2 DEF Pending
    <3> QED BY <1>0, <2>1, <2>2, <3>1, <3>2 DEF Unwanted
  <2>7. Rebuilding'
    BY <1>0, <2>1 DEF Rebuilding
  <2> QED BY <2>4, <2>5, <2>6, <2>7 DEF KeptIInv
<1>13. ASSUME NEW s \in UserChoices, OnboardOther(s, Extra) PROVE KeptIInv'
  <2>1. /\ cmd.pc = "idle" /\ cmd' = NoCmd
        /\ session' = [Onboarded(s, Extra) EXCEPT !.own = FALSE]
        /\ UNCHANGED <<entry, box, providers, shield>> /\ UNCHANGED history
    BY <1>13 DEF OnboardOther, Begin, Idle
  <2>2. ~session'.open /\ ~Pending'
    BY <2>1 DEF Onboarded, Pending
  <2>3. (Present' <=> Present) /\ Applied' = Applied /\ (Live' <=> Live)
        /\ removed' = removed /\ stopped' = stopped /\ mislaid' = mislaid /\ strayed' = strayed
    BY <2>1 DEF Present, Applied, Live, history
  <2>4. RecordKept'
    BY <1>0, <2>1, <2>3, RecordFrame DEF KeptIInv
  <2>5. Around'
    BY <1>0, <2>1, <2>2, <2>3 DEF KeptIInv, Around
  <2>6. Unwanted'
    BY <1>0, <2>1, <2>2, <2>3 DEF KeptIInv, Unwanted
  <2>7. Rebuilding'
    BY <1>0, <2>1 DEF Rebuilding
  <2> QED BY <2>4, <2>5, <2>6, <2>7 DEF KeptIInv
<1> QED BY <1>2, <1>3, <1>4, <1>5, <1>6, <1>7, <1>8, <1>9, <1>10, <1>11, <1>12, <1>13
  DEF CommandStarts

(* The fields of a command that a step changes, and those it carries on.   *)
Carried == /\ CommandKept /\ cmd'.data = cmd.data /\ cmd'.saved = cmd.saved
           /\ cmd'.was = cmd.was

LEMMA Forms ==
  ASSUME IInv, NEW x, NEW y
  PROVE  /\ cmd' = [cmd EXCEPT !.pc = x] =>
              /\ Carried /\ cmd'.pc = x /\ cmd'.p = cmd.p /\ cmd'.off = cmd.off
              /\ cmd'.inner = cmd.inner /\ cmd'.add = cmd.add /\ cmd'.lost = cmd.lost
         /\ cmd' = [cmd EXCEPT !.pc = x, !.add = y] =>
              /\ Carried /\ cmd'.pc = x /\ cmd'.p = cmd.p /\ cmd'.off = cmd.off
              /\ cmd'.inner = cmd.inner /\ cmd'.add = y /\ cmd'.lost = cmd.lost
         /\ cmd' = [cmd EXCEPT !.pc = x, !.del = y] =>
              /\ Carried /\ cmd'.pc = x /\ cmd'.p = cmd.p /\ cmd'.off = cmd.off
              /\ cmd'.inner = cmd.inner /\ cmd'.add = cmd.add /\ cmd'.lost = cmd.lost
         /\ cmd' = [cmd EXCEPT !.pc = x, !.told = y] =>
              /\ Carried /\ cmd'.pc = x /\ cmd'.p = cmd.p /\ cmd'.off = cmd.off
              /\ cmd'.inner = cmd.inner /\ cmd'.add = cmd.add /\ cmd'.lost = cmd.lost
         /\ cmd' = [cmd EXCEPT !.pc = x, !.p = y] =>
              /\ Carried /\ cmd'.pc = x /\ cmd'.p = y /\ cmd'.off = cmd.off
              /\ cmd'.inner = cmd.inner /\ cmd'.add = cmd.add /\ cmd'.lost = cmd.lost
         /\ cmd' = [cmd EXCEPT !.pc = x, !.inner = y] =>
              /\ Carried /\ cmd'.pc = x /\ cmd'.p = cmd.p /\ cmd'.off = cmd.off
              /\ cmd'.inner = y /\ cmd'.add = cmd.add /\ cmd'.lost = cmd.lost
         /\ cmd' = [cmd EXCEPT !.pc = x, !.off = y] =>
              /\ Carried /\ cmd'.pc = x /\ cmd'.p = cmd.p /\ cmd'.off = y
              /\ cmd'.inner = cmd.inner /\ cmd'.add = cmd.add /\ cmd'.lost = cmd.lost
<1>0. cmd \in Command
  BY DEF IInv, LifecycleTypeOK
<1>1. cmd' = [cmd EXCEPT !.pc = x] =>
        /\ Carried /\ cmd'.pc = x /\ cmd'.p = cmd.p /\ cmd'.off = cmd.off
        /\ cmd'.inner = cmd.inner /\ cmd'.add = cmd.add /\ cmd'.lost = cmd.lost
  BY <1>0 DEF Command, Carried, CommandKept
<1>2. cmd' = [cmd EXCEPT !.pc = x, !.add = y] =>
        /\ Carried /\ cmd'.pc = x /\ cmd'.p = cmd.p /\ cmd'.off = cmd.off
        /\ cmd'.inner = cmd.inner /\ cmd'.add = y /\ cmd'.lost = cmd.lost
  BY <1>0 DEF Command, Carried, CommandKept
<1>3. cmd' = [cmd EXCEPT !.pc = x, !.del = y] =>
        /\ Carried /\ cmd'.pc = x /\ cmd'.p = cmd.p /\ cmd'.off = cmd.off
        /\ cmd'.inner = cmd.inner /\ cmd'.add = cmd.add /\ cmd'.lost = cmd.lost
  BY <1>0 DEF Command, Carried, CommandKept
<1>4. cmd' = [cmd EXCEPT !.pc = x, !.told = y] =>
        /\ Carried /\ cmd'.pc = x /\ cmd'.p = cmd.p /\ cmd'.off = cmd.off
        /\ cmd'.inner = cmd.inner /\ cmd'.add = cmd.add /\ cmd'.lost = cmd.lost
  BY <1>0 DEF Command, Carried, CommandKept
<1>5. cmd' = [cmd EXCEPT !.pc = x, !.p = y] =>
        /\ Carried /\ cmd'.pc = x /\ cmd'.p = y /\ cmd'.off = cmd.off
        /\ cmd'.inner = cmd.inner /\ cmd'.add = cmd.add /\ cmd'.lost = cmd.lost
  BY <1>0 DEF Command, Carried, CommandKept
<1>6. cmd' = [cmd EXCEPT !.pc = x, !.inner = y] =>
        /\ Carried /\ cmd'.pc = x /\ cmd'.p = cmd.p /\ cmd'.off = cmd.off
        /\ cmd'.inner = y /\ cmd'.add = cmd.add /\ cmd'.lost = cmd.lost
  BY <1>0 DEF Command, Carried, CommandKept
<1>7. cmd' = [cmd EXCEPT !.pc = x, !.off = y] =>
        /\ Carried /\ cmd'.pc = x /\ cmd'.p = cmd.p /\ cmd'.off = y
        /\ cmd'.inner = cmd.inner /\ cmd'.add = cmd.add /\ cmd'.lost = cmd.lost
  BY <1>0 DEF Command, Carried, CommandKept
<1> QED BY <1>1, <1>2, <1>3, <1>4, <1>5, <1>6, <1>7

(* A command that gives up at "unmade", or ends.                           *)
LEMMA UnmadeKept ==
  ASSUME IInv, KeptIInv, UNCHANGED work, stopped' = stopped, removed' = removed,
         mislaid => mislaid', strayed => strayed', cmd.pc \notin {"record", "forget"},
         \/ cmd' = NoCmd
         \/ cmd.op = "rebuild" /\ \E x : cmd' = [cmd EXCEPT !.pc = "unmade", !.told = x]
  PROVE  KeptIInv'
<1>1. CASE cmd' = NoCmd
  BY <1>1, EndKept
<1>2. ASSUME cmd.op = "rebuild", NEW x, cmd' = [cmd EXCEPT !.pc = "unmade", !.told = x]
      PROVE  KeptIInv'
  <2>1. /\ Carried /\ cmd'.pc = "unmade" /\ cmd'.inner = cmd.inner
    BY <1>2, Forms
  <2>2. /\ cmd'.op = "rebuild" /\ cmd'.sb = cmd.sb /\ cmd'.data = cmd.data
        /\ cmd'.was = cmd.was
    BY <1>2, <2>1 DEF Carried, CommandKept
  <2>3. /\ SessionKept /\ (Present' <=> Present) /\ Applied' = Applied /\ (Live' <=> Live)
        /\ entry' = entry /\ box' = box /\ shield' = shield /\ providers' = providers
        /\ session' = session
    BY DEF work, SessionKept, Present, Applied, Live
  <2>4. RecordKept'
    BY <2>1, <2>2, <2>3, RecordFrame DEF KeptIInv
  <2>5. Around'
    BY <2>1, <2>2, <2>3, AroundFrame DEF KeptIInv
  <2>6. Unwanted'
    BY <1>2, <2>1, <2>2, <2>3, UnwantedFrame DEF KeptIInv
  <2>7. Rebuilding'
    BY <1>2, <2>1, <2>2, <2>3 DEF Rebuilding, KeptIInv
  <2> QED BY <2>4, <2>5, <2>6, <2>7 DEF KeptIInv
<1> QED BY <1>1, <1>2

(* Presets are applied and narrowed.                                       *)
LEMMA PresetKept ==
  ASSUME IInv, KeptIInv,
         ApplyAtGateway \/ ApplyInRegistry \/ ApplyFails \/ NarrowAtGateway
           \/ NarrowInRegistry \/ NarrowFails \/ SyncSession
  PROVE  KeptIInv'
<1>0. /\ strayed \in BOOLEAN
      /\ Present => entry \in Entry
      /\ Live => box \in Sandbox
      /\ session \in Session /\ cmd.p \subseteq Preset
  BY SetsTyped DEF IInv, LifecycleTypeOK, Command
<1>1. CASE ApplyAtGateway
  <2>1. /\ cmd.pc = "apply" /\ Live /\ cmd' = [cmd EXCEPT !.pc = "record"]
        /\ \/ box' = [box EXCEPT !.live = box.live \cup cmd.p] /\ strayed' = strayed
           \/ box' = [box EXCEPT !.live = cmd.p] /\ strayed' = TRUE
        /\ UNCHANGED <<entry, session, providers, shield, stopped, removed, mislaid>>
    BY <1>1 DEF ApplyAtGateway, At, Goto, Step, FailTo, Keep, history
  <2>2. /\ Carried /\ cmd'.pc = "record" /\ cmd'.p = cmd.p /\ cmd'.inner = cmd.inner
        /\ cmd'.add = cmd.add /\ cmd'.lost = cmd.lost
    BY <2>1, Forms
  <2>3. /\ cmd'.op = cmd.op /\ cmd'.sb = cmd.sb /\ cmd'.data = cmd.data
        /\ cmd'.was = cmd.was /\ cmd'.saved = cmd.saved
    BY <2>2 DEF Carried, CommandKept
  <2>4. /\ box'.data = box.data
        /\ \/ box'.live = box.live \cup cmd.p /\ strayed' = strayed
           \/ strayed'
    BY <1>0, <2>1 DEF Sandbox
  <2>5. SessionKept /\ (Present' <=> Present) /\ Applied' = Applied
    BY <2>1 DEF SessionKept, Present, Applied
  <2>6. RecordKept'
    BY <2>1, <2>2, <2>3, <2>4, <2>5 DEF RecordKept, KeptIInv
  <2>7. Around'
    BY <2>1, <2>2, <2>3, <2>5, AroundFrame DEF KeptIInv, Around
  <2>8. Unwanted'
    BY <2>1, <2>2, <2>3, <2>4, <2>5, UnwantedFrame DEF KeptIInv
  <2>9. Rebuilding'
    BY <2>1, <2>2, <2>3, <2>5 DEF KeptIInv, Rebuilding, Saved, SameChannels
  <2> QED BY <2>6, <2>7, <2>8, <2>9 DEF KeptIInv
<1>2. CASE ApplyInRegistry
  <2>1. /\ cmd.pc = "record"
        /\ entry' = IF Present
                      THEN [entry EXCEPT !.policies = entry.policies \cup (cmd.p \ Custom),
                                         !.custom = entry.custom \cup (cmd.p \cap Custom)]
                      ELSE entry
        /\ \E x \in {"work", "sync"} : cmd' = [cmd EXCEPT !.pc = x, !.add = cmd.add \ cmd.p]
        /\ UNCHANGED <<session, box, providers, shield, stopped, removed, mislaid, strayed>>
    BY <1>2 DEF ApplyInRegistry, At, Step, AfterPreset, Keep, history
  <2>2. /\ Carried /\ cmd'.pc \in {"work", "sync"} /\ cmd'.inner = cmd.inner
        /\ cmd'.add = cmd.add \ cmd.p /\ cmd'.lost = cmd.lost
    <3>1. PICK x \in {"work", "sync"} : cmd' = [cmd EXCEPT !.pc = x, !.add = cmd.add \ cmd.p]
      BY <2>1
    <3> QED BY <3>1, Forms
  <2>3. /\ cmd'.op = cmd.op /\ cmd'.sb = cmd.sb /\ cmd'.data = cmd.data
        /\ cmd'.was = cmd.was /\ cmd'.saved = cmd.saved
    BY <2>2 DEF Carried, CommandKept
  <2>4. Present => /\ entry'.policies = entry.policies \cup (cmd.p \ Custom)
                   /\ entry'.custom = entry.custom \cup (cmd.p \cap Custom)
                   /\ entry'.listed = entry.listed /\ entry'.channels = entry.channels
                   /\ entry'.disabled = entry.disabled
    BY <1>0, <2>1 DEF Entry
  <2>5. SessionKept /\ (Present' => Present) /\ (Live' <=> Live)
    BY <2>1 DEF SessionKept, Present, Live
  <2>6. RecordKept'
    <3>1. Present' => Applied' = Applied \cup cmd.p
      BY <2>4, <2>5 DEF Applied
    <3> QED BY <2>1, <2>2, <2>3, <2>5, <3>1 DEF RecordKept, KeptIInv
  <2>7. Around'
    BY <2>1, <2>2, <2>3, <2>5, AroundFrame DEF KeptIInv, Around
  <2>8. Unwanted'
    BY <2>1, <2>2, <2>3, <2>4, <2>5, UnwantedFrame DEF KeptIInv
  <2>9. Rebuilding'
    <3>1. Builtin \cap Custom = {}
      BY LifecycleNames
    <3>2. cmd.op = "rebuild" /\ ~cmd.inner => cmd.p \ Custom = cmd.p
      BY <2>1, <3>1 DEF KeptIInv, Rebuilding
    <3> QED BY <2>1, <2>2, <2>3, <2>4, <2>5, <3>2 DEF KeptIInv, Rebuilding, Saved, SameChannels
  <2> QED BY <2>6, <2>7, <2>8, <2>9 DEF KeptIInv
<1>3. CASE ApplyFails
  <2>1. /\ cmd.pc = "apply" /\ UNCHANGED work /\ UNCHANGED <<stopped, removed, mislaid>>
        /\ strayed => strayed'
        /\ \/ cmd' = NoCmd
           \/ cmd.op = "rebuild" /\ \E x : cmd' = [cmd EXCEPT !.pc = "unmade", !.told = x]
    BY <1>3 DEF ApplyFails, At, For, End, FailTo, FailEnd, Step, Unrecreated
  <2> QED BY <2>1, UnmadeKept
<1>4. CASE NarrowAtGateway
  <2>1. /\ cmd.pc = "narrow" /\ Live /\ cmd' = [cmd EXCEPT !.pc = "forget"]
        /\ box' = [box EXCEPT !.live = box.live \ cmd.p] /\ strayed' = strayed
        /\ UNCHANGED <<entry, session, providers, shield, stopped, removed, mislaid>>
    BY <1>4 DEF NarrowAtGateway, At, Goto, Step, Keep, history
  <2>2. /\ Carried /\ cmd'.pc = "forget" /\ cmd'.p = cmd.p /\ cmd'.inner = cmd.inner
        /\ cmd'.add = cmd.add /\ cmd'.lost = cmd.lost
    BY <2>1, Forms
  <2>3. /\ cmd'.op = cmd.op /\ cmd'.sb = cmd.sb /\ cmd'.data = cmd.data
        /\ cmd'.was = cmd.was /\ cmd'.saved = cmd.saved
    BY <2>2 DEF Carried, CommandKept
  <2>4. box'.data = box.data /\ box'.live = box.live \ cmd.p
    BY <1>0, <2>1 DEF Sandbox
  <2>5. SessionKept /\ (Present' <=> Present) /\ Applied' = Applied
    BY <2>1 DEF SessionKept, Present, Applied
  <2>6. RecordKept'
    BY <2>1, <2>2, <2>3, <2>4, <2>5 DEF RecordKept, KeptIInv
  <2>7. Around'
    BY <2>1, <2>2, <2>3, <2>5, AroundFrame DEF KeptIInv, Around
  <2>8. Unwanted'
    BY <2>1, <2>2, <2>3, <2>4, <2>5, UnwantedFrame DEF KeptIInv
  <2>9. Rebuilding'
    BY <2>1, <2>2, <2>3, <2>5 DEF KeptIInv, Rebuilding, IInv, Relocking
  <2> QED BY <2>6, <2>7, <2>8, <2>9 DEF KeptIInv
<1>5. CASE NarrowInRegistry
  <2>1. /\ cmd.pc = "forget"
        /\ entry' = IF Present
                      THEN [entry EXCEPT !.policies = entry.policies \ cmd.p,
                                         !.custom = entry.custom \ cmd.p]
                      ELSE entry
        /\ \E x \in {"work", "sync"} : cmd' = [cmd EXCEPT !.pc = x, !.del = cmd.del \ cmd.p]
        /\ UNCHANGED <<session, box, providers, shield, stopped, removed, mislaid, strayed>>
    BY <1>5 DEF NarrowInRegistry, At, Step, AfterPreset, Keep, history
  <2>2. /\ Carried /\ cmd'.pc \in {"work", "sync"} /\ cmd'.inner = cmd.inner
    BY ZenonT(60), <2>1, Forms
  <2>3. /\ cmd'.op = cmd.op /\ cmd'.sb = cmd.sb /\ cmd'.data = cmd.data
        /\ cmd'.was = cmd.was /\ cmd'.saved = cmd.saved
    BY <2>2 DEF Carried, CommandKept
  <2>4. Present => /\ entry'.policies = entry.policies \ cmd.p
                   /\ entry'.custom = entry.custom \ cmd.p
                   /\ entry'.listed = entry.listed /\ entry'.channels = entry.channels
                   /\ entry'.disabled = entry.disabled
    BY <1>0, <2>1 DEF Entry
  <2>5. SessionKept /\ (Present' => Present) /\ (Live' <=> Live)
    BY <2>1 DEF SessionKept, Present, Live
  <2>6. RecordKept'
    <3>1. Present' => Applied' = Applied \ cmd.p
      BY <2>4, <2>5 DEF Applied
    <3> QED BY <2>1, <2>2, <2>3, <2>5, <3>1 DEF RecordKept, KeptIInv
  <2>7. Around'
    BY <2>1, <2>2, <2>3, <2>5, AroundFrame DEF KeptIInv, Around
  <2>8. Unwanted'
    BY <2>1, <2>2, <2>3, <2>4, <2>5, UnwantedFrame DEF KeptIInv
  <2>9. Rebuilding'
    BY <2>1, <2>2, <2>3, <2>5 DEF KeptIInv, Rebuilding, IInv, Relocking
  <2> QED BY <2>6, <2>7, <2>8, <2>9 DEF KeptIInv
<1>6. CASE NarrowFails
  <2>1. /\ cmd.pc = "narrow" /\ UNCHANGED work /\ UNCHANGED history
        /\ \/ cmd' = NoCmd
           \/ cmd.op = "rebuild" /\ \E x : cmd' = [cmd EXCEPT !.pc = "unmade", !.told = x]
    BY <1>6 DEF NarrowFails, At, For, FailTo, FailEnd, Step, Unrecreated, Keep
  <2> QED BY <2>1, UnmadeKept DEF history
<1>7. CASE SyncSession
  <2>1. /\ cmd.pc = "sync"
        /\ \/ session' = session
           \/ \E x : session' = [session EXCEPT !.presets = x]
        /\ cmd' = NoCmd \/ cmd' = [cmd EXCEPT !.pc = "enable"]
        /\ UNCHANGED <<entry, box, providers, shield, stopped, removed, mislaid, strayed>>
    BY <1>7 DEF SyncSession, At, For, End, Goto, Step, Keep, history
  <2>2. /\ cmd'.pc \in {"idle", "enable"} /\ (cmd'.was => cmd.was)
        /\ (cmd'.inner => cmd.inner) /\ cmd'.op # "rebuild" /\ cmd'.data = {}
    <3>1. CASE cmd' = NoCmd
      BY <3>1 DEF NoCmd
    <3>2. CASE cmd' = [cmd EXCEPT !.pc = "enable"]
      <4>1. /\ Carried /\ cmd'.pc = "enable" /\ cmd'.inner = cmd.inner
        BY <3>2, Forms
      <4>2. cmd.op # "rebuild" /\ cmd.data = {}
        BY <2>1 DEF IInv, Ops, KeptIInv, Around
      <4> QED BY <4>1, <4>2 DEF Carried, CommandKept
    <3> QED BY <2>1, <3>1, <3>2
  <2>3. SessionKept
    <3>1. CASE session' = session
      BY <3>1 DEF SessionKept
    <3>2. ASSUME NEW x, session' = [session EXCEPT !.presets = x] PROVE SessionKept
      BY <1>0, <3>2 DEF SessionKept, Session
    <3> QED BY <2>1, <3>1, <3>2
  <2>4. (Present' <=> Present) /\ Applied' = Applied /\ (Live' <=> Live)
    BY <2>1 DEF Present, Applied, Live
  <2>6. RecordKept'
    BY <2>1, <2>2, <2>4, RecordFrame DEF KeptIInv
  <2>7. Around'
    BY <2>1, <2>2, <2>3, AroundFrame DEF KeptIInv
  <2>8. Unwanted'
    BY <2>1, <2>2, <2>3, <2>4, UnwantedFrame DEF KeptIInv
  <2>9. Rebuilding'
    BY <2>2 DEF Rebuilding
  <2> QED BY <2>6, <2>7, <2>8, <2>9 DEF KeptIInv
<1> QED BY <1>1, <1>2, <1>3, <1>4, <1>5, <1>6, <1>7

(* Channels are added and removed.                                         *)
LEMMA ChannelKept ==
  ASSUME IInv, KeptIInv,
         UpsertProvider \/ EnableInRegistry \/ ClearState \/ DetachProvider
           \/ DisableInRegistry
  PROVE  KeptIInv'
<1>0. /\ mislaid \in BOOLEAN /\ providers \subseteq TokenCh
      /\ Present => entry \in Entry
      /\ Live => box \in Sandbox /\ box.data \subseteq QrCh
      /\ cmd.c \subseteq Channel
      /\ TokenCh \cap QrCh = {}
  BY SetsTyped, LifecycleNames DEF IInv, LifecycleTypeOK, Command
<1>1. /\ cmd.pc \in {"upsert", "enable", "clear", "detach", "disable"}
      /\ cmd.op # "rebuild" /\ cmd.data = {} /\ cmd.pc \notin {"record", "forget", "preserve"}
  BY DEF UpsertProvider, EnableInRegistry, ClearState, DetachProvider, DisableInRegistry, At,
     IInv, Ops, KeptIInv, Around
<1>2. ASSUME cmd' = NoCmd
      PROVE  /\ cmd'.pc = "idle" /\ ~cmd'.was /\ ~cmd'.inner /\ cmd'.op # "rebuild"
             /\ cmd'.data = {}
  BY <1>2 DEF NoCmd
<1>3. ASSUME NEW x, cmd' = [cmd EXCEPT !.pc = x]
      PROVE  /\ cmd'.pc = x /\ cmd'.was = cmd.was /\ cmd'.inner = cmd.inner /\ cmd'.c = cmd.c
             /\ cmd'.op # "rebuild" /\ cmd'.data = {}
  BY <1>1, <1>3, Forms DEF Carried, CommandKept
<1>4. ASSUME FailEnd \/ End, UNCHANGED work, UNCHANGED <<stopped, removed, mislaid, strayed>>
      PROVE  KeptIInv'
  BY <1>1, <1>4, EndKept DEF FailEnd, End, Step
<1>5. CASE UpsertProvider
  <2>1. \/ /\ providers' = providers \cup cmd.c /\ cmd' = [cmd EXCEPT !.pc = "enable"]
           /\ removed' = removed \ cmd.c
           /\ UNCHANGED <<entry, session, box, shield, stopped, mislaid, strayed>>
        \/ FailEnd /\ UNCHANGED work /\ UNCHANGED <<stopped, removed, mislaid, strayed>>
    BY <1>5 DEF UpsertProvider, Goto, Step, work
  <2>2. ASSUME providers' = providers \cup cmd.c, cmd' = [cmd EXCEPT !.pc = "enable"],
               removed' = removed \ cmd.c,
               UNCHANGED <<entry, session, box, shield, stopped, mislaid, strayed>>
        PROVE  KeptIInv'
    <3>1. /\ cmd'.pc = "enable" /\ cmd'.was = cmd.was /\ cmd'.inner = cmd.inner
          /\ cmd'.op # "rebuild" /\ cmd'.data = {}
      BY <1>3, <2>2
    <3>2. SessionKept /\ (Present' <=> Present) /\ Applied' = Applied /\ (Live' <=> Live)
          /\ (Pending' <=> Pending)
      BY <2>2 DEF SessionKept, Present, Applied, Live, Pending
    <3>3. RecordKept'
      BY <1>1, <2>2, <3>1, <3>2, RecordFrame DEF KeptIInv
    <3>4. Around'
      <4>1. removed' \cap providers' = {}
        BY <2>2 DEF KeptIInv, Around
      <4> QED BY <2>2, <3>1, <3>2, <4>1 DEF KeptIInv, Around
    <3>5. Unwanted'
      BY <1>1, <2>2, <3>1, <3>2, UnwantedFrame DEF KeptIInv
    <3>6. Rebuilding'
      BY <3>1 DEF Rebuilding
    <3> QED BY <3>3, <3>4, <3>5, <3>6 DEF KeptIInv
  <2> QED BY <1>4, <2>1, <2>2
<1>6. CASE EnableInRegistry
  <2>1. /\ Present
        /\ entry' = [entry EXCEPT !.channels = entry.channels \cup cmd.c, !.listed = TRUE,
                                  !.disabled = entry.disabled \ cmd.c]
        /\ cmd' = NoCmd \/ cmd' = [cmd EXCEPT !.pc = "apply"]
        /\ stopped' = stopped \ cmd.c /\ removed' = removed \ cmd.c
        /\ UNCHANGED <<session, box, providers, shield, mislaid, strayed>>
    BY <1>6 DEF EnableInRegistry, End, Goto, Step
  <2>2. /\ cmd'.pc \in {"idle", "apply"} /\ (cmd'.was => cmd.was)
        /\ (cmd'.inner => cmd.inner) /\ cmd'.op # "rebuild" /\ cmd'.data = {}
    BY <1>2, <1>3, <2>1
  <2>3. /\ entry'.listed /\ entry'.channels = entry.channels \cup cmd.c
        /\ entry'.disabled = entry.disabled \ cmd.c
        /\ entry'.policies = entry.policies /\ entry'.custom = entry.custom
    BY <1>0, <2>1 DEF Entry
  <2>4. SessionKept /\ (Live' <=> Live) /\ (Pending' <=> Pending)
        /\ (Present' => Applied' = Applied)
    BY <2>1, <2>3 DEF SessionKept, Live, Pending, Present, Applied
  <2>5. RecordKept'
    BY <1>1, <2>1, <2>2, <2>4, RecordFrame DEF KeptIInv
  <2>6. Around'
    BY <2>1, <2>2, <2>4, AroundFrame DEF KeptIInv
  <2>7. Unwanted'
    <3>1. SUFFICES ASSUME ~mislaid' PROVE Unwanted'
      BY DEF Unwanted
    <3>2. Unwanted /\ ~mislaid
      BY <2>1, <3>1 DEF KeptIInv
    <3>3. entry'.listed /\ removed' \cap entry'.channels = {} /\ stopped' \subseteq entry'.disabled
      BY <2>1, <2>3, <3>2 DEF Unwanted
    <3>4. Live' => removed' \cap box'.data = {}
      BY <2>1, <2>4, <3>2 DEF Unwanted
    <3>5. Pending' => removed' \cap session'.channels = {} /\ stopped' \subseteq session'.disabled
      BY <2>1, <2>4, <3>2 DEF Unwanted
    <3> QED BY <2>2, <3>3, <3>4, <3>5 DEF Unwanted
  <2>8. Rebuilding'
    BY <2>2 DEF Rebuilding
  <2> QED BY <2>5, <2>6, <2>7, <2>8 DEF KeptIInv
<1>7. CASE ClearState
  <2>1. \/ /\ Live /\ box' = [box EXCEPT !.data = box.data \ cmd.c]
           /\ cmd' = [cmd EXCEPT !.pc = "disable"] /\ cmd.pc = "clear"
           /\ UNCHANGED <<entry, session, providers, shield, stopped, removed, mislaid, strayed>>
        \/ (FailEnd \/ End) /\ UNCHANGED work /\ UNCHANGED <<stopped, removed, mislaid, strayed>>
    BY <1>7 DEF ClearState, At, Goto, Step, work, Keep, history
  <2>2. ASSUME Live, box' = [box EXCEPT !.data = box.data \ cmd.c],
               cmd' = [cmd EXCEPT !.pc = "disable"], cmd.pc = "clear",
               UNCHANGED <<entry, session, providers, shield, stopped, removed, mislaid, strayed>>
        PROVE  KeptIInv'
    <3>1. /\ cmd'.pc = "disable" /\ cmd'.was = cmd.was /\ cmd'.inner = cmd.inner
          /\ cmd'.c = cmd.c /\ cmd'.op # "rebuild" /\ cmd'.data = {}
      BY <1>3, <2>2
    <3>2. SessionKept /\ (Present' <=> Present) /\ Applied' = Applied /\ (Pending' <=> Pending)
          /\ box'.data = box.data \ cmd.c /\ box'.live = box.live
      BY <1>0, <2>2 DEF SessionKept, Present, Applied, Pending, Sandbox
    <3>3. RecordKept'
      BY <1>1, <2>2, <3>1, <3>2, RecordFrame DEF KeptIInv
    <3>4. Around'
      <4>1. cmd'.c \cap providers' = {} /\ cmd'.c \cap entry'.channels \cap box'.data = {}
        BY <1>0, <2>2, <3>1, <3>2 DEF KeptIInv, Around
      <4> QED BY <2>2, <3>1, <3>2, <4>1 DEF KeptIInv, Around
    <3>5. Unwanted'
      BY <1>1, <2>2, <3>1, <3>2, UnwantedFrame DEF KeptIInv
    <3>6. Rebuilding'
      BY <3>1 DEF Rebuilding
    <3> QED BY <3>3, <3>4, <3>5, <3>6 DEF KeptIInv
  <2> QED BY <1>4, <2>1, <2>2
<1>8. CASE DetachProvider
  <2>1. \/ /\ providers' = providers \ cmd.c
           /\ cmd' = [cmd EXCEPT !.pc = "disable"] /\ cmd.pc = "detach"
           /\ UNCHANGED <<entry, session, box, shield, stopped, removed, mislaid, strayed>>
        \/ FailEnd /\ UNCHANGED work /\ UNCHANGED <<stopped, removed, mislaid, strayed>>
    BY <1>8 DEF DetachProvider, At, Goto, Step, work, Keep, history
  <2>2. ASSUME providers' = providers \ cmd.c,
               cmd' = [cmd EXCEPT !.pc = "disable"], cmd.pc = "detach",
               UNCHANGED <<entry, session, box, shield, stopped, removed, mislaid, strayed>>
        PROVE  KeptIInv'
    <3>1. /\ cmd'.pc = "disable" /\ cmd'.was = cmd.was /\ cmd'.inner = cmd.inner
          /\ cmd'.c = cmd.c /\ cmd'.op # "rebuild" /\ cmd'.data = {}
      BY <1>3, <2>2
    <3>2. SessionKept /\ (Present' <=> Present) /\ Applied' = Applied /\ (Pending' <=> Pending)
          /\ (Live' <=> Live)
      BY <1>0, <2>2 DEF SessionKept, Present, Applied, Pending, Live
    <3>3. RecordKept'
      BY <1>1, <2>2, <3>1, <3>2, RecordFrame DEF KeptIInv
    <3>4. Around'
      <4>0. cmd.c \subseteq TokenCh
        BY <2>2 DEF KeptIInv, Around
      <4>1. /\ cmd'.c \cap providers' = {} /\ removed' \cap providers' = {}
            /\ Live' /\ Present' => cmd'.c \cap entry'.channels \cap box'.data = {}
        BY <1>0, <2>2, <3>1, <3>2, <4>0 DEF KeptIInv, Around
      <4> QED BY <2>2, <3>1, <3>2, <4>1 DEF KeptIInv, Around
    <3>5. Unwanted'
      BY <1>1, <2>2, <3>1, <3>2, UnwantedFrame DEF KeptIInv
    <3>6. Rebuilding'
      BY <3>1 DEF Rebuilding
    <3> QED BY <3>3, <3>4, <3>5, <3>6 DEF KeptIInv
  <2> QED BY <1>4, <2>1, <2>2
<1>9. CASE DisableInRegistry
  <2>1. /\ cmd.pc = "disable" /\ Present
        /\ entry' = [entry EXCEPT !.channels = entry.channels \ cmd.c]
        /\ cmd' = [cmd EXCEPT !.pc = "narrow"] \/ cmd' = [cmd EXCEPT !.pc = "sync"]
        /\ removed' = removed \cup (cmd.c \cap entry.channels)
        /\ mislaid' = (mislaid \/ Pending)
        /\ UNCHANGED <<session, box, providers, shield, stopped, strayed>>
    BY <1>9 DEF DisableInRegistry, At, Goto, Step
  <2>2. /\ cmd'.pc \in {"narrow", "sync"} /\ cmd'.was = cmd.was
        /\ cmd'.inner = cmd.inner /\ cmd'.op # "rebuild" /\ cmd'.data = {}
    BY <1>3, <2>1
  <2>3. /\ entry'.listed = entry.listed /\ entry'.channels = entry.channels \ cmd.c
        /\ entry'.disabled = entry.disabled
        /\ entry'.policies = entry.policies /\ entry'.custom = entry.custom
    BY <1>0, <2>1 DEF Entry
  <2>4. SessionKept /\ (Live' <=> Live) /\ (Pending' <=> Pending)
        /\ (Present' => Applied' = Applied)
    BY <2>1, <2>3 DEF SessionKept, Live, Pending, Present, Applied
  <2>5. RecordKept'
    BY <1>1, <2>1, <2>2, <2>4, RecordFrame DEF KeptIInv
  <2>6. Around'
    <3>1. removed' \cap providers' = {}
      BY <2>1 DEF KeptIInv, Around
    <3> QED BY <2>1, <2>2, <2>4, <3>1 DEF KeptIInv, Around
  <2>7. Unwanted'
    <3>1. SUFFICES ASSUME ~mislaid' PROVE Unwanted'
      BY DEF Unwanted
    <3>2. ~mislaid /\ ~Pending'
      BY <1>0, <2>1, <2>4, <3>1
    <3>3. Unwanted
      BY DEF KeptIInv
    <3>4. entry'.listed /\ removed' \cap entry'.channels = {} /\ stopped' \subseteq entry'.disabled
      BY <2>1, <2>3, <3>2, <3>3 DEF Unwanted
    <3>5. Live' => removed' \cap box'.data = {}
      BY <2>1, <2>4, <3>2, <3>3 DEF Unwanted, KeptIInv, Around
    <3> QED BY <2>2, <3>2, <3>4, <3>5 DEF Unwanted
  <2>8. Rebuilding'
    BY <2>2 DEF Rebuilding
  <2> QED BY <2>5, <2>6, <2>7, <2>8 DEF KeptIInv
<1> QED BY <1>5, <1>6, <1>7, <1>8, <1>9

(* The first half of a rebuild, to the deletion of the old sandbox.        *)
LEMMA UnmakeKept ==
  ASSUME IInv, KeptIInv,
         OpenWindow \/ Backup \/ DeleteSandbox \/ UnregisterSandbox \/ StashInSession
  PROVE  KeptIInv'
<1>0. /\ strayed \in BOOLEAN /\ session \in Session /\ cmd.was \in BOOLEAN
      /\ Present => entry \in Entry
      /\ Live => box \in Sandbox
      /\ cmd.pc \in {"open", "backup", "unregister", "stash"} => cmd.op = "rebuild"
      /\ cmd.pc \in {"open", "backup"} => Live /\ Present
      /\ cmd.pc = "delete" => cmd.op \in {"rebuild", "destroy"}
  BY SetsTyped DEF IInv, LifecycleTypeOK, Command, Ops, HasBox, InSandbox
<1>1. CASE OpenWindow
  <2>1. /\ cmd.pc = "open" /\ UNCHANGED <<entry, session, providers>>
        /\ UNCHANGED <<stopped, removed, mislaid, strayed>>
        /\ \/ shield.mode # "up" /\ cmd' = [cmd EXCEPT !.pc = "backup"]
              /\ UNCHANGED <<box, shield>>
           \/ /\ shield.mode = "up" /\ box' = [box EXCEPT !.live = {}, !.locked = FALSE]
              /\ cmd' = [cmd EXCEPT !.pc = "backup", !.was = TRUE]
           \/ cmd' = NoCmd /\ UNCHANGED <<box, shield>>
    BY <1>1 DEF OpenWindow, At, Goto, Step, FailEnd, Keep, history
  <2>2. CASE cmd' = NoCmd /\ UNCHANGED <<box, shield>>
    BY <2>1, <2>2, EndKept DEF work
  <2>3. ASSUME \/ shield.mode # "up" /\ cmd' = [cmd EXCEPT !.pc = "backup"]
                  /\ UNCHANGED <<box, shield>>
               \/ /\ shield.mode = "up" /\ box' = [box EXCEPT !.live = {}, !.locked = FALSE]
                  /\ cmd' = [cmd EXCEPT !.pc = "backup", !.was = TRUE]
        PROVE  KeptIInv'
    <3>1. /\ CommandKept /\ cmd'.pc = "backup" /\ cmd'.data = cmd.data
          /\ cmd'.saved = cmd.saved /\ cmd'.inner = cmd.inner
          /\ shield.mode # "up" => cmd'.was = cmd.was
      <4>1. CASE cmd' = [cmd EXCEPT !.pc = "backup"]
        BY <4>1, Forms DEF Carried
      <4>2. CASE shield.mode = "up" /\ cmd' = [cmd EXCEPT !.pc = "backup", !.was = TRUE]
        BY <4>2 DEF IInv, LifecycleTypeOK, Command, CommandKept
      <4> QED BY <2>3, <4>1, <4>2
    <3>2. /\ cmd'.op = "rebuild" /\ cmd'.sb = cmd.sb /\ cmd.op = "rebuild"
      BY <1>0, <2>1, <3>1 DEF CommandKept
    <3>3. SessionKept /\ (Present' <=> Present) /\ Applied' = Applied /\ Live
      BY <1>0, <2>1 DEF SessionKept, Present, Applied
    <3>4. box'.data = box.data /\ (shield.mode # "up" => UNCHANGED <<box, shield>>)
      BY <1>0, <2>1, <2>3 DEF Sandbox
    <3>5. RecordKept'
      <4>1. SUFFICES ASSUME ~strayed' PROVE RecordKept'
        BY DEF RecordKept
      <4>2. RecordKept /\ shield.mode = "none"
        BY <2>1, <4>1 DEF KeptIInv, RecordKept
      <4> QED BY <2>1, <3>1, <3>3, <3>4, <4>2, RecordFrame DEF Live
    <3>6. Around'
      BY <2>1, <3>1, <3>2, <3>3, AroundFrame DEF KeptIInv
    <3>7. Unwanted'
      BY <2>1, <3>1, <3>2, <3>3, <3>4, UnwantedFrame DEF KeptIInv
    <3>8. Rebuilding'
      BY <2>1, <3>1, <3>2 DEF KeptIInv, Rebuilding
    <3> QED BY <3>5, <3>6, <3>7, <3>8 DEF KeptIInv
  <2> QED BY <2>1, <2>2, <2>3
<1>2. CASE Backup
  <2>1. /\ cmd.pc = "backup" /\ UNCHANGED work /\ UNCHANGED history
        /\ \/ cmd' = [cmd EXCEPT !.pc = "relock"]
           \/ \E d \in SUBSET box.data :
                cmd' = [cmd EXCEPT !.pc = "delete", !.data = d, !.saved = entry.policies]
    BY <1>2, BackupForms DEF Backup, At, Keep
  <2>2. /\ SessionKept /\ (Present' <=> Present) /\ Applied' = Applied /\ (Live' <=> Live)
        /\ entry' = entry /\ box' = box /\ shield' = shield /\ providers' = providers
        /\ session' = session
        /\ removed' = removed /\ stopped' = stopped /\ mislaid' = mislaid /\ strayed' = strayed
    BY <2>1 DEF work, history, SessionKept, Present, Applied, Live
  <2>3. /\ CommandKept /\ cmd'.inner = cmd.inner /\ cmd'.was = cmd.was
        /\ \/ cmd'.pc = "relock" /\ cmd'.data = cmd.data /\ cmd'.saved = cmd.saved
           \/ cmd'.pc = "delete" /\ cmd'.data \subseteq box.data /\ cmd'.saved = entry.policies
    <3>1. CASE cmd' = [cmd EXCEPT !.pc = "relock"]
      BY <3>1, Forms DEF Carried
    <3>2. ASSUME NEW d \in SUBSET box.data,
                 cmd' = [cmd EXCEPT !.pc = "delete", !.data = d, !.saved = entry.policies]
          PROVE  /\ CommandKept /\ cmd'.inner = cmd.inner /\ cmd'.was = cmd.was
                 /\ cmd'.pc = "delete" /\ cmd'.data \subseteq box.data
                 /\ cmd'.saved = entry.policies
      BY <3>2 DEF IInv, LifecycleTypeOK, Command, CommandKept
    <3> QED BY <2>1, <3>1, <3>2
  <2>4. cmd'.op = "rebuild" /\ cmd'.sb = cmd.sb /\ cmd.op = "rebuild" /\ Live /\ Present
    BY <1>0, <2>1, <2>3 DEF CommandKept
  <2>5. RecordKept'
    BY <2>1, <2>2, <2>3, RecordFrame DEF KeptIInv
  <2>6. Around'
    BY <2>2, <2>3, <2>4, AroundFrame DEF KeptIInv
  <2>7. Unwanted'
    <3>1. SUFFICES ASSUME ~mislaid' PROVE Unwanted'
      BY DEF Unwanted
    <3>2. Unwanted /\ ~mislaid
      BY <2>2, <3>1 DEF KeptIInv
    <3>3. removed' \cap cmd'.data = {}
      BY <2>2, <2>3, <2>4, <3>2 DEF Unwanted
    <3> QED BY <2>2, <2>3, <2>4, <3>2, <3>3 DEF Unwanted, SessionKept, Pending
  <2>8. Rebuilding'
    BY <2>1, <2>2, <2>3, <2>4 DEF KeptIInv, Rebuilding
  <2> QED BY <2>5, <2>6, <2>7, <2>8 DEF KeptIInv
<1>3. CASE DeleteSandbox
  <2>1. /\ cmd.pc = "delete" /\ UNCHANGED <<entry, session, providers, shield>>
        /\ UNCHANGED <<stopped, removed, mislaid, strayed>>
        /\ \/ cmd' = NoCmd /\ box' = box
           \/ cmd' = [cmd EXCEPT !.pc = "services"] /\ box' = NoBox
           \/ cmd' = [cmd EXCEPT !.pc = "unregister"] /\ box' = NoBox
           \/ cmd' = [cmd EXCEPT !.pc = "relock"] /\ box' = box
    BY <1>3 DEF DeleteSandbox, At, Goto, Step, FailTo, Keep, history
  <2>2. CASE cmd' = NoCmd /\ box' = box
    BY <2>1, <2>2, EndKept DEF work
  <2>3. ASSUME NEW x \in {"services", "unregister", "relock"},
               cmd' = [cmd EXCEPT !.pc = x], box' = NoBox \/ box' = box
        PROVE  KeptIInv'
    <3>1. /\ Carried /\ CommandKept /\ cmd'.pc = x /\ cmd'.inner = cmd.inner
      BY <2>3, Forms DEF Carried
    <3>2. cmd'.op = cmd.op /\ cmd'.sb = cmd.sb /\ cmd'.data = cmd.data /\ cmd'.was = cmd.was
          /\ cmd'.saved = cmd.saved
      BY <3>1 DEF CommandKept, Carried
    <3>3. SessionKept /\ (Present' <=> Present) /\ Applied' = Applied
          /\ (Live' => Live /\ box' = box)
      BY <2>1, <2>3 DEF SessionKept, Present, Applied, Live
    <3>4. RecordKept'
      BY <2>1, <2>3, <3>1, <3>2, <3>3, RecordFrame DEF KeptIInv
    <3>5. Around'
      BY <2>1, <2>3, <3>1, <3>2, <3>3, AroundFrame DEF KeptIInv, Around
    <3>6. Unwanted'
      BY <2>1, <2>3, <3>1, <3>2, <3>3, UnwantedFrame DEF KeptIInv
    <3>7. Rebuilding'
      BY <2>1, <2>3, <3>1, <3>2 DEF KeptIInv, Rebuilding, Saved, SameChannels, Prune
    <3> QED BY <3>4, <3>5, <3>6, <3>7 DEF KeptIInv
  <2> QED BY <2>1, <2>2, <2>3
<1>4. CASE UnregisterSandbox
  <2>1. /\ cmd.pc = "unregister" /\ cmd' = [cmd EXCEPT !.pc = "stash"]
        /\ entry' = NoEntry /\ UNCHANGED <<session, box, providers, shield>>
        /\ UNCHANGED <<stopped, removed, mislaid, strayed>>
    BY <1>4 DEF UnregisterSandbox, At, Goto, Step, Keep, history
  <2>2. /\ Carried /\ CommandKept /\ cmd'.pc = "stash" /\ cmd'.inner = cmd.inner
    BY <2>1, Forms DEF Carried
  <2>3. cmd'.op = cmd.op /\ cmd'.sb = cmd.sb /\ cmd'.data = cmd.data /\ cmd'.was = cmd.was
        /\ cmd'.saved = cmd.saved
    BY <2>2 DEF CommandKept, Carried
  <2>4. SessionKept /\ ~Present' /\ (Live' <=> Live)
    BY <2>1 DEF SessionKept, Present, Live
  <2>5. RecordKept'
    BY <2>1, <2>2, <2>3, <2>4, RecordFrame DEF KeptIInv
  <2>6. Around'
    BY <2>1, <2>2, <2>3, <2>4, AroundFrame DEF KeptIInv, Around
  <2>7. Unwanted'
    BY <2>1, <2>2, <2>3, <2>4, UnwantedFrame DEF KeptIInv
  <2>8. Rebuilding'
    BY <2>1, <2>2, <2>3, <2>4 DEF KeptIInv, Rebuilding
  <2> QED BY <2>5, <2>6, <2>7, <2>8 DEF KeptIInv
<1>5. CASE StashInSession
  <2>1. /\ cmd.pc = "stash" /\ cmd' = [cmd EXCEPT !.pc = "create", !.inner = TRUE]
        /\ session' = [session EXCEPT !.own = TRUE, !.open = TRUE, !.channels = Recorded,
                                      !.disabled = cmd.sb.disabled, !.mirrored = TRUE]
        /\ UNCHANGED <<entry, box, providers, shield, stopped, removed, mislaid, strayed>>
    BY <1>5 DEF StashInSession, At, Step, Keep, history
  <2>2. /\ Carried /\ CommandKept /\ cmd'.pc = "create" /\ cmd'.inner
    BY <2>1, Forms DEF Carried
  <2>3. cmd'.op = "rebuild" /\ cmd'.sb = cmd.sb /\ cmd'.data = cmd.data /\ cmd'.was = cmd.was
        /\ cmd.op = "rebuild"
    BY <1>0, <2>1, <2>2 DEF CommandKept, Carried
  <2>4. /\ session'.own /\ session'.open /\ session'.channels = Recorded
        /\ session'.disabled = cmd.sb.disabled /\ session'.mirrored
        /\ Pending' /\ (cmd.sb.listed => session'.channels = cmd.sb.channels)
    BY <1>0, <2>1 DEF Session, Recorded, Pending
  <2>5. (Present' <=> Present) /\ Applied' = Applied /\ (Live' <=> Live)
    BY <2>1 DEF Present, Applied, Live
  <2>6. RecordKept'
    BY <2>1, <2>2, <2>3, <2>5, RecordFrame DEF KeptIInv
  <2>7. Around'
    BY <2>1, <2>2, <2>3, <2>4 DEF KeptIInv, Around
  <2>8. Unwanted'
    BY <2>1, <2>2, <2>3, <2>4, <2>5 DEF KeptIInv, Unwanted
  <2>9. Rebuilding'
    BY <2>2, <2>3, <2>4 DEF Rebuilding
  <2> QED BY <2>6, <2>7, <2>8, <2>9 DEF KeptIInv
<1> QED BY <1>1, <1>2, <1>3, <1>4, <1>5

(* A sandbox is made, registered and given its presets.                    *)
LEMMA MakeKept ==
  ASSUME IInv, KeptIInv, CreateSandbox \/ RegisterSandbox \/ SelectPresets
  PROVE  KeptIInv'
<1>0. /\ strayed \in BOOLEAN /\ session \in Session
      /\ Present => entry \in Entry
      /\ cmd.pc \in {"create", "register", "select"} => cmd.inner /\ cmd.op \in {"rebuild", "resume"}
      /\ cmd.inner => Pending /\ session.mirrored
      /\ cmd.pc \in {"register", "select"} => Live
  BY SetsTyped DEF IInv, LifecycleTypeOK, Ops, HasBox, InSandbox, Relocking, KeptIInv, Around, Pending
<1>1. CASE CreateSandbox
  <2>1. /\ cmd.pc = "create" /\ entry' = NoEntry
        /\ session' = [session EXCEPT !.confirmed = FALSE]
        /\ \/ /\ box' = Fresh(ActiveOf(session.channels, Paused))
              /\ cmd' = [cmd EXCEPT !.pc = "register", !.off = Paused]
           \/ cmd' = NoCmd /\ box' = box
           \/ cmd' = [cmd EXCEPT !.pc = "unmade", !.told = cmd.was] /\ box' = box
        /\ UNCHANGED <<providers, shield, stopped, removed, mislaid, strayed>>
    BY <1>1 DEF CreateSandbox, At, Step, FailTo, Unrecreated
  <2>2. SessionKept /\ ~Present' /\ (Pending' <=> Pending)
    BY <1>0, <2>1 DEF SessionKept, Session, Present, Pending
  <2>3. CASE cmd' = NoCmd /\ box' = box
    <3>1. /\ cmd'.pc = "idle" /\ ~cmd'.was /\ ~cmd'.inner /\ cmd'.op # "rebuild"
          /\ cmd'.data = {} /\ (Live' <=> Live)
      BY <2>3 DEF NoCmd, Live
    <3>2. RecordKept'
      BY <2>1, <2>2, <2>3, <3>1, RecordFrame DEF KeptIInv
    <3>3. Around'
      BY <2>1, <2>2, <3>1, AroundFrame DEF KeptIInv
    <3>4. Unwanted'
      BY <2>1, <2>2, <2>3, <3>1, UnwantedFrame DEF KeptIInv
    <3>5. Rebuilding'
      BY <3>1 DEF Rebuilding
    <3> QED BY <3>2, <3>3, <3>4, <3>5 DEF KeptIInv
  <2>4. CASE cmd' = [cmd EXCEPT !.pc = "unmade", !.told = cmd.was] /\ box' = box
    <3>1. /\ cmd'.pc = "unmade" /\ Carried /\ CommandKept /\ cmd'.inner = cmd.inner
          /\ (Live' <=> Live)
      BY <2>4, Forms DEF Carried, Live
    <3>2. cmd'.op = cmd.op /\ cmd'.sb = cmd.sb /\ cmd'.data = cmd.data /\ cmd'.was = cmd.was
      BY <3>1 DEF CommandKept, Carried
    <3>3. RecordKept'
      BY <2>1, <2>2, <2>4, <3>1, <3>2, RecordFrame DEF KeptIInv
    <3>4. Around'
      BY <2>1, <2>2, <3>1, <3>2, AroundFrame DEF KeptIInv, Around
    <3>5. Unwanted'
      BY <2>1, <2>2, <2>4, <3>1, <3>2, UnwantedFrame DEF KeptIInv
    <3>6. Rebuilding'
      BY <2>1, <2>2, <3>1, <3>2 DEF Rebuilding, KeptIInv, SessionKept
    <3> QED BY <3>3, <3>4, <3>5, <3>6 DEF KeptIInv
  <2>5. CASE /\ box' = Fresh(ActiveOf(session.channels, Paused))
             /\ cmd' = [cmd EXCEPT !.pc = "register", !.off = Paused]
    <3>1. /\ cmd'.pc = "register" /\ Carried /\ CommandKept /\ cmd'.inner = cmd.inner
          /\ cmd'.off = Paused
      BY <2>5, Forms DEF Carried
    <3>2. cmd'.op = cmd.op /\ cmd'.sb = cmd.sb /\ cmd'.data = cmd.data /\ cmd'.was = cmd.was
      BY <3>1 DEF CommandKept, Carried
    <3>3. /\ box'.live = Required(box'.active) /\ box'.data = {}
      BY <2>5 DEF Fresh
    <3>4. Paused = session.disabled /\ Pending
      BY <1>0, <2>1 DEF Paused
    <3>5. RecordKept'
      BY <2>1, <2>2, <3>1, <3>2, <3>3 DEF RecordKept, KeptIInv
    <3>6. Around'
      BY <2>1, <2>2, <3>1, <3>2, AroundFrame DEF KeptIInv, Around
    <3>7. Unwanted'
      <4>1. SUFFICES ASSUME ~mislaid' PROVE Unwanted'
        BY DEF Unwanted
      <4>2. Unwanted /\ ~mislaid
        BY <2>1, <4>1 DEF KeptIInv
      <4>3. stopped' \subseteq cmd'.off
        BY <2>1, <3>1, <3>4, <4>2 DEF Unwanted
      <4> QED BY <2>1, <2>2, <3>1, <3>2, <3>3, <4>2, <4>3 DEF Unwanted, SessionKept
    <3>8. Rebuilding'
      BY <2>1, <2>2, <3>1, <3>2 DEF Rebuilding, KeptIInv, SessionKept
    <3> QED BY <3>5, <3>6, <3>7, <3>8 DEF KeptIInv
  <2> QED BY <2>1, <2>3, <2>4, <2>5
<1>2. CASE RegisterSandbox
  <2>1. /\ cmd.pc = "register" /\ cmd' = [cmd EXCEPT !.pc = "select"]
        /\ entry' = Registered(box.active, session.channels, cmd.off)
        /\ session' = [session EXCEPT !.confirmed = TRUE]
        /\ UNCHANGED <<box, providers, shield, stopped, removed, mislaid, strayed>>
    BY <1>2 DEF RegisterSandbox, At, Goto, Step, Keep, history
  <2>2. SessionKept /\ (Pending' <=> Pending) /\ (Live' <=> Live)
    BY <1>0, <2>1 DEF SessionKept, Session, Pending, Live
  <2>3. /\ Carried /\ CommandKept /\ cmd'.pc = "select" /\ cmd'.inner = cmd.inner
    BY <2>1, Forms DEF Carried
  <2>4. cmd'.op = cmd.op /\ cmd'.sb = cmd.sb /\ cmd'.data = cmd.data /\ cmd'.was = cmd.was
    BY <2>3 DEF CommandKept, Carried
  <2>5. /\ entry'.policies \cup entry'.custom = Required(box.active) /\ entry'.listed
        /\ entry'.channels = session.channels /\ entry'.disabled = cmd.off
    BY <2>1 DEF Registered
  <2>6. RecordKept'
    <3>1. Present' => Applied' = Required(box.active)
      BY <2>5 DEF Applied, Present
    <3> QED BY <2>1, <2>2, <2>3, <2>4, <3>1 DEF RecordKept, KeptIInv
  <2>7. Around'
    BY <2>1, <2>2, <2>3, <2>4, AroundFrame DEF KeptIInv, Around
  <2>8. Unwanted'
    <3>1. SUFFICES ASSUME ~mislaid' PROVE Unwanted'
      BY DEF Unwanted
    <3>2. Unwanted /\ ~mislaid /\ Pending
      BY <1>0, <2>1, <3>1 DEF KeptIInv
    <3>3. entry'.listed /\ removed' \cap entry'.channels = {} /\ stopped' \subseteq entry'.disabled
      BY <2>1, <2>5, <3>2 DEF Unwanted
    <3> QED BY <2>1, <2>2, <2>3, <2>4, <3>2, <3>3 DEF Unwanted, SessionKept
  <2>9. Rebuilding'
    BY <1>0, <2>1, <2>2, <2>3, <2>4 DEF Rebuilding, KeptIInv, SessionKept
  <2> QED BY <2>6, <2>7, <2>8, <2>9 DEF KeptIInv
<1>3. CASE SelectPresets
  <2>1. /\ cmd.pc = "select" /\ session' = [session EXCEPT !.presets = Selection]
        /\ \/ cmd' = [cmd EXCEPT !.pc = "work"]
           \/ cmd' = [cmd EXCEPT !.pc = "work", !.del = Applied \ Selection,
                                 !.add = Selection \ Applied]
        /\ UNCHANGED <<entry, box, providers, shield, stopped, removed, mislaid, strayed>>
    BY <1>3 DEF SelectPresets, At, Step, Keep, history
  <2>2. SessionKept /\ (Pending' <=> Pending) /\ (Live' <=> Live) /\ (Present' <=> Present)
        /\ Applied' = Applied
    BY <1>0, <2>1 DEF SessionKept, Session, Pending, Live, Present, Applied
  <2>3. /\ Carried /\ CommandKept /\ cmd'.pc = "work" /\ cmd'.inner = cmd.inner
    BY <2>1 DEF Carried, CommandKept, IInv, LifecycleTypeOK, Command
  <2>4. cmd'.op = cmd.op /\ cmd'.sb = cmd.sb /\ cmd'.data = cmd.data /\ cmd'.was = cmd.was
    BY <2>3 DEF CommandKept, Carried
  <2>6. RecordKept'
    BY <2>1, <2>2, <2>3, <2>4, RecordFrame DEF KeptIInv
  <2>7. Around'
    BY <2>1, <2>2, <2>3, <2>4, AroundFrame DEF KeptIInv, Around
  <2>8. Unwanted'
    BY <2>1, <2>2, <2>3, <2>4, UnwantedFrame DEF KeptIInv
  <2>9. Rebuilding'
    BY <1>0, <2>1, <2>2, <2>3, <2>4 DEF Rebuilding, KeptIInv, SessionKept
  <2> QED BY <2>6, <2>7, <2>8, <2>9 DEF KeptIInv
<1> QED BY <1>1, <1>2, <1>3

(* The presets still to do, and the second half of a rebuild.              *)
LEMMA RebuiltKept ==
  ASSUME IInv, KeptIInv,
         NextPreset \/ PresetsDone \/ PreserveFields \/ RestoreState \/ Relock \/ RebuildFails
  PROVE  KeptIInv'
<1>0. /\ strayed \in BOOLEAN /\ session \in Session /\ cmd.was \in BOOLEAN
      /\ Present => entry \in Entry
      /\ Live => box \in Sandbox
      /\ cmd.pc \in {"preserve", "restore", "relock", "unmade"} => cmd.op = "rebuild"
      /\ cmd.pc = "work" => cmd.op \in {"rebuild", "resume"} /\ Live
      /\ cmd.pc \in {"preserve", "restore", "relock"} => Live
      /\ cmd.op = "rebuild" /\ ~cmd.inner /\ cmd.pc = "work" => cmd.del = {}
      /\ cmd.inner => Pending
  BY SetsTyped DEF IInv, LifecycleTypeOK, Command, Ops, HasBox, InSandbox, Relocking, KeptIInv,
     Around
<1>1. CASE NextPreset
  <2>1. /\ cmd.pc = "work" /\ UNCHANGED work /\ UNCHANGED history
        /\ \/ \E q \in cmd.del : cmd' = [cmd EXCEPT !.pc = "narrow", !.p = {q}]
           \/ cmd.inner /\ cmd' = [cmd EXCEPT !.pc = "apply", !.p = cmd.add]
           \/ \E q \in cmd.add : q \in Builtin /\ cmd' = [cmd EXCEPT !.pc = "apply", !.p = {q}]
           \/ \E q \in cmd.add :
                cmd' = [cmd EXCEPT !.add = cmd.add \ {q}, !.lost = TRUE]
    BY <1>1 DEF NextPreset, At, Step, Keep
  <2>2. /\ SessionKept /\ (Present' <=> Present) /\ Applied' = Applied /\ (Live' <=> Live)
        /\ entry' = entry /\ box' = box /\ shield' = shield /\ providers' = providers
        /\ session' = session
        /\ removed' = removed /\ stopped' = stopped /\ mislaid' = mislaid /\ strayed' = strayed
    BY <2>1 DEF work, history, SessionKept, Present, Applied, Live
  <2>3. /\ CommandKept /\ Carried /\ cmd'.inner = cmd.inner
        /\ \/ cmd.del # {} /\ cmd'.pc = "narrow"
           \/ /\ cmd'.pc = "apply" /\ (~cmd.inner => cmd'.p \subseteq Builtin)
              /\ cmd'.add = cmd.add /\ cmd'.lost = cmd.lost
           \/ cmd'.pc = "work" /\ cmd'.lost
    <3>1. ASSUME NEW q \in cmd.del, cmd' = [cmd EXCEPT !.pc = "narrow", !.p = {q}]
          PROVE  CommandKept /\ Carried /\ cmd'.inner = cmd.inner /\ cmd'.pc = "narrow"
      BY <3>1, Forms DEF Carried
    <3>2. ASSUME NEW q, cmd' = [cmd EXCEPT !.pc = "apply", !.p = q]
          PROVE  /\ CommandKept /\ Carried /\ cmd'.inner = cmd.inner /\ cmd'.pc = "apply"
                 /\ cmd'.p = q /\ cmd'.add = cmd.add /\ cmd'.lost = cmd.lost
      BY <3>2, Forms DEF Carried
    <3>3. ASSUME NEW q \in cmd.add, cmd' = [cmd EXCEPT !.add = cmd.add \ {q}, !.lost = TRUE]
          PROVE  /\ CommandKept /\ Carried /\ cmd'.inner = cmd.inner /\ cmd'.pc = "work"
                 /\ cmd'.lost
      BY <2>1, <3>3 DEF IInv, LifecycleTypeOK, Command, Carried, CommandKept
    <3>4. ASSUME NEW q \in cmd.add, q \in Builtin, cmd' = [cmd EXCEPT !.pc = "apply", !.p = {q}]
          PROVE  /\ CommandKept /\ Carried /\ cmd'.inner = cmd.inner /\ cmd'.pc = "apply"
                 /\ cmd'.p \subseteq Builtin /\ cmd'.add = cmd.add /\ cmd'.lost = cmd.lost
      BY <3>2, <3>4
    <3> QED BY <2>1, <3>1, <3>2, <3>3, <3>4
  <2>4. cmd'.op = cmd.op /\ cmd'.sb = cmd.sb /\ cmd'.data = cmd.data /\ cmd'.was = cmd.was
        /\ cmd'.saved = cmd.saved
    BY <2>3 DEF CommandKept, Carried
  <2>5. RecordKept'
    BY <2>1, <2>2, <2>3, <2>4, RecordFrame DEF KeptIInv
  <2>6. Around'
    BY <2>2, <2>3, <2>4, AroundFrame DEF KeptIInv, Around
  <2>7. Unwanted'
    BY <2>2, <2>3, <2>4, UnwantedFrame DEF KeptIInv
  <2>8. Rebuilding'
    BY <1>0, <2>1, <2>2, <2>3, <2>4 DEF KeptIInv, Rebuilding, Saved, SameChannels
  <2> QED BY <2>5, <2>6, <2>7, <2>8 DEF KeptIInv
<1>2. CASE PresetsDone
  <2>1. /\ cmd.pc = "work" /\ cmd.add = {}
        /\ \/ /\ cmd.inner /\ session' = [session EXCEPT !.open = FALSE]
              /\ cmd' = NoCmd \/ cmd' = [cmd EXCEPT !.pc = "preserve", !.inner = FALSE]
           \/ /\ ~cmd.inner /\ session' = session /\ cmd' = [cmd EXCEPT !.pc = "relock"]
        /\ UNCHANGED <<entry, box, providers, shield, stopped, removed, mislaid, strayed>>
    BY <1>2 DEF PresetsDone, At, End, Goto, Step, Keep, history
  <2>2. /\ session'.channels = session.channels /\ session'.disabled = session.disabled
        /\ session'.mirrored = session.mirrored
        /\ (session'.open => session' = session)
        /\ (Pending' => Pending /\ session' = session)
        /\ (Present' <=> Present) /\ Applied' = Applied /\ (Live' <=> Live)
    BY <1>0, <2>1 DEF Session, Pending, Present, Applied, Live
  <2>3. \/ /\ cmd'.pc = "idle" /\ ~cmd'.was /\ ~cmd'.inner /\ cmd'.op # "rebuild"
           /\ cmd'.data = {}
        \/ /\ cmd.inner /\ CommandKept /\ Carried /\ cmd'.pc = "preserve" /\ ~cmd'.inner
        \/ /\ ~cmd.inner /\ CommandKept /\ Carried /\ cmd'.pc = "relock" /\ ~cmd'.inner
           /\ cmd'.lost = cmd.lost
    <3>1. CASE cmd' = NoCmd
      BY <3>1 DEF NoCmd
    <3>2. CASE cmd.inner /\ cmd' = [cmd EXCEPT !.pc = "preserve", !.inner = FALSE]
      BY <3>2, Forms DEF Carried
    <3>3. CASE ~cmd.inner /\ cmd' = [cmd EXCEPT !.pc = "relock"]
      <4>1. /\ Carried /\ cmd'.pc = "relock" /\ cmd'.inner = cmd.inner /\ cmd'.lost = cmd.lost
        BY <3>3, Forms
      <4> QED BY <3>3, <4>1 DEF Carried
    <3> QED BY <2>1, <3>1, <3>2, <3>3
  <2>4. CASE /\ cmd'.pc = "idle" /\ ~cmd'.was /\ ~cmd'.inner /\ cmd'.op # "rebuild"
             /\ cmd'.data = {}
    <3>1. RecordKept'
      BY <2>1, <2>2, <2>4, RecordFrame DEF KeptIInv
    <3>2. Around'
      BY <2>1, <2>2, <2>4 DEF Around, KeptIInv
    <3>3. Unwanted'
      BY <2>1, <2>2, <2>4 DEF Unwanted, KeptIInv
    <3>4. Rebuilding'
      BY <2>4 DEF Rebuilding
    <3> QED BY <3>1, <3>2, <3>3, <3>4 DEF KeptIInv
  <2>5. ASSUME CommandKept, Carried, cmd'.pc \in {"preserve", "relock"}, ~cmd'.inner,
               cmd'.pc = "preserve" => cmd.inner,
               cmd'.pc = "relock" => ~cmd.inner /\ cmd'.lost = cmd.lost
        PROVE  KeptIInv'
    <3>1. cmd'.op = cmd.op /\ cmd'.sb = cmd.sb /\ cmd'.data = cmd.data /\ cmd'.was = cmd.was
          /\ cmd'.saved = cmd.saved
      BY <2>5 DEF CommandKept, Carried
    <3>2. RecordKept'
      BY <2>1, <2>2, <2>5, <3>1, RecordFrame DEF KeptIInv
    <3>3. Around'
      BY <2>1, <2>2, <2>5, <3>1 DEF Around, KeptIInv
    <3>4. Unwanted'
      BY <1>0, <2>1, <2>2, <2>5, <3>1 DEF Unwanted, KeptIInv
    <3>5. Rebuilding'
      BY <2>1, <2>2, <2>5, <3>1 DEF Rebuilding, KeptIInv, Saved, SameChannels
    <3> QED BY <3>2, <3>3, <3>4, <3>5 DEF KeptIInv
  <2> QED BY <2>3, <2>4, <2>5
<1>3. CASE PreserveFields
  <2>1. /\ cmd.pc = "preserve" /\ Present /\ cmd' = [cmd EXCEPT !.pc = "restore"]
        /\ entry' = [entry EXCEPT !.channels = session.channels, !.disabled = cmd.sb.disabled]
        /\ UNCHANGED <<session, box, providers, shield, stopped, removed, mislaid, strayed>>
    BY <1>3 DEF PreserveFields, At, Goto, Step, Keep, history
  <2>2. /\ Carried /\ CommandKept /\ cmd'.pc = "restore" /\ cmd'.inner = cmd.inner
    BY <2>1, Forms DEF Carried
  <2>3. cmd'.op = "rebuild" /\ cmd'.sb = cmd.sb /\ cmd'.data = cmd.data /\ cmd'.was = cmd.was
        /\ cmd'.saved = cmd.saved /\ cmd.op = "rebuild"
    BY <1>0, <2>1, <2>2 DEF CommandKept, Carried
  <2>4. /\ entry'.channels = session.channels /\ entry'.disabled = cmd.sb.disabled
        /\ entry'.listed = entry.listed
        /\ entry'.policies = entry.policies /\ entry'.custom = entry.custom
    BY <1>0, <2>1 DEF Entry
  <2>5. SessionKept /\ (Pending' <=> Pending) /\ (Live' <=> Live)
        /\ (Present' => Applied' = Applied)
    BY <2>1, <2>4 DEF SessionKept, Pending, Live, Present, Applied
  <2>6. RecordKept'
    BY <2>1, <2>2, <2>3, <2>5, RecordFrame DEF KeptIInv
  <2>7. Around'
    BY <2>1, <2>2, <2>3, <2>5, AroundFrame DEF KeptIInv
  <2>8. Unwanted'
    <3>1. SUFFICES ASSUME ~mislaid' PROVE Unwanted'
      BY DEF Unwanted
    <3>2. Unwanted /\ ~mislaid
      BY <2>1, <3>1 DEF KeptIInv
    <3>3. entry'.listed /\ removed' \cap entry'.channels = {} /\ stopped' \subseteq entry'.disabled
      BY <2>1, <2>3, <2>4, <3>2 DEF Unwanted
    <3> QED BY <2>1, <2>2, <2>3, <2>5, <3>2, <3>3 DEF Unwanted, SessionKept
  <2>9. Rebuilding'
    <3>1. cmd.sb.listed => session.channels = cmd.sb.channels
      BY <2>1, <2>3 DEF KeptIInv, Rebuilding
    <3> QED BY <2>1, <2>2, <2>3, <2>4, <2>5, <3>1 DEF KeptIInv, Rebuilding, SameChannels, SessionKept
  <2> QED BY <2>6, <2>7, <2>8, <2>9 DEF KeptIInv
<1>4. CASE RestoreState
  <2>1. /\ cmd.pc = "restore"
        /\ cmd' = [cmd EXCEPT !.pc = "work", !.add = Prune(cmd.saved, cmd.sb.disabled)]
        /\ \E d \in SUBSET cmd.data : box' = [box EXCEPT !.data = d]
        /\ UNCHANGED <<entry, session, providers, shield, stopped, removed, mislaid, strayed>>
    BY <1>4 DEF RestoreState, At, Step, FailTo, Keep, history
  <2>2. /\ Carried /\ CommandKept /\ cmd'.pc = "work" /\ cmd'.inner = cmd.inner
        /\ cmd'.add = Saved
    BY ZenonT(60), <2>1, Forms DEF Carried, Saved
  <2>3. cmd'.op = "rebuild" /\ cmd'.sb = cmd.sb /\ cmd'.data = cmd.data /\ cmd'.was = cmd.was
        /\ cmd'.saved = cmd.saved /\ cmd.op = "rebuild"
    BY <1>0, <2>1, <2>2 DEF CommandKept, Carried
  <2>4. /\ box'.data \subseteq cmd.data /\ box'.live = box.live /\ Live
    BY <1>0, <2>1 DEF Sandbox
  <2>5. SessionKept /\ (Pending' <=> Pending) /\ (Present' <=> Present) /\ Applied' = Applied
    BY <2>1 DEF SessionKept, Pending, Present, Applied
  <2>6. RecordKept'
    BY <2>1, <2>2, <2>3, <2>4, <2>5, RecordFrame DEF KeptIInv
  <2>7. Around'
    BY <2>1, <2>2, <2>3, <2>5, AroundFrame DEF KeptIInv
  <2>8. Unwanted'
    BY <2>1, <2>2, <2>3, <2>4, <2>5 DEF KeptIInv, Unwanted
  <2>9. Rebuilding'
    BY <2>1, <2>2, <2>3, <2>5 DEF KeptIInv, Rebuilding, SameChannels, Saved
  <2> QED BY <2>6, <2>7, <2>8, <2>9 DEF KeptIInv
<1>5. CASE Relock
  <2>1. /\ cmd.pc = "relock" /\ UNCHANGED <<entry, session, providers>>
        /\ UNCHANGED <<stopped, removed, mislaid, strayed>>
        /\ \/ /\ cmd.was /\ cmd' = NoCmd
              /\ box' = [box EXCEPT !.locked = TRUE,
                           !.live = IF shield.mode = "down" THEN shield.snap ELSE box.live]
           \/ /\ UNCHANGED <<box, shield>>
              /\ \/ cmd' = NoCmd
                 \/ cmd' = [cmd EXCEPT !.pc = "unmade", !.told = TRUE]
    BY <1>5 DEF Relock, LockUp, At, End, Step, FailTo, Keep, history
  <2>2. CASE /\ UNCHANGED <<box, shield>>
             /\ \/ cmd' = NoCmd
                \/ cmd' = [cmd EXCEPT !.pc = "unmade", !.told = TRUE]
    BY <1>0, <2>1, <2>2, UnmadeKept DEF work
  <2>3. CASE /\ cmd.was /\ cmd' = NoCmd
             /\ box' = [box EXCEPT !.locked = TRUE,
                          !.live = IF shield.mode = "down" THEN shield.snap ELSE box.live]
    <3>1. strayed /\ strayed'
      BY <1>0, <2>1, <2>3 DEF KeptIInv, RecordKept
    <3>2. cmd'.pc = "idle" /\ ~cmd'.inner /\ cmd'.op # "rebuild" /\ cmd'.data = {}
      BY <2>3 DEF NoCmd
    <3>3. SessionKept /\ (Present' <=> Present) /\ Live /\ box'.data = box.data
      BY <1>0, <2>1, <2>3 DEF SessionKept, Present, Sandbox
    <3>4. RecordKept'
      BY <3>1 DEF RecordKept
    <3>5. Around'
      BY <2>1, <3>2, <3>3, AroundFrame DEF KeptIInv
    <3>6. Unwanted'
      BY <2>1, <3>2, <3>3, UnwantedFrame DEF KeptIInv
    <3>7. Rebuilding'
      BY <3>2 DEF Rebuilding
    <3> QED BY <3>4, <3>5, <3>6, <3>7 DEF KeptIInv
  <2> QED BY <2>1, <2>2, <2>3
<1>6. CASE RebuildFails
  BY <1>6, EndKept DEF RebuildFails, At, End, Step, Keep, history
<1> QED BY <1>1, <1>2, <1>3, <1>4, <1>5, <1>6

(* A destroy takes the rest away, or a command dies.                       *)
LEMMA CleanKept ==
  ASSUME IInv, KeptIInv,
         CleanServices \/ CleanShields \/ UnlistSandbox \/ DetachSession \/ Die
  PROVE  KeptIInv'
<1>0. /\ session \in Session
      /\ cmd.pc \in {"services", "artifacts", "unlist", "detachSession"} =>
           cmd.op = "destroy" /\ ~Live
  BY DEF IInv, LifecycleTypeOK, Ops, Destroying
<1>1. CASE Die
  <2>1. /\ cmd' = NoCmd /\ strayed' /\ (mislaid => mislaid') /\ UNCHANGED work
        /\ UNCHANGED <<stopped, removed>>
    BY <1>1 DEF Die
  <2>2. cmd'.pc = "idle" /\ ~cmd'.inner /\ cmd'.op # "rebuild" /\ cmd'.data = {}
    BY <2>1 DEF NoCmd
  <2>3. SessionKept /\ (Present' <=> Present) /\ (Live' <=> Live) /\ entry' = entry
        /\ box' = box /\ providers' = providers
    BY <2>1 DEF SessionKept, Present, Live, work
  <2>4. RecordKept'
    BY <2>1 DEF RecordKept
  <2>5. Around'
    BY <2>1, <2>2, <2>3, AroundFrame DEF KeptIInv
  <2>6. Unwanted'
    BY <2>1, <2>2, <2>3, UnwantedFrame DEF KeptIInv
  <2>7. Rebuilding'
    BY <2>2 DEF Rebuilding
  <2> QED BY <2>4, <2>5, <2>6, <2>7 DEF KeptIInv
<1>2. ASSUME NEW x \in {"artifacts", "unlist", "detachSession"}, cmd.op = "destroy",
             ~Live, \/ cmd' = [cmd EXCEPT !.pc = x]
                    \/ cmd' = [cmd EXCEPT !.pc = x, !.told = TRUE],
             providers' \subseteq providers, entry' = entry \/ entry' = NoEntry,
             \/ shield' = shield
             \/ shield' = [mode |-> "none", snap |-> {}],
             UNCHANGED <<session, box, stopped, removed, mislaid, strayed>>,
             cmd.pc \notin {"record", "forget"}
      PROVE  KeptIInv'
  <2>1. Carried /\ CommandKept /\ cmd'.pc = x /\ cmd'.inner = cmd.inner
    <3>1. CASE cmd' = [cmd EXCEPT !.pc = x]
      BY <3>1, Forms DEF Carried
    <3>2. CASE cmd' = [cmd EXCEPT !.pc = x, !.told = TRUE]
      BY <3>2, Forms DEF Carried
    <3> QED BY <1>2, <3>1, <3>2
  <2>2. cmd'.op = "destroy" /\ cmd'.data = cmd.data /\ cmd'.was = cmd.was
    BY <1>2, <2>1 DEF Carried, CommandKept
  <2>3. SessionKept /\ (Present' => Present /\ entry' = entry) /\ ~Live'
    BY <1>2 DEF SessionKept, Present, Live
  <2>4. RecordKept'
    BY <1>2, <2>1, <2>2, <2>3 DEF RecordKept, KeptIInv
  <2>5. Around'
    BY <1>2, <2>1, <2>2, <2>3, AroundFrame DEF KeptIInv, Around
  <2>6. Unwanted'
    BY <1>2, <2>1, <2>2, <2>3, UnwantedFrame DEF KeptIInv
  <2>7. Rebuilding'
    BY <2>2 DEF Rebuilding
  <2> QED BY <2>4, <2>5, <2>6, <2>7 DEF KeptIInv
<1>3. CASE CleanServices
  BY <1>0, <1>2, <1>3 DEF CleanServices, At, Goto, Step, FailTo, Keep, history
<1>4. CASE CleanShields
  BY <1>0, <1>2, <1>4 DEF CleanShields, At, Goto, Step, FailTo, Keep, history
<1>5. CASE UnlistSandbox
  BY <1>0, <1>2, <1>5 DEF UnlistSandbox, At, Goto, Step, Keep, history
<1>6. CASE DetachSession
  <2>1. /\ cmd.pc = "detachSession" /\ session' = [session EXCEPT !.own = FALSE] /\ cmd' = NoCmd
        /\ stopped' = {} /\ removed' = {}
        /\ UNCHANGED <<entry, box, providers, shield, mislaid, strayed>>
    BY <1>6 DEF DetachSession, At, End, Step
  <2>2. cmd'.pc = "idle" /\ ~cmd'.was /\ ~cmd'.inner /\ cmd'.op # "rebuild" /\ cmd'.data = {}
    BY <2>1 DEF NoCmd
  <2>3. /\ ~Pending' /\ session'.open = session.open /\ session'.mirrored = session.mirrored
        /\ (Present' <=> Present) /\ Applied' = Applied /\ (Live' <=> Live)
    BY <1>0, <2>1 DEF Session, Pending, Present, Applied, Live
  <2>4. RecordKept'
    BY <2>1, <2>2, <2>3, RecordFrame DEF KeptIInv
  <2>5. Around'
    BY <2>1, <2>2, <2>3 DEF KeptIInv, Around
  <2>6. Unwanted'
    BY <2>1, <2>2, <2>3 DEF KeptIInv, Unwanted
  <2>7. Rebuilding'
    BY <2>2 DEF Rebuilding
  <2> QED BY <2>4, <2>5, <2>6, <2>7 DEF KeptIInv
<1> QED BY <1>1, <1>3, <1>4, <1>5, <1>6

(* Every step keeps the second invariant.                                  *)
LEMMA KeptStep == IInv /\ KeptIInv /\ [LifecycleNext]_lifecycleVars => KeptIInv'
<1> SUFFICES ASSUME IInv, KeptIInv, [LifecycleNext]_lifecycleVars
             PROVE  KeptIInv'
  OBVIOUS
<1>1. CASE UNCHANGED lifecycleVars
  BY <1>1 DEF lifecycleVars, work, history, KeptIInv, RecordKept, Around, Unwanted, Rebuilding,
     Present, Live, Applied, Pending, Saved, SameChannels
<1>2. CASE LifecycleNext
  BY <1>2, StartKept, PresetKept, ChannelKept, UnmakeKept, MakeKept, RebuiltKept, CleanKept
  DEF LifecycleNext, CommandSteps
<1> QED BY <1>1, <1>2

LEMMA KeptInitial == LifecycleInit => KeptIInv
<1> SUFFICES ASSUME LifecycleInit PROVE KeptIInv
  OBVIOUS
<1>1. /\ cmd.pc = "idle" /\ ~cmd.was /\ ~cmd.inner /\ cmd.op = "none" /\ cmd.data = {}
      /\ shield.mode = "none" /\ stopped = {} /\ removed = {}
  BY DEF LifecycleInit, NoCmd
<1>2. PICK channels \in UserChoices :
        /\ session = Onboarded(channels, Extra) /\ entry = OnboardedEntry(channels, Extra, {})
        /\ box = OnboardedBox(channels, Extra, {})
  BY DEF LifecycleInit
<1>3. /\ ~session.open /\ entry.listed
      /\ entry.policies \cup entry.custom = Extra \cup Required(channels)
      /\ box.live = Extra \cup Required(channels)
  BY <1>2 DEF Onboarded, OnboardedEntry, OnboardedBox
<1>4. RecordKept
  BY <1>1, <1>3 DEF RecordKept, Applied
<1>5. Around
  BY <1>1, <1>3 DEF Around
<1>6. Unwanted
  BY <1>1, <1>3 DEF Unwanted, Pending
<1>7. Rebuilding
  BY <1>1 DEF Rebuilding
<1> QED BY <1>4, <1>5, <1>6, <1>7 DEF KeptIInv

(* The registry entry, the session, the sandbox with its policy, and the   *)
(* providers are kept in step by every command (policy-channel.ts,         *)
(* rebuild.ts, createSandbox), whichever of its steps fails or is the last.*)
THEOREM ConfigurationInvariant == LifecycleSpec => []KeptIInv
<1>1. LifecycleInit => KeptIInv
  BY KeptInitial
<1>2. IInv /\ KeptIInv /\ [LifecycleNext]_lifecycleVars => KeptIInv'
  BY KeptStep
<1> QED BY <1>1, <1>2, LifecycleInvariant, PTL DEF LifecycleSpec

(* Between commands the presets in sandboxes.json are those of the live    *)
(* policy (applyPreset and removePreset of policy/index.ts tell the        *)
(* gateway, then the registry), unless a command died between the two, a   *)
(* recovery wrote the entry, or shields replaced the policy.               *)
THEOREM RecordIsKept == LifecycleSpec => []RecordedIsLive
<1>1. KeptIInv => RecordedIsLive
  BY DEF KeptIInv, RecordKept, RecordedIsLive, Idle
<1> QED BY <1>1, ConfigurationInvariant, PTL

(* A channel removed (removeChannel of policy-channel.ts) has no provider, *)
(* is not in the entry, and its pairing is in no sandbox, whatever was     *)
(* rebuilt, resumed or destroyed since, unless the entry was lost.         *)
THEOREM RemovedIsForgotten == LifecycleSpec => []RemovedStaysRemoved
<1>1. KeptIInv => RemovedStaysRemoved
  BY DEF KeptIInv, Around, Unwanted, RemovedStaysRemoved, Idle
<1> QED BY <1>1, ConfigurationInvariant, PTL

(* Only createSandbox and a new onboarding make a sandbox.                 *)
LEMMA BuiltStep ==
  ASSUME IInv, KeptIInv, LifecycleNext, Made, ~mislaid
  PROVE  box'.active \cap (stopped' \cup removed') = {}
<1>1. CASE CreateSandbox /\ box' # box
  <2>1. /\ box' = Fresh(ActiveOf(session.channels, Paused)) /\ cmd.pc = "create"
        /\ UNCHANGED <<stopped, removed>>
    BY <1>1 DEF CreateSandbox, At
  <2>2. Pending /\ session.mirrored
    BY <2>1 DEF IInv, Ops, Relocking, KeptIInv, Around, Pending
  <2>3. removed \cap session.channels = {} /\ stopped \subseteq Paused
    BY <2>2 DEF KeptIInv, Unwanted, Paused
  <2>4. box'.active \subseteq session.channels \ Paused
    BY <2>1 DEF Fresh, ActiveOf
  <2> QED BY <2>1, <2>3, <2>4
<1>2. ASSUME NEW s \in UserChoices, Onboard(s, Extra)
      PROVE  box'.active \cap (stopped' \cup removed') = {}
  <2>1. box' = OnboardedBox(s, Extra, Disabled) /\ removed' = removed \ s
        /\ stopped' = stopped \cap Disabled
    BY <1>2 DEF Onboard
  <2>2. box'.active = s \ Disabled
    BY <2>1 DEF OnboardedBox
  <2> QED BY <2>1, <2>2
<1>3. ~Live /\ box' # NoBox /\ box' # box
  BY DEF Made, Live
<1>4. cmd.pc \notin {"open", "restore", "relock"}
  BY <1>3 DEF IInv, Ops, HasBox, InSandbox
<1>5. CreateSandbox \/ \E s \in UserChoices : Onboard(s, Extra)
  BY <1>3, <1>4, ZenonT(30) DEF LifecycleNext, CommandStarts, CommandSteps, work, At,
     OpenWindow, RestoreState, Relock, ApplyAtGateway, NarrowAtGateway, ClearState,
     DeleteSandbox, ShieldsUp, ShieldsDown,
     ApplyFails, ApplyInRegistry, Backup, ChannelAdd, ChannelRemove, ChannelStart,
     ChannelStop, CleanServices, CleanShields, Destroy, DetachProvider, DetachSession, Die,
     DisableInRegistry, EnableInRegistry, NarrowFails, NarrowInRegistry, OnboardOther, Pair,
     PolicyAdd, PolicyRemove, PreserveFields, PresetsDone, Rebuild, RebuildFails, Recover,
     RecoverOther, RegisterSandbox, Resume, SelectPresets, StashInSession, SyncSession,
     UnlistSandbox, UnregisterSandbox, UpsertProvider, NextPreset
<1> QED BY <1>1, <1>2, <1>3, <1>5

(* A sandbox is not made with a channel that was stopped or removed: what  *)
(* createSandbox goes by (resolveDisabledChannels, the channels of the     *)
(* session) was stashed by the rebuild, even when it is a later onboard    *)
(* --resume that finishes it.                                              *)
THEOREM UnwantedStaysOut == LifecycleSpec => UnwantedIsNotBuilt
<1>1. IInv /\ KeptIInv /\ [LifecycleNext]_lifecycleVars
        => [Made /\ ~mislaid => box'.active \cap (stopped' \cup removed') = {}]_lifecycleVars
  BY BuiltStep
<1> QED BY <1>1, LifecycleInvariant, ConfigurationInvariant, PTL
        DEF LifecycleSpec, UnwantedIsNotBuilt

(* A rebuild that reaches its last step without a word about a preset lost *)
(* has every built-in preset it saved back in the entry, and the channels  *)
(* and the stopped channels of the old entry (rebuild.ts).                 *)
THEOREM RebuildKeeps == LifecycleSpec => RebuildKeepsConfiguration
<1>1. KeptIInv =>
        [ For("rebuild") /\ At("relock") /\ ~cmd.lost /\ cmd.saved # {} /\ Present
            => /\ Prune(cmd.saved, cmd.sb.disabled) \subseteq entry.policies
               /\ cmd.sb.listed => entry.channels = cmd.sb.channels
               /\ entry.disabled = cmd.sb.disabled ]_lifecycleVars
  BY DEF KeptIInv, Rebuilding, Saved, SameChannels, For, At
<1> QED BY <1>1, ConfigurationInvariant, PTL DEF RebuildKeepsConfiguration
=============================================================================
