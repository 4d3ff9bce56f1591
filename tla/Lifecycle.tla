------------------------------ MODULE Lifecycle ------------------------------
(***************************************************************************)
(* The commands that change a sandbox after it was onboarded: rebuild,     *)
(* destroy, policy-add and policy-remove, channels add, remove, stop and   *)
(* start, onboard --resume, and the recovery of its registry entry         *)
(* (src/lib/actions/sandbox, src/lib/policy, src/lib/onboard and           *)
(* src/lib/registry-recovery-action.ts).                                   *)
(*                                                                         *)
(* What the user configured lives in five places that one command after    *)
(* another must keep in step: the registry entry, the onboarding session   *)
(* (which may be about another sandbox), the sandbox and its policy, the   *)
(* providers at the gateway, and the shields state file.  A command is a   *)
(* sequence of steps, any of which may be its last; commands run one at a  *)
(* time, and the model is of one sandbox.                                  *)
(***************************************************************************)
EXTENDS Naturals, FiniteSets

CONSTANTS
  TokenCh,     \* messaging channels with a token, kept by a provider
  QrCh,        \* channels paired from inside the sandbox (whatsapp)
  RequiredCh,  \* channels whose preset the sandbox is created with (slack)
  Extra,       \* built-in presets of no channel
  Custom,      \* presets applied from a file
  NoEntry, NoBox,
  MaxCmds,     \* bound: commands in a behaviour
  MaxFailures, \* bound: external calls that fail in a behaviour
  MaxDeaths    \* bound: commands that die half-way in a behaviour

Channel == TokenCh \cup QrCh          \* a channel's preset has its name
Builtin == Channel \cup Extra
Preset  == Builtin \cup Custom

ASSUME LifecycleNames ==
  /\ RequiredCh \subseteq TokenCh /\ TokenCh \cap QrCh = {}
  /\ Builtin \cap Custom = {} /\ Channel \cap Extra = {}
ASSUME LifecycleBounds == {MaxCmds, MaxFailures, MaxDeaths} \subseteq Nat

Entry == [policies : SUBSET Preset, custom : SUBSET Custom,
          channels : SUBSET Channel, disabled : SUBSET Channel,
          listed : BOOLEAN]           \* it has a list of channels
Sandbox == [active : SUBSET Channel,  \* channels its image was built with
            data   : SUBSET QrCh,     \* channels paired in its state directories
            live   : SUBSET Preset,   \* presets in force at the gateway
            locked : BOOLEAN]         \* its configuration is locked
Session == [own : BOOLEAN,            \* it is about this sandbox
            open : BOOLEAN,           \* resumable
            confirmed : BOOLEAN,      \* its sandbox step is complete
            presets : SUBSET Preset, channels : SUBSET Channel,
            disabled : SUBSET Channel,
            mirrored : BOOLEAN]       \* it has a list of stopped channels

ASSUME LifecycleNone == NoEntry \notin Entry /\ NoBox \notin Sandbox

Op == {"none", "addPolicy", "removePolicy", "addChannel", "removeChannel",
       "rebuild", "resume", "destroy"}
Pc == {"idle",
       "apply", "record", "narrow", "forget", "sync",           \* presets
       "upsert", "enable", "clear", "detach", "disable",        \* channels
       "open", "backup", "delete", "unregister", "stash",       \* rebuild
       "create", "register", "select", "work", "preserve",
       "restore", "relock", "unmade",
       "services", "artifacts", "unlist", "detachSession"}      \* destroy
Command == [op : Op, pc : Pc,
            c : SUBSET Channel,     \* the channel of the command
            off : SUBSET Channel,   \* the stopped channels createSandbox goes by
            p : SUBSET Preset,      \* presets of the step under way
            add : SUBSET Preset, del : SUBSET Preset,  \* presets still to do
            sb : Entry,             \* the entry read at the top
            data : SUBSET QrCh, saved : SUBSET Preset, \* the backup
            inner : BOOLEAN,        \* inside onboard()
            was : BOOLEAN,          \* shields were up
            told : BOOLEAN,         \* said that the lock is not restored
            lost : BOOLEAN]         \* said that a preset is not restored
NoConfig == [policies |-> {}, custom |-> {}, channels |-> {}, disabled |-> {},
             listed |-> FALSE]
NoCmd == [op |-> "none", pc |-> "idle", c |-> {}, off |-> {}, p |-> {}, add |-> {}, del |-> {},
          sb |-> NoConfig, data |-> {}, saved |-> {}, inner |-> FALSE,
          was |-> FALSE, told |-> FALSE, lost |-> FALSE]

VARIABLES
  entry,      \* the registry entry
  session,    \* the onboarding session
  box,        \* the sandbox at the gateway
  providers,  \* channels whose provider exists at the gateway
  shield,     \* the shields state file, and the policy snapshot it names
  cmd,        \* the command under way
  stopped,    \* history: channels stopped, and not started or destroyed since
  removed,    \* history: channels removed, and not added or destroyed since
  gone,       \* history: a destroy has ended and nothing was made since
  mislaid,    \* history: what the entry says of channels was lost, or said
              \* while a session that may be resumed says something else
  strayed,    \* history: a command died, a recovery ran, or shields were used
  cmds, failures, deaths

work     == <<entry, session, box, providers, shield>>
history  == <<stopped, removed, gone, mislaid, strayed>>
lbudgets == <<cmds, failures, deaths>>
lifecycleVars == <<work, cmd, history, lbudgets>>

LifecycleTypeOK ==
  /\ entry \in Entry \cup {NoEntry} /\ session \in Session
  /\ box \in Sandbox \cup {NoBox} /\ providers \subseteq TokenCh
  /\ shield \in [mode : {"none", "down", "up"}, snap : SUBSET Preset]
  /\ cmd \in Command
  /\ stopped \subseteq Channel /\ removed \subseteq Channel
  /\ {gone, mislaid, strayed} \subseteq BOOLEAN
  /\ cmds \in 0 .. MaxCmds /\ failures \in 0 .. MaxFailures /\ deaths \in 0 .. MaxDeaths

-----------------------------------------------------------------------------
(* What the entry, the session and the policy say.                         *)

Present == entry # NoEntry
Live    == box # NoBox
Applied == IF Present THEN entry.policies \cup entry.custom ELSE {}
Disabled == IF Present THEN entry.disabled ELSE {}

Required(channels) == channels \cap RequiredCh
Prune(presets, disabled) == presets \ Required(disabled)

(* A fresh sandbox of a configured set of channels: a token channel is     *)
(* active when its provider is there, a QR channel when it is selected.    *)
ActiveOf(channels, disabled) ==
  (channels \ disabled) \cap (QrCh \cup providers)
Fresh(active) ==
  [active |-> active, data |-> {}, live |-> Required(active), locked |-> FALSE]
Registered(active, channels, disabled) ==
  [policies |-> Required(active), custom |-> {}, channels |-> channels,
   disabled |-> disabled, listed |-> TRUE]

(* preparePolicyPresetResumeSelection and the selection that follows it.   *)
PolicyChannels == (session.channels \cup entry.channels) \ entry.disabled
Clamped == session.presets \cap (Builtin \cup Applied)
Selection ==
  LET recorded == Prune(Clamped, entry.disabled)
      kept == IF Applied \cap Required(entry.disabled) = {} THEN {}
              ELSE Prune(Applied, entry.disabled)
  IN  Prune(recorded \cup kept \cup Required(PolicyChannels), entry.disabled)
AlreadyApplied ==
  /\ Prune(Clamped, entry.disabled) = session.presets
  /\ Applied \cap Required(entry.disabled) = {}
  /\ Selection # {} /\ Selection \subseteq Applied

-----------------------------------------------------------------------------
Idle == cmd.pc = "idle"
At(pc) == cmd.pc = pc
For(op) == cmd.op = op
Begin(c) == Idle /\ cmds < MaxCmds /\ cmds' = cmds + 1 /\ cmd' = c
            /\ UNCHANGED <<failures, deaths>>
Step(c) == cmd' = c /\ UNCHANGED lbudgets
Goto(pc) == Step([cmd EXCEPT !.pc = pc])
End == Step(NoCmd)
Failure == failures < MaxFailures /\ failures' = failures + 1 /\ UNCHANGED <<cmds, deaths>>
FailEnd == Failure /\ cmd' = NoCmd
FailTo(c) == Failure /\ cmd' = c
Keep == UNCHANGED history

(* The end of a rebuild whose onboard() failed; of onboard() by itself.    *)
Unrecreated ==
  IF For("rebuild") THEN [cmd EXCEPT !.pc = "unmade", !.told = cmd.was] ELSE NoCmd

-----------------------------------------------------------------------------
(* policy-add, policy-remove, and the preset half of other commands.       *)

PolicyAdd(p) ==
  /\ Present /\ p \in Custom \cup (Preset \ Applied)
  /\ Begin([NoCmd EXCEPT !.op = "addPolicy", !.pc = "apply", !.p = {p}])
  /\ UNCHANGED <<work, history>>

PolicyRemove(p) ==
  /\ Present /\ p \in Applied \cap (Builtin \cup entry.custom)
  /\ Begin([NoCmd EXCEPT !.op = "removePolicy", !.pc = "narrow", !.p = {p}])
  /\ UNCHANGED <<work, history>>

AfterPreset == IF cmd.op \in {"rebuild", "resume"} THEN "work" ELSE "sync"

(* The gateway is told before the registry.  A `policy get' that fails is  *)
(* read as an empty policy, and the merge then replaces the whole of it.   *)
ApplyAtGateway ==
  /\ At("apply") /\ Live
  /\ \/ box' = [box EXCEPT !.live = @ \cup cmd.p] /\ Goto("record") /\ Keep
     \/ /\ box' = [box EXCEPT !.live = cmd.p]
        /\ FailTo([cmd EXCEPT !.pc = "record"])
        /\ strayed' = TRUE /\ UNCHANGED <<stopped, removed, gone, mislaid>>
  /\ UNCHANGED <<entry, session, providers, shield>>

ApplyInRegistry ==
  /\ At("record")
  /\ entry' = IF Present
                THEN [entry EXCEPT !.policies = @ \cup (cmd.p \ Custom),
                                   !.custom = @ \cup (cmd.p \cap Custom)]
                ELSE entry
  /\ Step([cmd EXCEPT !.pc = AfterPreset, !.add = @ \ cmd.p])
  /\ Keep /\ UNCHANGED <<session, box, providers, shield>>

(* A failed `policy set' ends the process: inside onboard() the rebuild    *)
(* catches it, in its own loop over the saved presets it dies of it.       *)
ApplyFails ==
  /\ At("apply")
  /\ \/ ~Live /\ End
     \/ Live /\ IF cmd.inner THEN FailTo(Unrecreated) ELSE FailEnd
  /\ strayed' = (strayed \/ (For("rebuild") /\ ~cmd.inner))
  /\ UNCHANGED <<work, stopped, removed, gone, mislaid>>

NarrowAtGateway ==
  /\ At("narrow") /\ Live /\ cmd.p \cap box.live # {}
  /\ box' = [box EXCEPT !.live = @ \ cmd.p] /\ Goto("forget")
  /\ Keep /\ UNCHANGED <<entry, session, providers, shield>>

(* Mutant: a preset from a file is not forgotten.                          *)
NarrowBuiltinInRegistry ==
  /\ At("forget")
  /\ entry' = IF Present THEN [entry EXCEPT !.policies = @ \ cmd.p] ELSE entry
  /\ Step([cmd EXCEPT !.pc = AfterPreset, !.del = @ \ cmd.p])
  /\ Keep /\ UNCHANGED <<session, box, providers, shield>>

NarrowInRegistry ==
  /\ At("forget")
  /\ entry' = IF Present
                THEN [entry EXCEPT !.policies = @ \ cmd.p, !.custom = @ \ cmd.p]
                ELSE entry
  /\ Step([cmd EXCEPT !.pc = AfterPreset, !.del = @ \ cmd.p])
  /\ Keep /\ UNCHANGED <<session, box, providers, shield>>

(* No policy to read, nothing of the preset in it, or `policy set' failed. *)
NarrowFails ==
  /\ At("narrow")
  /\ \/ (Live => cmd.p \cap box.live = {})
        /\ Step(IF cmd.inner THEN Unrecreated ELSE NoCmd)
     \/ Live /\ IF cmd.inner THEN FailTo(Unrecreated) ELSE FailEnd
  /\ Keep /\ UNCHANGED work

(* syncSessionPolicyPresetsWithRegistry: the session of this sandbox only. *)
SyncSession ==
  /\ At("sync")
  /\ session' = IF ~session.own THEN session
                ELSE [session EXCEPT !.presets =
                        IF cmd.op \in {"addPolicy", "addChannel"}
                          THEN @ \cup cmd.p ELSE @ \ cmd.p]
  /\ IF For("addChannel") /\ cmd.c \subseteq QrCh THEN Goto("enable") ELSE End
  /\ Keep /\ UNCHANGED <<entry, box, providers, shield>>

-----------------------------------------------------------------------------
(* channels add, remove, stop and start.                                   *)

(* Mutant: every channel is given a provider.                              *)
ChannelAddWithProvider(c) ==
  /\ Present
  /\ Begin([NoCmd EXCEPT !.op = "addChannel", !.c = {c}, !.p = {c}, !.pc = "upsert"])
  /\ UNCHANGED <<work, history>>

ChannelAdd(c) ==
  /\ Present
  /\ Begin([NoCmd EXCEPT !.op = "addChannel", !.c = {c}, !.p = {c},
                         !.pc = IF c \in QrCh THEN "apply" ELSE "upsert"])
  /\ UNCHANGED <<work, history>>

UpsertProvider ==
  /\ At("upsert")
  /\ \/ /\ providers' = providers \cup cmd.c /\ Goto("enable")
        /\ removed' = removed \ cmd.c
     \/ FailEnd /\ UNCHANGED <<providers, removed>>
  /\ UNCHANGED <<entry, session, box, shield, stopped, gone, mislaid, strayed>>

(* applyChannelAddToGatewayAndRegistry, its registry half.                 *)
EnableInRegistry ==
  /\ At("enable") /\ Present
  /\ entry' = [entry EXCEPT !.channels = @ \cup cmd.c, !.listed = TRUE,
                            !.disabled = @ \ cmd.c]
  /\ IF cmd.c \subseteq QrCh THEN End ELSE Goto("apply")
  /\ stopped' = stopped \ cmd.c /\ removed' = removed \ cmd.c
  /\ UNCHANGED <<session, box, providers, shield, gone, mislaid, strayed>>

Pending == session.own /\ session.open   \* the session may be resumed

Residue(c) ==
  c \in Applied \cup (IF Present THEN entry.channels ELSE {})
              \cup (IF session.own THEN session.presets ELSE {})

(* Mutant: the pairing is left in the sandbox.                             *)
ChannelRemoveKeepsPairing(c) ==
  /\ Present
  /\ Begin([NoCmd EXCEPT !.op = "removeChannel", !.c = {c}, !.p = {c},
                         !.pc = IF c \in TokenCh THEN "detach" ELSE "disable"])
  /\ UNCHANGED <<work, history>>

ChannelRemove(c) ==
  /\ Present
  /\ Begin([NoCmd EXCEPT !.op = "removeChannel", !.c = {c}, !.p = {c},
                         !.pc = IF c \in TokenCh THEN "detach"
                                ELSE IF Residue(c) THEN "clear" ELSE "disable"])
  /\ UNCHANGED <<work, history>>

(* A QR channel's session is cleared first, and nothing else when it       *)
(* cannot be.                                                              *)
ClearState ==
  /\ At("clear")
  /\ \/ /\ Live /\ box' = [box EXCEPT !.data = @ \ cmd.c] /\ Goto("disable")
     \/ /\ (IF Live THEN FailEnd ELSE End) /\ UNCHANGED box
  /\ Keep /\ UNCHANGED <<entry, session, providers, shield>>

DetachProvider ==
  /\ At("detach")
  /\ \/ providers' = providers \ cmd.c /\ Goto("disable")
     \/ FailEnd /\ UNCHANGED providers
  /\ Keep /\ UNCHANGED <<entry, session, box, shield>>

DisableInRegistry ==
  /\ At("disable") /\ Present
  /\ entry' = [entry EXCEPT !.channels = @ \ cmd.c]
  /\ Goto(IF cmd.c \subseteq Applied THEN "narrow" ELSE "sync")
  /\ removed' = removed \cup (cmd.c \cap entry.channels)
  /\ mislaid' = (mislaid \/ Pending)
  /\ UNCHANGED <<session, box, providers, shield, stopped, gone, strayed>>

ChannelStop(c) ==
  /\ Present /\ c \notin entry.disabled
  /\ Begin(NoCmd) /\ entry' = [entry EXCEPT !.disabled = @ \cup {c}]
  /\ stopped' = stopped \cup {c} /\ mislaid' = (mislaid \/ Pending)
  /\ UNCHANGED <<session, box, providers, shield, removed, gone, strayed>>

ChannelStart(c) ==
  /\ Present /\ c \in entry.disabled
  /\ Begin(NoCmd) /\ entry' = [entry EXCEPT !.disabled = @ \ {c}]
  /\ stopped' = stopped \ {c}
  /\ UNCHANGED <<session, box, providers, shield, removed, gone, mislaid, strayed>>

(* The user pairs a QR channel from inside the sandbox.                    *)
Pair(c) ==
  /\ Idle /\ Live /\ Present /\ c \in (QrCh \cap box.active \cap entry.channels) \ box.data
  /\ box' = [box EXCEPT !.data = @ \cup {c}]
  /\ UNCHANGED <<entry, session, providers, shield, cmd, history, lbudgets>>

-----------------------------------------------------------------------------
(* rebuild.                                                                *)

Rebuild ==
  /\ Present /\ Live
  /\ Begin([NoCmd EXCEPT !.op = "rebuild", !.pc = "open", !.sb = entry])
  /\ UNCHANGED <<work, history>>

(* openRebuildShieldsWindow.                                               *)
OpenWindow ==
  /\ At("open")
  /\ IF shield.mode # "up"
       THEN Goto("backup") /\ UNCHANGED <<box, shield>>
       ELSE \/ /\ shield' = [mode |-> "down", snap |-> box.live]
               /\ box' = [box EXCEPT !.live = {}, !.locked = FALSE]
               /\ Step([cmd EXCEPT !.pc = "backup", !.was = TRUE])
            \/ FailEnd /\ UNCHANGED <<box, shield>>
  /\ Keep /\ UNCHANGED <<entry, session, providers>>

(* Mutant: a backup that fails ends the rebuild at once.                   *)
BackupOrEnd ==
  /\ At("backup")
  /\ \/ Step([cmd EXCEPT !.pc = "delete", !.data = box.data, !.saved = entry.policies])
     \/ FailEnd
  /\ Keep /\ UNCHANGED work

(* A backup that fails altogether ends the rebuild; one that fails in part *)
(* does not.                                                               *)
Backup ==
  /\ At("backup")
  /\ LET saved == [cmd EXCEPT !.pc = "delete", !.data = box.data,
                              !.saved = entry.policies]
     IN  \/ Step(saved)
         \/ \E d \in SUBSET box.data : FailTo([saved EXCEPT !.data = d])
         \/ FailTo([cmd EXCEPT !.pc = "relock"])
  /\ Keep /\ UNCHANGED work

DeleteSandbox ==
  /\ At("delete")
  /\ \/ box' = NoBox
        /\ Goto(IF For("destroy") THEN "services" ELSE "unregister")
     \/ FailTo(IF For("destroy") THEN NoCmd ELSE [cmd EXCEPT !.pc = "relock"])
        /\ UNCHANGED box
  /\ Keep /\ UNCHANGED <<entry, session, providers, shield>>

UnregisterSandbox ==
  /\ At("unregister")
  /\ entry' = NoEntry /\ Goto("stash")
  /\ Keep /\ UNCHANGED <<session, box, providers, shield>>

(* Mutant: the session of this sandbox goes before its entry.              *)
RecordedBySession == IF session.own THEN session.channels ELSE cmd.sb.channels

(* The channels of the entry, else those of a session of this sandbox.     *)
Recorded == IF cmd.sb.listed THEN cmd.sb.channels
            ELSE IF session.own THEN session.channels ELSE {}

(* Mutant: the stopped channels are not stashed.                           *)
StashChannelsOnly ==
  /\ At("stash")
  /\ session' = [session EXCEPT !.own = TRUE, !.open = TRUE, !.channels = Recorded]
  /\ Step([cmd EXCEPT !.pc = "create", !.inner = TRUE])
  /\ Keep /\ UNCHANGED <<entry, box, providers, shield>>

(* What the entry said of channels goes into the session; its presets stay *)
(* those of whatever the session was about.                                *)
StashInSession ==
  /\ At("stash")
  /\ session' = [session EXCEPT !.own = TRUE, !.open = TRUE,
                                !.channels = Recorded,
                                !.disabled = cmd.sb.disabled, !.mirrored = TRUE]
  /\ Step([cmd EXCEPT !.pc = "create", !.inner = TRUE])
  /\ Keep /\ UNCHANGED <<entry, box, providers, shield>>

RebuildFails == At("unmade") /\ End /\ Keep /\ UNCHANGED work

-----------------------------------------------------------------------------
(* onboard(), resumed: createSandbox and the policies step.                *)

Resume ==
  /\ Pending
  /\ (~Live \/ (Present /\ session.confirmed))
  /\ Begin([NoCmd EXCEPT !.op = "resume", !.inner = TRUE,
                         !.pc = IF Live THEN "select" ELSE "create"])
  /\ UNCHANGED <<work, history>>

(* resolveDisabledChannels: the mirror in the session goes before the      *)
(* registry.                                                               *)
Paused == IF session.mirrored THEN session.disabled ELSE Disabled

CreateSandbox ==
  /\ At("create")
  /\ entry' = NoEntry      \* what is left of it is pruned, or was removed
  /\ session' = [session EXCEPT !.confirmed = FALSE]
  /\ \/ /\ box' = Fresh(ActiveOf(session.channels, Paused))
        /\ Step([cmd EXCEPT !.pc = "register", !.off = Paused])
     \/ FailTo(Unrecreated) /\ UNCHANGED box
  /\ gone' = FALSE
  /\ UNCHANGED <<providers, shield, stopped, removed, mislaid, strayed>>

RegisterSandbox ==
  /\ At("register")
  /\ entry' = Registered(box.active, session.channels, cmd.off)
  /\ session' = [session EXCEPT !.confirmed = TRUE] /\ Goto("select")
  /\ Keep /\ UNCHANGED <<box, providers, shield>>

SelectPresets ==
  /\ At("select") /\ Present
  /\ session' = [session EXCEPT !.presets = Selection]
  /\ Step(IF AlreadyApplied THEN [cmd EXCEPT !.pc = "work"]
          ELSE [cmd EXCEPT !.pc = "work", !.del = Applied \ Selection,
                           !.add = Selection \ Applied])
  /\ Keep /\ UNCHANGED <<entry, box, providers, shield>>

(* syncPresetSelection removes one preset after another and adds the rest  *)
(* in one `policy set'; the rebuild's own loop adds them one by one.       *)
NextPreset ==
  /\ At("work")
  /\ \/ \E q \in cmd.del : Step([cmd EXCEPT !.pc = "narrow", !.p = {q}])
     \/ /\ cmd.del = {} /\ cmd.add # {} /\ cmd.inner
        /\ Step([cmd EXCEPT !.pc = "apply", !.p = cmd.add])
     \/ \E q \in cmd.add : /\ ~cmd.inner
                           /\ Step(IF q \in Builtin
                                     THEN [cmd EXCEPT !.pc = "apply", !.p = {q}]
                                     ELSE [cmd EXCEPT !.add = @ \ {q}, !.lost = TRUE])
  /\ Keep /\ UNCHANGED work

PresetsDone ==
  /\ At("work") /\ cmd.add = {} /\ cmd.del = {}
  /\ IF cmd.inner
       THEN /\ session' = [session EXCEPT !.open = FALSE]
            /\ IF For("resume") THEN End
               ELSE Step([cmd EXCEPT !.pc = "preserve", !.inner = FALSE])
       ELSE Goto("relock") /\ UNCHANGED session
  /\ Keep /\ UNCHANGED <<entry, box, providers, shield>>

-----------------------------------------------------------------------------
(* The rest of the rebuild.                                                *)

PreserveFields ==
  /\ At("preserve") /\ Present
  /\ entry' = [entry EXCEPT !.channels = session.channels, !.disabled = cmd.sb.disabled]
  /\ Goto("restore")
  /\ Keep /\ UNCHANGED <<session, box, providers, shield>>

(* Mutant: the saved presets are not applied again.                        *)
RestoreStateOnly ==
  /\ At("restore")
  /\ box' = [box EXCEPT !.data = cmd.data] /\ Goto("work")
  /\ Keep /\ UNCHANGED <<entry, session, providers, shield>>

RestoreState ==
  /\ At("restore")
  /\ LET next == [cmd EXCEPT !.pc = "work", !.add = Prune(cmd.saved, cmd.sb.disabled)]
     IN  \/ box' = [box EXCEPT !.data = cmd.data] /\ Step(next)
         \/ \E d \in SUBSET cmd.data :
              box' = [box EXCEPT !.data = d] /\ FailTo(next)
  /\ Keep /\ UNCHANGED <<entry, session, providers, shield>>

(* relockRebuildShieldsWindow: shields up puts the policy of the snapshot  *)
(* in force.                                                               *)
LockUp == /\ box' = [box EXCEPT !.locked = TRUE,
                                !.live = IF shield.mode = "down" THEN shield.snap ELSE @]
          /\ shield' = [mode |-> "up", snap |-> {}]

Relock ==
  /\ At("relock")
  /\ IF cmd.was
       THEN \/ LockUp /\ End
            \/ FailTo([cmd EXCEPT !.pc = "unmade", !.told = TRUE])
               /\ UNCHANGED <<box, shield>>
       ELSE End /\ UNCHANGED <<box, shield>>
  /\ Keep /\ UNCHANGED <<entry, session, providers>>

-----------------------------------------------------------------------------
(* destroy.                                                                *)

Destroy ==
  /\ Present \/ Live
  /\ Begin([NoCmd EXCEPT !.op = "destroy", !.pc = "delete"])
  /\ UNCHANGED <<work, history>>

(* cleanupSandboxServices deletes the providers as far as it can; the      *)
(* files of shields go before the entry.                                   *)
CleanServices ==
  /\ At("services")
  /\ \/ providers' = {} /\ Goto("artifacts")
     \/ FailTo([cmd EXCEPT !.pc = "artifacts", !.told = TRUE]) /\ UNCHANGED providers
  /\ Keep /\ UNCHANGED <<entry, session, box, shield>>

(* Mutant: the shields state survives the sandbox.                         *)
CleanShieldsNot ==
  At("artifacts") /\ Goto("unlist") /\ Keep /\ UNCHANGED work

CleanShields ==
  /\ At("artifacts")
  /\ \/ shield' = [mode |-> "none", snap |-> {}] /\ Goto("unlist")
     \/ FailTo([cmd EXCEPT !.pc = "unlist", !.told = TRUE]) /\ UNCHANGED shield
  /\ Keep /\ UNCHANGED <<entry, session, box, providers>>

UnlistSandbox ==
  /\ At("unlist")
  /\ entry' = NoEntry /\ Goto("detachSession")
  /\ Keep /\ UNCHANGED <<session, box, providers, shield>>

DetachSession ==
  /\ At("detachSession")
  /\ session' = [session EXCEPT !.own = FALSE] /\ End
  /\ gone' = ~cmd.told /\ stopped' = {} /\ removed' = {}
  /\ UNCHANGED <<entry, box, providers, shield, mislaid, strayed>>

-----------------------------------------------------------------------------
(* Around them: shields by hand, recovery, other onboardings, a crash.     *)

ShieldsUp ==
  /\ Present /\ Live /\ shield.mode # "up"
  /\ Begin(NoCmd) /\ LockUp /\ strayed' = TRUE
  /\ UNCHANGED <<entry, session, providers, stopped, removed, gone, mislaid>>

ShieldsDown ==
  /\ Present /\ Live /\ shield.mode = "up"
  /\ Begin(NoCmd) /\ strayed' = TRUE
  /\ shield' = [mode |-> "down", snap |-> box.live]
  /\ box' = [box EXCEPT !.live = {}, !.locked = FALSE]
  /\ UNCHANGED <<entry, session, providers, stopped, removed, gone, mislaid>>

(* recoverRegistryEntries, when a command finds no entry: from a session   *)
(* whose sandbox step is complete, else from the gateway's list.           *)
Recover ==
  /\ ~Present /\ (Live \/ (session.own /\ session.confirmed))
  /\ Begin(NoCmd) /\ strayed' = TRUE /\ mislaid' = TRUE /\ gone' = FALSE
  /\ entry' = [NoConfig EXCEPT !.policies =
                 IF session.own /\ session.confirmed THEN session.presets ELSE {}]
  /\ UNCHANGED <<session, box, providers, shield, stopped, removed>>

(* The same, run for another name: it writes over the entry of the         *)
(* session's sandbox.                                                      *)
RecoverOther ==
  /\ Present /\ Live /\ session.own /\ session.confirmed
  /\ Begin(NoCmd) /\ strayed' = TRUE
  /\ entry' = [entry EXCEPT !.policies = session.presets]
  /\ UNCHANGED <<session, box, providers, shield, stopped, removed, gone, mislaid>>

(* A new onboarding of this name, when there is no sandbox.                *)
Onboarded(channels, presets) ==
  [own |-> TRUE, open |-> FALSE, confirmed |-> TRUE, disabled |-> {}, mirrored |-> FALSE,
   presets |-> presets \cup Required(channels), channels |-> channels]

OnboardedEntry(channels, presets, disabled) ==
  [policies |-> presets \cup Required(channels), custom |-> {}, listed |-> TRUE,
   channels |-> channels, disabled |-> disabled]
OnboardedBox(channels, presets, disabled) ==
  [active |-> channels \ disabled, data |-> {}, locked |-> FALSE,
   live |-> presets \cup Required(channels)]

Onboard(channels, presets) ==
  /\ ~Live
  /\ Begin(NoCmd)
  /\ session' = Onboarded(channels, presets)
  /\ entry' = OnboardedEntry(channels, presets, Disabled)
  /\ providers' = providers \cup (channels \cap TokenCh)
  /\ box' = OnboardedBox(channels, presets, Disabled)
  /\ removed' = removed \ channels /\ gone' = FALSE
  /\ stopped' = stopped \cap Disabled     \* without an entry it starts afresh
  /\ UNCHANGED <<shield, mislaid, strayed>>

(* Another sandbox is onboarded: the session is about that one.            *)
OnboardOther(channels, presets) ==
  /\ Begin(NoCmd)
  /\ session' = [Onboarded(channels, presets) EXCEPT !.own = FALSE]
  /\ UNCHANGED <<entry, box, providers, shield, history>>

Die ==
  /\ ~Idle /\ deaths < MaxDeaths /\ deaths' = deaths + 1
  /\ cmd' = NoCmd /\ strayed' = TRUE /\ mislaid' = (mislaid \/ At("stash"))
  /\ UNCHANGED <<work, stopped, removed, gone, cmds, failures>>

-----------------------------------------------------------------------------
UserChoices == {{}, Channel}    \* the channels an onboarding is given

LifecycleInit ==
  /\ \E channels \in UserChoices :
       /\ session = Onboarded(channels, Extra)
       /\ entry = OnboardedEntry(channels, Extra, {})
       /\ box = OnboardedBox(channels, Extra, {})
       /\ providers = channels \cap TokenCh
  /\ shield = [mode |-> "none", snap |-> {}] /\ cmd = NoCmd
  /\ stopped = {} /\ removed = {} /\ gone = FALSE
  /\ mislaid = FALSE /\ strayed = FALSE
  /\ cmds = 0 /\ failures = 0 /\ deaths = 0

CommandStarts ==
  \/ \E p \in Preset : PolicyAdd(p) \/ PolicyRemove(p)
  \/ \E c \in Channel : ChannelAdd(c) \/ ChannelRemove(c)
                         \/ ChannelStop(c) \/ ChannelStart(c) \/ Pair(c)
  \/ Rebuild \/ Resume \/ Destroy \/ ShieldsUp \/ ShieldsDown
  \/ Recover \/ RecoverOther
  \/ \E channels \in UserChoices : Onboard(channels, Extra) \/ OnboardOther(channels, Extra)

CommandSteps ==
  \/ ApplyAtGateway \/ ApplyInRegistry \/ ApplyFails
  \/ NarrowAtGateway \/ NarrowInRegistry \/ NarrowFails \/ SyncSession
  \/ UpsertProvider \/ EnableInRegistry
  \/ ClearState \/ DetachProvider \/ DisableInRegistry
  \/ OpenWindow \/ Backup \/ DeleteSandbox \/ UnregisterSandbox \/ StashInSession
  \/ CreateSandbox \/ RegisterSandbox \/ SelectPresets \/ NextPreset \/ PresetsDone
  \/ PreserveFields \/ RestoreState \/ Relock \/ RebuildFails
  \/ CleanServices \/ CleanShields \/ UnlistSandbox \/ DetachSession

LifecycleNext == CommandStarts \/ CommandSteps \/ Die
LifecycleSpec == LifecycleInit /\ [][LifecycleNext]_lifecycleVars

-----------------------------------------------------------------------------
(* What a sandbox keeps.                                                   *)

Made == ~Live /\ box' # NoBox

(* A channel that was stopped or removed is not in the image of a sandbox  *)
(* made later, unless the entry that recorded it was lost to a command     *)
(* that died or to a recovery: "the stopped channel comes back live in the *)
(* rebuilt image" is what the session mirror of rebuild.ts is there to     *)
(* prevent.                                                                *)
UnwantedIsNotBuilt ==
  [][Made /\ ~mislaid => box'.active \cap (stopped' \cup removed') = {}]_lifecycleVars

(* Between commands a channel that was removed is gone from the entry and  *)
(* the providers, and its pairing is in no sandbox (policy-channel.ts:     *)
(* "Wipe the durable per-channel state before rebuild so the state_dirs    *)
(* backup does not restore an auth blob the operator just asked NemoClaw   *)
(* to forget").                                                            *)
RemovedStaysRemoved ==
  Idle /\ ~mislaid =>
    /\ removed \cap (providers \cup (IF Present THEN entry.channels ELSE {})) = {}
    /\ Live => removed \cap box.data = {}

(* A rebuild of a locked sandbox leaves it locked, or no sandbox, or has   *)
(* said that it must be locked by hand, wherever it ends but at a failed   *)
(* `policy set', whose process.exit skips the finally.                     *)
LockedRebuildRelocks ==
  [][ For("rebuild") /\ cmd.was /\ cmd' = NoCmd /\ deaths' = deaths /\ ~At("apply")
        => ~Live \/ box'.locked \/ cmd.told ]_lifecycleVars

(* A rebuild that finishes and has not said that one is lost keeps every   *)
(* built-in preset that was recorded, and every channel, started or not.   *)
RebuildKeepsConfiguration ==
  [][ For("rebuild") /\ At("relock") /\ ~cmd.lost /\ cmd.saved # {} /\ Present
        => /\ Prune(cmd.saved, cmd.sb.disabled) \subseteq entry.policies
           /\ cmd.sb.listed => entry.channels = cmd.sb.channels
           /\ entry.disabled = cmd.sb.disabled ]_lifecycleVars

(* Between commands the presets recorded are those in force, as long as    *)
(* no command died and shields and recovery were not used.                 *)
RecordedIsLive ==
  Idle /\ Live /\ Present /\ ~strayed => Applied = box.live

(* After a destroy in which nothing failed no trace of the sandbox is left *)
(* that a later one of its name, or a recovery, would take up: the comment *)
(* of removeShieldsState names the case of the shields state.              *)
DestroyedLeavesNothing ==
  gone => /\ ~Live /\ ~Present /\ ~session.own
          /\ providers = {} /\ shield.mode = "none"

(* policy-add leaves what is in force in force: "Existing presets and the  *)
(* baseline remain in place" (customize-network-policy.mdx).               *)
AddKeepsPolicy ==
  [][At("apply") /\ cmd'.pc = "record" => box.live \subseteq box'.live]_lifecycleVars

=============================================================================
