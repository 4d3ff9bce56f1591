# Verification of NemoClaw's state protocols

NemoClaw is a host-side CLI (TypeScript, `src/lib`) that sets up and operates
sandboxed agents through OpenShell. The sandbox itself, its network policy and
the inference gateway belong to OpenShell; what NemoClaw adds is state: JSON
files, lock files, pid files and detached processes under `~/.nemoclaw`, and
commands that have to keep them in step with the live system although several
commands run at once, calls fail and processes are killed. This directory
models that part in TLA+, checks it with TLC and proves part of it with TLAPS.

Paths below are relative to the root of the repository.

## 1. The system

### 1.1 Components

| component | state it keeps | operations | where |
|---|---|---|---|
| Shields | `shields-<name>.json`, `policy-snapshot-<ts>.yaml`, `shields-timer-<name>.json`, live policy and config permissions in the sandbox | `shields down`, `up`, `status`, the detached auto-restore timer, the rebuild window | `src/lib/shields/`, `src/lib/actions/sandbox/rebuild-shields.ts` |
| Sandbox registry | `sandboxes.json`, the lock directory `sandboxes.json.lock` | register, update, remove, set default, clear, all under `withLock` | `src/lib/state/registry.ts`, `config-io.ts` |
| Onboarding lock | `onboard.lock` | acquire, stale detection, release by descriptor or by path | `src/lib/state/onboard-session.ts` |
| Onboarding session and machine | `onboard-session.json`; gateway, inference route, sandbox, registry entry | start, resume, refuse, the seven step handlers, the exit handler | `src/lib/onboard.ts`, `src/lib/onboard/` |
| Making of a sandbox | the sandbox at the gateway, its Docker containers, the backup of the old one, the registry entry | reuse, recreate, the create stream, the GPU patch, register, restore | `createSandbox` of `onboard.ts`, `sandbox/create-stream.ts`, `onboard/docker-gpu-patch.ts` |
| Workflows | registry entry, session, sandbox, providers, shields state | rebuild, destroy | `src/lib/actions/sandbox/rebuild.ts`, `destroy.ts` |
| Snapshots | backup directories with a manifest; the files and presets of a sandbox | create, list, restore, clone | `src/lib/actions/sandbox/snapshot.ts`, `src/lib/state/sandbox.ts` |
| Policy presets, messaging channels | registry fields, the session, the live policy, providers, pairing data | apply, remove, channel add, remove, stop and start | `src/lib/policy/`, `policy-channel.ts` |
| Registry recovery | registry entries rebuilt from the session or the gateway's list | check, then register or update | `registry-recovery-action.ts` |
| Gateway state | the detached gateway process, `openshell-gateway.pid` and its runtime marker; openshell's registration and selection of a gateway | look up and reconcile (`connect`, `status`), recover, preflight and gateway step of `onboard`: judge, reuse, start, stop, register | `onboard.ts`, `gateway-state.ts`, `gateway-runtime-action.ts`, `state/gateway.ts`, `onboard/gateway-reuse.ts` |
| Process recovery | none of its own: classification of output, retries | restart of processes and forwards | `process-recovery.ts`, `runtime-recovery.ts` |
| Inference routing | token and pid files of the Ollama auth proxy and the Bedrock adapter, pid and credential hash of the model router in the session; provider and route at the gateway; the provider of an entry | select, set up, ensure, restart, repair | `setupNim`, `setupInference` of `onboard.ts`, `src/lib/inference/`, `onboard/model-router*.ts`, `actions/sandbox/connect.ts` |
| Credentials | gateway providers, a legacy plaintext file | migration | `src/lib/credentials/` |
| Tunnel services, dashboard, deploy, diagnostics, CLI framework | little or none | command wrappers | `src/lib/tunnel/`, `dashboard/`, `deploy/`, `cli/` |
| OpenClaw plugin, Hermes tool gateway broker | blueprint state; tokens | inside the sandbox; an HTTP broker | `nemoclaw/`, `agents/hermes/host/` |
| Zig core | supervisor, egress checks | not called by the shipped CLI | `src/supervisor/`, `src/policy/` |

### 1.2 How they interact

There is no server: every command is a process of its own, and components meet
in files and in the live system.

- `onboard` takes the onboarding lock, keeps its progress in the session,
  creates the gateway, route and sandbox and writes the sandbox's registry
  entry, each time in a separate operation under the registry lock.
- `shields down` relaxes policy and config, then starts a detached timer that
  acts alone later; a marker file tells commands and timer about each other.
- `rebuild` opens a shields window, deletes and recreates the sandbox through
  `onboard`, and closes the window.
- Policy, channel and recovery commands read a registry entry outside the lock
  and write it back inside. What the user configured lives in five places
  (entry, session, sandbox and policy, providers, shields state) that one
  command after another has to keep in step.
- A recreation runs three actors at once: `createSandbox` with its poll, the
  `openshell sandbox create` child, and the gateway that reports the sandbox.
- Snapshot commands run side by side with each other and with the agent.
- One helper process and one inference route at the gateway serve all
  sandboxes; every `onboard` and `connect` sets them to what its sandbox needs,
  and `destroy` stops the proxy.
- One gateway process serves all sandboxes too. `connect` and `status` restart
  it when they cannot reach it, beside an `onboard` that may be replacing it,
  and anybody may select another gateway with `openshell`.

### 1.3 What is hard in it

- *Interleaving*: any two commands, and a command and a timer, step by step.
- *Crash and resume*: every protocol is a sequence of file operations and a
  process may be killed between any two; onboarding promises to be resumable.
- *Stale locks and pids*: locks and markers outlive their processes, and pids
  and inode numbers are given out again.
- *Partial failure and rollback*: external calls fail half way, the rollback
  of a failed `shields down` may fail itself.
- *Shared daemons*: a detached helper is known by a pid file, a port and a
  key; any of the three may by now belong to someone else.
- *Liveness*: an unlocked sandbox has to be locked again, a stale lock removed.

`PROJECT.json` lists the main hazards one by one, at their lines, with the
properties that would catch each or the reason why none does yet.

### 1.4 What makes each component correct

- Shields: lockdown is claimed only where it is real; an unlocked window is
  armed and closes; only the timer the marker names may act; no path back to
  lockdown leads to a permissive policy; no unrelated process is signalled.
- Registry: operations are atomic, and none is lost but to an operation that
  could not read the file; a stale lock is removed; commands end; the default
  sandbox is a registered one.
- Onboarding lock: one run at a time; a dead run never blocks the next.
- Making of a sandbox: the user's files are in the sandbox or in a backup at
  every moment; only a sandbox that is there is registered; a container is left
  to run or to look at whatever the patch does; the stream ends.
- Rebuild and destroy: a locked sandbox is locked again or the user is told;
  presets, channels and stopped channels survive a rebuild; nothing survives a
  destroy that a later sandbox of the name would take up.
- Channels and presets: what is recorded is in force; a removed or stopped
  channel does not come back in a later image.
- Snapshots: a restore that succeeds gives the files, state and presets of the
  snapshot, without its credentials; names are unique and versions stay.
- Inference: the key the gateway presents is the one the helper takes, and the
  one on disk, from which alone a dead helper is restarted; no process is
  killed that only has a helper's old pid.
- Gateway: only a sandbox that our gateway no longer has loses its entry; a
  start that succeeds leaves a current gateway on the port; a recorded pid is
  signalled only while it is a gateway's.
- Onboarding: a session is recorded complete only over a system that is what
  the session says; the registry entry describes the live sandbox; a changed
  selection recreates the sandbox.

## 2. Modules

| module | role |
|---|---|
| `Lockdown` | what the shields promise an operator (abstract) |
| `Shields` | shields commands, timer, crash and reboot; refines `Lockdown` |
| `ShieldsProofs` | theorems about `Shields`, the refinement among them |
| `Registry` | what the registry promises: atomic operations (abstract) |
| `RegistryLock` | the lock protocol and the load and save under it; refines `Registry` |
| `RegistryLockProofs` | theorems about `RegistryLock` and `Registry`, the refinement among them |
| `OnboardLock`, `OnboardLockProofs` | the onboarding lock and theorems about it |
| `Onboard`, `OnboardProofs` | the onboarding run and theorems about it |
| `Lifecycle`, `LifecycleProofs` | the commands on a sandbox after it was onboarded, and theorems about them |
| `Create` | the making of a sandbox |
| `Snapshot` | snapshot commands, concurrent |
| `SandboxProofs` | theorems about `Create` and `Snapshot` |
| `Inference`, `InferenceProofs` | selection, setup and repair of the inference route, the helper process; theorems about it and about `MCHost` |
| `Gateway`, `GatewayProofs` | the gateway process: found, judged, started, stopped and trusted; theorems about it and about `MCOnboard` |
| `MCShields`, `MCRegistryLock`, `MCOnboardLock` | symmetry sets for TLC; each run has a `.cfg` |
| `MCOnboard` | `Onboard` and `Gateway` checked side by side |
| `MCHost` | `Lifecycle`, `Create`, `Snapshot` and `Inference` checked for safety side by side |
| `MCHostLive` | the liveness of `Create` and `Shields` side by side |

Definitions keep the names of the functions they translate where that reads
well; `map` in `PROJECT.json` gives the lines of every definition.
Definitions commented `Mutant` are broken variants of the definition that
follows them. No specification uses them: they record that the property they
are listed with can fail.

### 2.1 Shields

One sandbox. A command process is a record with a program counter; *a step is
one file operation or one openshell or kubectl call*, so anything may come
between two of them.

| variable | in the code |
|---|---|
| `file` | `shields-<name>.json`: absent, readable or torn; `shieldsDown`; snapshot path |
| `policy`, `cfg` | the live network policy; owner, mode and immutability of the config tree (`mutable`, `locked`, or `mixed` after a partial failure) |
| `content` | what each `policy-snapshot-<ts>.yaml` holds |
| `marker` | `shields-timer-<name>.json`: pid, token, snapshot |
| `timer`, `others`, `due` | the timer processes by token, pids of unrelated processes, timers whose `restoreAt` has passed |
| `cli` | program counter and locals of each command |
| `faults`, `crashes` | calls that have failed, kills and reboots so far |
| `unrecorded` | history: a `shields down` has ended with the sandbox relaxed and no record that says so |

Actions: `Down*` and `Rollback*` are `shieldsDown` and `rollbackShieldsDown`,
`Up*` `shieldsUp`, `Status*` `shieldsStatus` with
`recoverExpiredAutoRestoreIfNeeded`, `Timer*` `timer.ts`; `StartRebuild` and
`CloseWindow` the rebuild window. `CliCrash`, `TimerCrash`, `Reboot`,
`PidReuse`, `PidRelease`, `LoseSnapshot` and `Expire` are the environment.

Any of these calls may fail, saves of the state file included. A `policy set`
that fails has left the policy as it was, or has reached the gateway and only
its answer was lost; `shields down` rolls back an unlock that failed, but not
a policy set (`index.ts:936`). A save that fails may tear the file; `shields
down` writes its record after the relaxation and outside of every `try`
(`index.ts:965`), so that a failure there leaves the sandbox open without a
record. `unrecorded` is set by these two.

Abstractions. Time is the set `due`. Tokens and snapshot names are fresh.
Locking and unlocking are idempotent and, when they fail, leave any of the
mixtures a prefix can leave.
`killTimer`'s verification and its signal are one step, so are the read, merge
and write of a save (what is merged is replaced by the patch, but for the
snapshot path) and the timer's last comparison with the marker and its unlink.
An openshell child that finishes after its parent was killed, the audit log
and custom policy files are left out.

`Lockdown` is the promise, without processes, markers or snapshots: what the
record says (`said`), policy and config, whether somebody will close the
sandbox (`watched`), what is under way (`at`: at rest, opening or closing) and
the failing calls so far (`harm`). A sandbox is opened only if the record does
not say that it is open; only opening relaxes policy or config, and a closing
that gives up has relaxed neither; "locked" is recorded only when both are
locked. `Promise` says of a sandbox at rest that the policy is restrictive
unless the record says "open", that the config is locked if it says "locked",
and that somebody watches it if it says "open" and no call has failed. It
covers one failing call, but neither a killed process nor an opening that ends
without its record; past that (`Lose`) anything may happen. The last of these
needs no more than one failing call: what follows from it is `ShieldsRelapse`. `ImplementsLockdown` is `Lockdown!Spec` under

| `Lockdown` | in `Shields` |
|---|---|
| `said` | `FileDown`: `shieldsDown` as `loadShieldsState` reads it |
| `policy`, `cfg` | the same |
| `at` | `AtWork`: opening from the policy set of `shields down` to its save; closing in a rollback, in `shields up`, in the recovery of `shields status`, and while a timer restores |
| `watched` | `Watched`: a command about to fork the timer or to write its marker, or a rebuild that has the sandbox open; a timer the marker names; or a marker whose timer is dead, from which the next `shields status` recovers; the last two with a restrictive snapshot to restore |
| `harm` | `Harm`: `faults`, or 2 after a kill, a reboot or an `unrecorded` opening |

### 2.2 Registry and RegistryLock

`Registry` is the promise: `registry` holds an entry per name and the default;
`Apply(op)` is one whole operation on what the last one saved. `readConfigFile`
takes a file it cannot read for an empty one, unless it lacks the permission,
and the operation saves what that makes: `Afresh(op)`, or `GiveUp` when it
saves nothing. `blind` says that such an operation is under way, `failures`
counts the calls that failed, without which nobody goes blind (`Fails`).
`RegistryLock` is `acquireLock`,
`releaseLock`, `withLock` in single file operations: `Mkdir`, `WriteTmp`,
`Rename`, the cleanup of a failed owner write (`FixTmp`, `FixOwner`, `FixDir`),
and what a waiter does: `Read` the owner, `Probe` its pid, `Recheck`, `Stat`,
and `ReapClear` and `ReapDir`, the two halves of `rmSync`; then `Load`, `Save`,
and the release. `Tick` is `LOCK_RETRY_MS`: waiters sleep until the next tick
and the directory's age is counted in ticks. `AtomicOperations` is
`Registry!Spec` under the mapping that takes `file` for `registry`, `faults`
for `failures`, and for `blind` that some process is about to save what it made
of another registry than the one in the file (`Blind`).

Abstractions. The fields of an entry are one value; which operation is made is
chosen when the file is loaded (`clearAll` does not load it, and what a load
gives it makes no difference). A read of the owner file that fails although it
is there, and an unlink at the release that fails, are left out. A pid is not given out again while a lock or a
waiter names it (that it may be is listed as a hazard).

### 2.3 OnboardLock

`onboard.lock` as inode (`path`), content (`text`) and age (`old`: older than
`MALFORMED_STALE_SECONDS`). `Open` to `Unlink` are `acquireOnboardLock` and
`unlinkIfInodeMatches`, `Release*` the release through the open descriptor,
`Fallback*` the release by path that `rebuild` reaches. A process that ends
frees its pid; `life` counts the processes that have had a pid and stands for
the start time of `lockHolderStillMatches`. `moved` and `fooled` are history: who
has looked at a file that is no longer the one at the path, and whether a file
was unlinked that was not the one looked at, because it had been given the same
inode number or came between the stat and the unlink of
`unlinkIfInodeMatches`. `ReuseInode` says whether the file
system gives the number of an unlinked file to the next one, `ProcFs` whether
start times can be read. The one second of slack in comparing start times is
left out.

### 2.4 Onboard

One sandbox name and one run at a time (which is `OnboardLock`'s business).
*A step is one write of the session or the registry or one change of gateway,
route or sandbox*, so a run may stop between any two and be resumed.

| variable | in the code |
|---|---|
| `sess` | `onboard-session.json`: status, resumable, machine state, agent, selection, presets, status of each step, `lastStepStarted` |
| `gateway`, `route` | the named gateway and the provider of its inference route |
| `box` | the sandbox: provider and agent baked in, ready, `config.json`, live presets |
| `reg` | its entry in `sandboxes.json` |
| `pc`, `run` | where the run is; locals of `onboard()` |

Actions follow the handlers in order: `Preflight*`, `Gateway*`, `Provider*`,
`Inference*`, `Sandbox*` with `createSandbox` (`Create*`, `Build`, `Register`),
`Setup*`, `Policies*`, `PostVerify`, `Complete`. `Exit` is `process.exit(1)`
with the exit handler, `Kill` a process that is killed, `Drift` what another
command or the host does to gateway, route or sandbox between runs.

Abstractions. Prompts, options and environment variables that may go either
way are nondeterministic choices. A provider stands for provider and model,
presets for whether the selected ones are there. Changed web search, GPU or
messaging settings are a choice to discard the recorded sandbox. The two
writes of `startRecordedStep` are one, since the second writes values already
recorded; the destruction of a gateway with its volumes and registry is one
step, and so is `repairRecordedSandbox`. An inference setup is always allowed
to be repeated, as Hermes and Bedrock do. Left out: the session a rebuild
prepares (that is in `Lifecycle`), `normalizeSession`'s repair of a damaged
file, two writers of the session at once, and credentials. What this module
does in `Create*`, `Build` and `Register` is the outline of `Create`.

### 2.5 Lifecycle

One sandbox, one command at a time, *a step being one write of entry or
session or one call of the gateway*; a command may fail at any external call
and die between any two steps, and the next command finds what it left.

| variable | in the code |
|---|---|
| `entry` | the sandbox's entry in `sandboxes.json`: presets, custom presets, channels, stopped channels |
| `session` | `onboard-session.json`: whose it is, whether it may be resumed, presets, channels and the mirror of the stopped channels |
| `box` | the sandbox: channels its image was built with, pairing data, presets in force, locked |
| `providers` | channels with a provider at the gateway |
| `shield` | shields state: mode and the snapshot of the policy |
| `cmd` | the command under way, with its locals |
| `stopped`, `removed`, `gone`, `mislaid`, `strayed` | history, for the properties |

Actions: `PolicyAdd`, `PolicyRemove` and the steps they share with every
command that touches presets (`ApplyAtGateway` to `SyncSession`);
`ChannelAdd`, `ChannelRemove`, `ChannelStop`, `ChannelStart`, `Pair` and their
steps; `Rebuild` with `OpenWindow`, `Backup`, `DeleteSandbox`,
`UnregisterSandbox`, `StashInSession`, the `onboard()` it calls (`Create*`,
`RegisterSandbox`, `SelectPresets`, `NextPreset`), `PreserveFields`,
`RestoreState`, `Relock`; `Destroy` with `CleanServices` to `DetachSession`;
`Resume`, `Recover`, `RecoverOther`, `Onboard`, `OnboardOther`, `ShieldsUp`,
`ShieldsDown` and `Die`.

Abstractions. A preset or a channel is a value of its class (channels with a
token, paired channels, channels whose preset comes with the sandbox, plain
presets, presets from a file); a policy is the set of presets in force. A
`policy set` is atomic. Of the three parts of a rebuild's shields window only
what it leaves is kept (the timer is in `Shields`). Onboarding afresh and
shields by hand are single steps.

### 2.6 Create

`createSandbox`, `streamSandboxCreate` and
`recreateOpenShellDockerSandboxWithGpu`, *a step being one openshell or docker
call or one event of the stream*. `gate` is the sandbox at the gateway (its
state, whether it holds the user's files, whether this onboarding made it),
`cont` its containers (the first one, whether it was renamed aside, the one
with a GPU), `listed` the entry, `backup` the backup on disk, `make`, `stream`
and `patch` the three activities of the process. `Child*` is the create
command, `Gateway*` the gateway, `Poll*` and `Close*` the handlers of the
stream, `InspectContainer` to `AwaitSupervisor` the patch, which runs inside
the poll; the rest is `createSandbox` in its order. The patch may be entered
from the poll, from the close handler or after the stream, and fails
differently in each (`PatchFails`).

Abstractions. Of a container only whether it runs, is stopped or broken
matters; the GPU modes that are tried in turn are one choice that Docker
accepts or not; the many checks of `VerifyGpu` are one. Options of the user
are chosen when an onboarding begins.

### 2.7 Snapshot

Several commands (`job`) over several sandboxes, each with one state directory
(a set of files) and one state file (the SQLite database), *a step being one
ssh command or one write of the host*. `snaps` is the sequence of backup
directories in the order of their timestamps, of which those with a manifest
are listed; a version is a position among them (`Version`), a name or a
timestamp is looked up as `findBackup` does (`Selections`). `BackupDirs`,
`BackupFile` and `WriteManifest` are `backupSandboxState`; `DeleteTarget`,
`CloneSource`, `CleanTarget`, `ExtractDir`, `RestoreFile` and `Reconcile`
`snapshot restore`. `Edit` is the agent and other commands.

`Credentials` are the files of a state directory that `sanitizeBackupDirectory`
takes out of a backup before the manifest is written, as far as it can; values
it strips from other files count as such files. A restore cleans the
directory first, so newer credentials go as well. The commands that put the
state file back are joined by `;`: a transfer that fails may leave an empty
file and be reported restored, which the history variable `cut` remembers.

Abstractions. Paths, symlinks and the audit of a tar file are one way to fail.
The OpenClaw extensions that NemoClaw manages, which a restore keeps, are left
out. `CloneSource` takes the create stream and the registration together.
Timestamps grow. The clone of a sandbox has neither files nor presets of its
own; image and provider settings that are copied into its entry are left out.

### 2.8 Inference

One onboarding at a time beside any number of `connect` and `destroy`
commands, all against one gateway and one helper, *a step being one call to
the gateway, one kill, spawn or probe of the helper, or one file written*. The
helper of a behaviour is the Ollama auth proxy, the Bedrock adapter or the
model router; the three differ in who makes the key, when it is saved, and
what is checked before a process is killed.

| variable | in the code |
|---|---|
| `saved`, `pidFile` | token file and pid file of the proxy or the adapter; for the router `routerCredentialHash` and `routerPid` of the session |
| `proc`, `taken` | what runs under a pid, with its key and whether it has its port; another service on that port |
| `gwKey`, `route` | the credential of the gateway's provider for the helper; the provider of the inference route |
| `providerOf` | `provider` of each sandbox's registry entry |
| `sess` | whether there is a session to resume, with the selection it recorded |
| `act` | the commands: program counter, the return of the step they share, the selection, the key and the child in memory |

Actions: `Select*` are the branches of the loop of `setupNim`, each to the
record of the selection or back to the menu; `AwaitProxy` the end of
`startOllamaAuthProxy`; `RecordSelection`, `ApplySelection` and
`FinishInference` `handleProviderInferenceState`; `SetupOther`, `CheckOllama`,
`ProxyHealthy`, `PersistToken`, `EnsureAdapter` to `KeepAdapterToken`,
`UpsertHelper`, `ApplyRoute` and `VerifyRoute` `setupInference`;
`ReconcileRouter` to `RecordRouter` the model router. `Ensure`, `KillStale`,
`SpawnHelper`, `PersistPid` and `EnsurePoll` are the restart that `onboard`
and `connect` share; `SwapRoute`, `RepairRoute`, `VerifyDependencies` and
`ResetRoute` are `connect`. `HelperBinds` is the daemon, which dies of a port
that is taken; `HelperDies`, `OtherStarts`, `PortTaken`, `Reboot` and
`CommandEnds` are the environment.

Two fields of a command are history: `calm` says that no other command has
touched helper or route since it began and no router was left from an earlier
run, `ready` that moreover it has seen the helper answer with its key.
`HelperServesGateway` speaks of `ready` commands: two commands that restart the
proxy against each other are a race the code does not exclude, and no claim
about it is made.

Abstractions. Models, endpoints and the way a choice is made are left out: a
provider either goes through the helper or is "other". What a failed call of
the gateway leaves is the state before it. `ensureOllamaAuthProxy` reads
`saved` once. A retry of a helper that does not come up is a new run.
`KillStale` looks at the pid and signals it in one step: what may get that pid
between the two is not in the model.

### 2.9 Gateway

The gateway of the Docker driver on Linux, with a current `openshell` that has
no lifecycle commands; several `connect` or `status` commands and one
`onboard` at a time, *a step being one call of openshell, one look at a
process or the port, one signal, or one file written*.

| variable | in the code |
|---|---|
| `gate` | what runs under each pid: a gateway that boots, is up or ends, another process, nothing |
| `old` | gateways with drift (`getDockerDriverGatewayRuntimeDrift`) |
| `pidFile` | `openshell-gateway.pid` |
| `meta`, `active` | openshell's metadata of the gateway "nemoclaw"; the gateway it has selected |
| `blind` | the port probe cannot name the process behind a port |
| `live`, `entry`, `named` | the sandbox at our gateway, in `sandboxes.json`, in the session |
| `cmd` | program counter of each command; the process it deals with; the verdict on the gateway; whether `OPENSHELL_GATEWAY` is set |
| `hist` | history: `still`, `alone` and `same`, for the properties |

Actions: `Lookup` to `ForgetName` are `ensureLiveSandboxOrExit` with the
reconciliation of a NotFound, `Before` to `Recovered` the recovery;
`LookAtPidFile` to `VerifyBridge` are `startDockerDriverGateway`, which
recovery and onboarding share; `Terminate`, `AwaitEnd` and `ClearStopped` the
stop; `Snapshot` to `CheckPort` the preflight, and `HandleGateway`, `Stop` and
`Unregister` the gateway step. `Settle` is a gateway that binds its port, dies
of one that is taken, or ends; `ProcessEvent`, `Upgrade`, `UserSelects`,
`SandboxDeleted`, `KillCommand` and `Reboot` are the environment.

`openshell status` may call our gateway connected or refused whenever it is
selected and registered, whatever runs: that is the very weakness the comments
of the code name (`gateway-tcp-readiness.ts:9`). A lookup is answered only by
a process that listens, and by another gateway with NotFound. `hist[a].still`
says that nobody else has changed the selection since the last lookup of `a`,
`alone` that its start began with no gateway booting or ending and nobody else
has acted since, `same` that the process it is about to signal is the one it
identified.

Abstractions. The runtime marker follows the pid file and is not read on
Linux. The removal of a registration and its second form are one step, and so
are the selection, the health check and the addition that make up
`registerDockerDriverGatewayEndpoint`. Other services on the gateway port,
wildcard binds, cluster containers with their volumes, and a change of GPU
intent are left out.

## 3. Runs

Two threads check every run in less than two and a half minutes. A bound is named in its
constant's comment; all are budgets of events, never of the code's own loops,
except that `MaxRetries` and `Stale` of the registry lock and `MaxAttempts` of
the onboarding lock stand for larger numbers in the code.

`MCHost`, `MCHostLive` and `MCOnboard` put components side by side in one run:
the variable `focus` says which of them moves in a behaviour, and the others
stand still in an initial state. No interaction is claimed between them, and
none is lost: what one component needs of another is in its own module
(`Lifecycle` has the part of `Create` and of the shields it composes). Each
behaviour of `MCHost` and `MCOnboard` is one of every component in it, which
`HostBySide` and `SideBySide` prove. `HostTypeOK` is the conjunction of the
type invariants of the four modules of `MCHost`, `SideTypeOK` of the two of
`MCOnboard`.

| run | instance | properties | what it shows |
|---|---|---|---|
| `ShieldsSafety` | 1 command process, 2 tokens, 2 pids, 3 snapshots, 1 failing call, 1 crash or reboot; 116 997 states | `TypeOK` `ImplementsLockdown` `SnapshotsRestrictive` `MarkerNamesItsTimer` `TimerAuthority` `KillSafety` | the shields keep the promise of `Lockdown`, so lockdown is claimed only where it is real and an open window is watched, but after an opening without a record; a timer acts only under its own marker; snapshots are restrictive; unrelated processes are spared |
| `RegistryMutex` | 3 processes, 2 names, 2 failing operations; 82 116 states | `MutualExclusion` `AtomicOperations` | the lock excludes and the protocol implements `Registry`: an operation loses others' updates only if its own read failed |
| `RegistryCrash` | 2 processes, 2 names, 4 retries, 1 kill, 1 failing operation; 128 249 states | `DefaultRegistered` `StaleLockCleared` `CommandsEnd` | a killed holder's lock goes away within the retries, and every command ends |
| `OnboardLock` | 3 pids of 2 lives, 3 inodes whose numbers are given again, 1 failing write, 1 kill; 887 114 states | `OneOnboarding` `LoneRunAcquires` | one run at a time, until a file is unlinked that was not the one judged; whatever is left on disk, an undisturbed run gets the lock |
| `Onboard`, onboarding | 2 providers, 2 agents, 3 runs, 2 stops, 1 drift, 1 repeated selection; 775 345 states | `SideTypeOK` `EntryDescribesSandbox` `DeliveredIsConfigured` | a session is recorded complete only over a system that is what it says; the entry never describes another sandbox |
| `Onboard`, gateway | 2 processes, 3 pids, 2 commands, 1 event of the environment; 526 335 states | `SideTypeOK` `RemovedWasGone` `StartDelivers` `StrangersAreSpared` | a live sandbox keeps its entry; what a start found or made is current and recorded; unrelated processes are spared |
| `Host`, lifecycle | 1 channel of each class, 2 presets, 4 commands, 1 failure, 1 death; 1.06 million states | `HostTypeOK` `RemovedStaysRemoved` `RecordedIsLive` `DestroyedLeavesNothing` `UnwantedIsNotBuilt` `LockedRebuildRelocks` `RebuildKeepsConfiguration` | configuration survives every command that must keep it, and nothing survives a destroy |
| `Host`, create | 2 onboardings, 2 failures or deaths; 53 000 states | `HostTypeOK` `FilesAreKept` `BackedUpIsRestored` `PatchLeavesOne` `RegisteredIsReal` | no recreation loses the files; what is registered is there |
| `Host`, snapshot | 2 sandboxes, 2 processes, 2 commands, 1 edit, 1 failure or death; 157 000 states | `HostTypeOK` `RestoredIsTruth` `NamesAreUnique` `PresetsFollow` `VersionsStay` | a restore gives what was backed up but for the credentials, whatever runs beside it |
| `Host`, inference | 1 sandbox, 1 connect, 2 keys, 2 pids, 2 commands, 1 event of the environment; 801 000 states | `HostTypeOK` `TokenIsGateways` `HelperServesGateway` `OthersAreSpared` | the gateway has the key on disk; what a command found ready serves the gateway; unrelated processes are spared |
| `HostLive` | window and recovery of the shields (1 process, 2 tokens; 1 crash in recovery), 1 onboarding with 2 failures; 72 426 states | `WindowCloses` `AbandonedWindowRecovered` `CreateSettles` | every window closes; the first status after `restoreAt` closes a window whose timer is dead, whoever has its pid; the create stream ends |
| `ShieldsRelapse` | 1 failing call | `ClaimedLockIsReal` violated | section 5 |
| `ShieldsRepeat` | 2 command processes | `RepeatedDownKeepsTimer` violated | section 5 |
| `RegistryTwoHolders` | 3 processes, 1 kill | `MutualExclusion` violated | section 5 |
| `OnboardDrift` | `Onboard` as above, without the gateway | `DriftRecreates` violated | section 5 |
| `LifecycleAdd` | 1 failing call | `AddKeepsPolicy` violated | section 5 |

### 3.1 Why the bounds are enough

- *Shields*: the hazards relate one launch to one later launch. Two tokens and
  two pids give an old timer and a new one, an old pid given to another
  process; three snapshots the one recorded, the one of the marker and a fresh
  one. One failure and one crash put a failure at every call and a kill
  between any two steps. `ShieldsRelapse` has the same failure and no crash:
  what it violates is the claim without the premise `~unrecorded`.
- *Registry*: three processes are a holder, a waiter and one who enters after
  a lock was broken. Two names let the default move. `Stale` is less than
  `MaxRetries`, as 100 ticks (`LOCK_STALE_MS`) is less than 120
  (`LOCK_MAX_RETRIES`); `StaleLockCleared` needs no more of them.
- *OnboardLock*: the dangerous pattern is a contender between a holder and its
  successor; three pids of two lives each give it, with a dead holder whose
  pid came back. The three inode numbers are given again as soon as a file is
  gone that nobody has open. Two attempts instead of five still retry once.
- *Onboard*: three runs allow a stop, a resume that is stopped in turn and a
  run that delivers, with one change of agent or provider in any of them and
  one drift before any of them. The search is exhausted (depth 90).

- *Lifecycle*: four commands give a configuring command, one that fails or
  dies, the one that is to recover from it, and the rebuild or destroy that
  shows the damage. The channels cover each class the code tells apart; the
  properties relate one channel or preset to its record, so a second of a
  class would repeat the first.
- *Create*: two onboardings are one that leaves something behind and the next
  one, which finds it; two failures are a failing call and a failing cleanup.
- *Snapshot*: two commands side by side, or one after the other; two sandboxes
  are a source and a destination.
- *Inference*: behaviours begin with nothing set up or with an earlier
  helper in use, so two commands are a first setup that stops and its resume,
  a setup over an old helper, or a setup beside a connect or a destroy. Two
  keys are the old and the new one, two pids a helper and its successor, or a
  helper and a program that got its pid. An entry only says which provider a
  connect wants, so one sandbox is enough; with two the properties hold as
  well (2.4 million states for `Inference` alone).

- *Gateway*: behaviours begin with any registration and selection, with or
  without a gateway that is current or outdated, so two commands are two
  recoveries at once, or a recovery beside an onboarding, or one after the
  other. Three pids are the gateway, its successor, and one for a second
  successor or another process. One event puts a crash, an upgrade, a
  selection by hand, a kill or a reboot between any two steps.

Deadlock is checked but in the runs of `OnboardLock`, `Onboard`, `Host`,
`HostLive` and `LifecycleAdd`, where all lives, runs or commands are used up
in the end and nothing remains to be done.

Symmetry is used for commands, tokens, pids, snapshots, names, inodes and
providers, which the code never orders (not in `OnboardDrift`), and in no run
with a liveness property.

### 3.2 Fairness

`Shields!FairSpec`: a command that was started runs on, a timer process is
scheduled, and a `restoreAt` passes; nothing makes an operator start a
command, no fault or crash must happen. `RegistryLock!FairSpec`: a process
that uses the lock runs on (each loop is a plain synchronous loop), and time
passes (strong fairness of `Tick`: a behaviour cannot fit endlessly many
operations between two ticks, although each of them may disable `Tick` under
`Prompt`). `MCHostLive!LiveSpec` has that of the shields, and of `Create`: the
child prints what it does, the gateway reports a sandbox it can reach, timers
of the poll and the close handler run when due, a patch under way goes on
(each docker call has a timeout), and a settled stream is judged. Nothing makes
the child end: the create stream has no timeout of its own, and
`CreateSettles` is about streams whose child made the sandbox. `OnboardLock`,
`Onboard`, `Gateway`, `Lifecycle`, `Snapshot` and `Inference` state safety only
and assume none.

### 3.3 Assumptions named in the constants

- `PromptMark` (`HostLive`): no `restoreAt` passes
  between the fork of the timer and the write of its marker. A window is at
  least a second long and the two are adjacent statements; without it the
  timer finds no marker and leaves. `ShieldsSafety` does not assume it.
- `Prompt` of the registry lock: no process is suspended for `LOCK_RETRY_MS`
  inside an operation on the lock. It may be inside the critical section.
- `Prompt` of the onboarding lock: none is suspended for 30 s inside an
  operation on the lock. It may hold the lock for any time.
- `~fooled`, in `OneOnboarding`: no file was unlinked that was not the one
  looked at. The run has file systems that give inode numbers again
  (`ReuseInode`, true of ext4 and xfs) and kills, either of which may lead
  there. Only the theorem `OnboardUnmistaken` assumes `~ReuseInode`: until a
  process is killed, exclusion then holds without the premise.
- `crashes = 0` and `~unrecorded` in `SnapshotsRestrictive` and, as `harm`, in
  the promise of `Lockdown`; `crashes = 0` in `ClaimedLockIsReal`, which its
  run refutes for the lack of the other.
  Without them the claims are false of this code (section 5).
- `MaxCrashes = 0` in the registry's mutual exclusion; `RegistryTwoHolders`
  shows what a kill costs it.
- `OneAtATime`, in the theorems on the shields' lockdown: commands on one
  sandbox take turns, as in `ShieldsSafety`, which has one command process.
  Nothing in the code enforces it; `ShieldsRepeat` and a hazard without a
  property (`shields/index.ts:1182`) are about what it costs. `faults <= 1` in
  them is the bound of `ShieldsSafety`: with two a rollback that fails as well
  leaves the same state. `Lockdown` has the same bound in `harm`.
- `RemovedWasGone` speaks of a removal with `still`, `StartDelivers` of a start
  that is `alone`, with a port probe that names processes (`~blind`) and no
  process left that was asked to end and still listens, `StrangersAreSpared` of
  a process that had its pid when it was looked at (`same`). Without each of
  them the claim is false of this code (section 5).

## 4. Proofs

TLAPS checks eight modules of proofs: the theorems hold for every value of the
constants, so for any number of processes, pids, names, retries, failures,
runs and kills, where the assumptions in the statement allow them.

| theorem | states | assumes |
|---|---|---|
| `ShieldsProofs!InductiveInvariant` | `Spec => []TimerIInv` | |
| `ShieldsProofs!TypeCorrect` | `Spec => []TypeOK` | |
| `ShieldsProofs!MarkerCorrect` | `Spec => []MarkerNamesItsTimer` | |
| `ShieldsProofs!KillCorrect` | `Spec => KillSafety` | |
| `ShieldsProofs!AuthorityKept` | `Spec => TimerAuthority` | `[]OneAtATime` |
| `ShieldsProofs!LockIsReal` | `Spec => [](faults <= 1 /\ ~unrecorded => ClaimedLockIsReal)` | `[]OneAtATime` |
| `ShieldsProofs!SnapshotsLockDown` | `Spec => [](faults <= 1 => SnapshotsRestrictive)` | `[]OneAtATime` |
| `ShieldsProofs!LockdownImplemented` | `Spec => ImplementsLockdown` | `[]OneAtATime` |
| `ShieldsProofs!LockdownAlone` | `Spec => ImplementsLockdown` | `Cli` has one command process |
| `ShieldsProofs!OpenIsWatched` | `Spec => [](Harm = 0 /\ Quiescent /\ FileDown = "yes" => Watched /\ LeadsBack(file.snap))` | `[]OneAtATime` |
| `RegistryLockProofs!LockInvariant` | `Spec => []LockIInv` | `Prompt`, `MaxCrashes = 0` |
| `RegistryLockProofs!LockExcludes` | `Spec => []MutualExclusion` | `Prompt`, `MaxCrashes = 0` |
| `RegistryLockProofs!LockImplementsRegistry` | `Spec => AtomicOperations` | `Prompt`, `MaxCrashes = 0` |
| `RegistryLockProofs!NoUpdateLost` | `Spec => [][SavesWhole]_file` | `Prompt`, `MaxCrashes = 0` |
| `RegistryLockProofs!DefaultCorrect` | `Spec => []DefaultRegistered` | |
| `OnboardLockProofs!OnboardTypeCorrect` | `Spec => []TypeOK` | |
| `OnboardLockProofs!OnboardInvariant` | `Spec => []OnboardIInv` | `Prompt` |
| `OnboardLockProofs!OnboardExcludes` | `Spec => []OneOnboarding` | `Prompt` |
| `OnboardLockProofs!OnboardUnmistaken` | `Spec => [](crashes = 0 =>` no two processes hold the lock`)` | `Prompt`, `~ReuseInode` |
| `OnboardLockProofs!LoneCorrect` | `Spec => []LoneRunAcquires` | `ProcFs`, `MaxAttempts > 1` |
| `OnboardProofs!EntryInvariant` | `Spec => []EntryIInv` | |
| `OnboardProofs!OnboardingTypeCorrect` | `Spec => []TypeOK` | |
| `OnboardProofs!EntryCorrect` | `Spec => []EntryDescribesSandbox` | |
| `OnboardProofs!DeliverCorrect` | `Spec => DeliveredIsConfigured` | |
| `LifecycleProofs!LifecycleInvariant` | `LifecycleSpec => []IInv` | |
| `LifecycleProofs!LifecycleTypeCorrect` | `LifecycleSpec => []LifecycleTypeOK` | |
| `LifecycleProofs!DestroyCorrect` | `LifecycleSpec => []DestroyedLeavesNothing` | |
| `LifecycleProofs!RelockCorrect` | `LifecycleSpec => LockedRebuildRelocks` | |
| `LifecycleProofs!ConfigurationInvariant` | `LifecycleSpec => []KeptIInv` | |
| `LifecycleProofs!RecordIsKept` | `LifecycleSpec => []RecordedIsLive` | |
| `LifecycleProofs!RemovedIsForgotten` | `LifecycleSpec => []RemovedStaysRemoved` | |
| `LifecycleProofs!UnwantedStaysOut` | `LifecycleSpec => UnwantedIsNotBuilt` | |
| `LifecycleProofs!RebuildKeeps` | `LifecycleSpec => RebuildKeepsConfiguration` | |
| `SandboxProofs!MakeInvariant` | `MakeSpec => []MakeIInv` | |
| `SandboxProofs!MakeTypeCorrect` | `MakeSpec => []MakeTypeOK` | |
| `SandboxProofs!FilesCorrect` | `MakeSpec => []FilesAreKept` | |
| `SandboxProofs!RegisterCorrect` | `MakeSpec => RegisteredIsReal` | |
| `SandboxProofs!BackupComesBack` | `MakeSpec => []BackedUpIsRestored` | |
| `SandboxProofs!PatchKeepsOne` | `MakeSpec => []PatchLeavesOne` | |
| `SandboxProofs!SnapTypeCorrect` | `SnapSpec => []SnapTypeOK` | |
| `SandboxProofs!RestoreIsTrue` | `SnapSpec => []RestoredIsTruth` | |
| `SandboxProofs!OneNameOneSnapshot` | `SnapSpec => []NamesAreUnique` | |
| `SandboxProofs!PresetsAreBack` | `SnapSpec => []PresetsFollow` | |
| `SandboxProofs!VersionsAreKept` | `SnapSpec => VersionsStay` | |
| `InferenceProofs!InferInvariant` | `InferSpec => []InferIInv` | |
| `InferenceProofs!TokenCorrect` | `InferSpec => []TokenIsGateways` | |
| `InferenceProofs!SpareCorrect` | `InferSpec => OthersAreSpared` | |
| `InferenceProofs!ServeCorrect` | `InferSpec => []HelperServesGateway` | |
| `InferenceProofs!HostBySide` | `HostSpec => LifecycleSpec /\ MakeSpec /\ SnapSpec /\ InferSpec` | |
| `InferenceProofs!HostCorrect` | `HostSpec =>` all that `Host` checks, `[]HostTypeOK` among it | |
| `GatewayProofs!GateTypeCorrect` | `GateSpec => []GateTypeOK` | |
| `GatewayProofs!DoubtHolds` | `GateSpec => []DoubtIInv` | |
| `GatewayProofs!GoneWhenRemoved` | `GateSpec => RemovedWasGone` | |
| `GatewayProofs!StartHolds` | `GateSpec => [](GateTypeOK /\ LoneListener /\ StartIInv)` | |
| `GatewayProofs!SuccessDelivers` | `GateSpec => StartDelivers` | |
| `GatewayProofs!OnlyGatewaysSignalled` | `GateSpec => StrangersAreSpared` | |
| `GatewayProofs!SideBySide` | `SideSpec => Spec /\ GateSpec` | |
| `GatewayProofs!SideCorrect` | `SideSpec =>` all that `Onboard` checks, `[]SideTypeOK` among it | |

Beyond these the modules assume only that sentinels are outside the sets they
stand beside and that bounds are natural numbers (the named `ASSUME`s).

*Shields.* `TypeOK` is not inductive: a command that forked a timer keeps its
token and pid in locals until it writes them to the marker. `LaunchHeld` says
that they are there, and still those of the live child, at every point between
fork and marker or rollback; `PidOwned` that a pid belongs to one process,
timer or unrelated. With both, the marker always names a live timer by its own
pid and snapshot (`MarkerNamesItsTimer`), and a verified pid is not an
unrelated process's, which is `KillSafety`. The lemmas are split by what a
step does to `timer`: most leave it alone (`TameUnchanged`), the rest only
move a live timer on or kill it.

The others are about commands that take turns, in any number of processes: two
that overlap may each see a closed window (`ShieldsRepeat`). Timers, crashes
and reboots still come between their steps. `ArmIInv` says that there is one
marker, that a timer at work has it and a recorded window (`WorkIsArmed`,
`ArmedNotUp`), and that past its own kill of the timer a command runs without
one (`ArmedPhases`); that is `TimerAuthority`. `LockIInv` says, without kills
with at most one failing call and no opening `unrecorded`, who may have the policy permissive or the
config unlocked while the file does not say so (`PolicyKept`, `ConfigKept`),
that no snapshot in use leads to the permissive policy (`Good`), and where a
command takes the live policy for the restrictive one (`Trusting`), it is. An
opening without a record costs it all: the next command takes the permissive
policy for the baseline, as `ShieldsRelapse` shows.

That `Shields` implements `Lockdown` has two parts. `LockIInv` gives the
promise but for the watch, which is `WatchIInv`: until a call fails or a process
is killed, an open sandbox is watched or somebody is at it (`OpenWatched`), and
what the record, the marker, a live timer or a restoring command would restore
is a restrictive snapshot that is there (`WatchFile`, `WatchTimer`,
`WatchCli`). No marker is lost on the way: a command between its kill of the
old timer and its own marker has none (`UnmarkedPc`), one that clears a marker
at its end has recorded the sandbox as locked, and a timer that wakes before
its marker is written leaves one that `shields status` recovers from
(`Launched`). The other part maps each step to `Lockdown`: one in which
nothing is under way changes none of `said`, `policy` and `cfg`; a step while
opening is `Open`, `Opened` or `Failed`; one while closing `Close` or `Closed`,
a rollback included; and the steps that harm are `Lose` where they go past the
promise (`HarmSteps`). What is under way at a step follows from the turns: a
command that opens or closes is the only one, and no timer is at work beside it
but one it is about to kill.

*RegistryLock.* Mutual exclusion alone says nothing of the directory. The
invariant ties the two: whoever is between mkdir and rmdir has the directory
(`HolderHasDir`), the directory has one holder (`DirHasHolder`, `OneHolder`),
an owner a waiter found dead is gone (`NobodyReaps`), and a directory without
an owner is less than a tick old (`YoungWithoutOwner`), so no waiter reaches
the removal. From `OneHolder` the file is unchanged between a process's load
and its save, so that what it holds at the save is the file or, after a read
that failed, the empty registry (`CopyFresh`): the save is `Apply` or `Afresh`,
a load whose read failed is `Fails`, and most else a stutter. `NoUpdateLost`
says the same without the mapping: a registry that replaces another is an
operation applied to that one, or a call has failed. `DefaultCorrect` needs none of it: every `copy` that is saved came
out of an operation of `Registry` on a good file, so it survives kills and
broken locks.

*OnboardLock.* Until a process is `fooled` (`Safe`), the file on disk is the one
its only creator has open (`OneOwner`, `OwnerOnDisk`), and a contender that
found it stale and still has it before him (one that is not in `moved`) has
before him a file that nobody has open (`LookedAt`), so that its unlink takes
nothing from anybody. A step that fools somebody ends all that and proves
nothing more. `Mistaken` says what it takes: inode numbers given again, or a
kill. While nobody is killed, nothing is ever stale (`Claimed`); and where
numbers are not given again a contender whose file has gone does not take
another for it (`Numbers`). From these two `OnboardUnmistaken` has the
exclusion without the history. `LoneRunAcquires` needs another
invariant, and not `Prompt`: a file that names a process with its present start is held open by
that process (`HolderKnown`), whatever was killed, so that a run which is on
its own (`OnItsOwn`) finds a holder gone or of an earlier life, a malformed
file old, and at its second attempt no file. Two attempts are the least the
comment above `MAX_ATTEMPTS` names; the code makes five. Where process starts
cannot be read (`~ProcFs`) a reused pid refuses the run, as the code says.

*Onboard.* `EntryDescribesSandbox` relates two pieces of state that are never
written together. `EntryWrites` says what holds between the writes: no entry
is left when a sandbox is built, the one built is of the session's agent when
it is registered, an entry that is there at `updateSandboxRegistry` already
has the session's agent, and presets are live before they are recorded.
`DeliveredIsConfigured` is about the last write of a run and rests on all it
did before: `Reached` says what is behind a run at each of its steps, recorded
complete and true of the live system, whether the run did it or found it done.
A step that trusts the record alone has to be covered by what the record
means: the sandbox of a completed sandbox step is of the session's agent
(`BuiltForAgent`, since another agent resets the record), and presets that the
entry records are live (`EntryDescribesSandbox`). `OnlyComplete` shows that no
other write makes a session complete.

*Lifecycle.* `DestroyedLeavesNothing` speaks of the moment after a destroy, the
invariant of each step in it (`Destroying`: what the phases so far have already
removed, unless one has failed and said so) and of the commands that may run
afterwards. `Relocking` says of a rebuild of a locked sandbox, phase by phase,
that the sandbox is still locked, does not exist, or is to be locked again by a
step yet to come; `Ops` ties a program counter to the commands that reach it.
The proof has a lemma per action, grouped by what they leave alone.

What a sandbox keeps is a second invariant, `KeptIInv`. `RecordKept`: entry and
policy differ by the preset of the step under way. `Unwanted`: a removed
channel is in none of the places a sandbox may be made from (entry, session,
the entry a rebuild has read, its backup), a stopped one is stopped in all of
them. `Around`: what a command that removes a channel has seen to, and that
the session owes a rebuild stays resumable while `onboard()` runs.
`Rebuilding`: where a rebuild has, phase by phase, the presets and channels it
started from. Each part has a frame lemma (`RecordFrame`, ...) that says what
leaves it alone; an action that does not fit the frame of a part has a step
of its own for it.

*Create.* `FilesIn` follows the files through a recreation: from `delete` on
the backup holds them; `NewIn` says what the sandbox found under the name after
the stream is (made by this run, or one that could not be deleted); `PatchedIn`
what a patch that is done has left; `EndedIn` what the end of the stream says
of the child; `PatchIn` where the patch may have been entered from. `RestoreIn`
follows the files that a restore owes to the end of the run, and `ContIn` the
two containers along the steps of the patch.

*Snapshot.* Nothing is known of a snapshot before its creation ends and of a
sandbox while another command works on it, so the invariant speaks of both in
relation to the commands. `FillIn`: a snapshot is filled by one creation, and
not listed before that is done. `TurnIn`: unless two creations ever ran at
once, a creation fills the last snapshot and its name is free, from which
names are unique and versions stay. `SyncIn`: entry, policy and sandbox agree
unless they were told apart. `PutBackIn`: what a restore has put back so far is
still there while it is `alone`; the reconciliation has the presets still to
add and remove, and what is in force with these is always the snapshot's set.
`HeldIn`: a sandbox restored holds the snapshot, with an empty state file if it
was `cut`, and `SnapIn` what this has of
the directory that was backed up: all but its credentials. Every step is one of two
kinds, which share a proof each: a creation fills its own snapshot (`Fills`),
or a command, or the agent, changes one sandbox and whoever else restores into
it is told (`Touches`). Looking for the invariant showed that the history
variable `apart` missed a case that two commands cannot reach: a clone may
take over a sandbox that a third command had made and given presets.

*Inference.* `TokenIsGateways` relates a file to a provider at the gateway that
is written two steps later. `Placed` says where a command can be, given its
helper and the step it returns to; `Holds` that a command on its way from the
restart to the upsert has the token on disk in memory, once there is one: a
restart takes it from there, so a key that was only ever in memory reaches the
gateway by way of the disk. The lemmas are grouped by what a step does to the
command that takes it (`QuietIn`, `RestartIn`, `ReturnIn`, `UnproxiedIn`) and
to the others (`GoIn`, `AloneIn`, `AllIn`).
`HelperServesGateway` needs an invariant per helper (`Serves`): of a proxy and
an adapter, that a command found `ready` is past the look that found it so,
with the answering key on disk and, once it is told, at the gateway; of a
router also, from before it is reconciled, that no helper runs but the one the
session names and the run's own child (`OnlyKnown`). Looking for it showed
that `calm` promised too much: a router left by an earlier run, or forgotten
by a new session, may answer the port of a later one. A run that begins beside
such a router is not calm (`Strays`). The bounds of `Host` were too small to
show this; with three commands TLC did, and passes with the change.

*Gateway.* Each property has an invariant of its own. `DoubtIInv` says what a
command that doubts an entry has seen: through our gateway, no sandbox; at the
removal it is our gateway that it sees, because the guard has just called it
healthy. `TargetIInv` says that a process about to be signalled was identified.
`StartKnows` lists, for each step of an undisturbed start, which process may
still be a gateway: the one the pid file names before `existing`, only dying
ones at `spawn`, the child beside them afterwards. With `LoneListener` what
listens is then the one in the pid file. Most lemmas say where a group of
actions leads (`StartingLeads`, `StoppingLeads`, ...), so that the proofs of
the invariants look only at the few program counters they speak of.

*Side by side.* `SideCorrect` and `HostCorrect` take the theorems of the
components to the specifications the runs check: a behaviour of one component
beside others that stand still is, for each of them, one of its own or a
stutter.

The invariants `TimerIInv`, `ArmIInv`, `LockIInv` (of the shields and of the
registry lock), `WatchIInv`, `LoneIInv`, `EntryIInv`,
`DeliverIInv`, `IInv`, `KeptIInv`, `MakeIInv`, `SnapIInv`, `InferIInv`,
`ServeIInv`, `DoubtIInv`, `TargetIInv` and `StartIInv` are stronger than what
the runs check, and stay with the proofs.

### 4.1 What is only model-checked

The liveness properties of `RegistryCrash` and `HostLive`: liveness under
fairness and `ENABLED` are beyond the prover. So is induction over data (no
theorem of the library that takes an operator can be instantiated) and any
module that reaches a `RECURSIVE` operator; these modules have none. Every
other property of a passing run is stated by a theorem, on the premises in the
table. `OpenIsWatched` is as far as the proofs go towards `WindowCloses` and
`AbandonedWindowRecovered`: that there is always somebody left to close the
window, not that he does.

## 5. What the violations show

Each is a run with the statement of the repository it contradicts; the
findings in `PROJECT.json` quote it.

- `ShieldsRelapse`: a first `shields down` whose policy set fails after the
  gateway took the policy (`index.ts:936`), or whose record cannot be written
  (`index.ts:965`), ends without a state file, while the permissive policy is
  live. The next `shields up` takes the sandbox for one that was never opened,
  skips the restore and claims lockdown. With a second failing call it is the
  `shields up` that the rollback of a failed unlock asks for.
- `ShieldsRepeat`: two overlapping `shields down` both see a closed window;
  the later one kills the timer of the earlier.
- `RegistryTwoHolders`: two waiters find the same dead owner; one removes the
  lock and takes it, the other's `rmSync` removes that new lock.
- `OnboardDrift`: a resumed run that falls back to provider selection reuses
  the recorded sandbox without comparing selections and overwrites its
  `config.json`, so no later run sees the drift.

- `LifecycleAdd`: `applyPresetContent` reads the policy with errors ignored, so
  a `policy get` that fails is an empty policy, and `policy set` replaces the
  whole policy by the one preset. `removePreset` refuses in the same case.

Seen while modelling and not run, most of them allowed by the model and named
in the guards or antecedents of its properties:

*Shields.* An expired or failed first `shields down` locks a sandbox that was
never opted in; `shields up` on a state file that does not parse takes the
live policy for the baseline; a timer restore that fails removes its marker
and leaves the window without a timer (a later `status` has nothing to recover
from); an openshell child outlives the timer that SIGTERM ends.

*Locks.* A contender may unlink a live lock of `onboard`: its inode number,
which identifies the file, may be that of a dead one, or the file may come
between the stat and the unlink. Comments at `onboard-session.ts:742` and `:776`
count on the loop around it to find out, but the loop is the contender's: the
holder whose file went never looks, and the contender becomes a second one
(`fooled`). A read of `sandboxes.json` that fails, but for want of permission,
is an empty registry (`config-io.ts:199`): the command saves one that has lost
all other sandboxes. The pid of the registry lock's dead owner may be
reused, and the lock is then never broken.

*Onboarding.* A run that ends between `removeSandboxFromRegistry` and the start
of the sandbox step, resumed with the old settings, delivers a sandbox that is
not registered; `DeliveredIsConfigured` therefore does not speak of the
registry.

*Lifecycle.*
- A rebuild that failed leaves its mirror of the stopped channels in the
  session, where it goes before a later choice (`mislaid`); so do entries that
  recovery made, which have no channels at all.
- A locked sandbox, a stopped channel whose preset the sandbox is created with,
  and a rebuild: the relock restores the policy of before, with that preset
  (against `test/rebuild-policy-presets.test.ts:172`).
- A `policy set` that fails in the rebuild's loop over the saved presets ends
  the process and skips the relock (`LockedRebuildRelocks` excepts it).
- Presets applied from a file are not in the manifest of a backup and are lost
  in a rebuild (`customize-network-policy.mdx:231`); the rebuild says so.
- A session of another sandbox lends its presets to the rebuild's resume; a
  recovery for a mistyped name rewrites the entry of the session's sandbox.
- A death between the removal of the entry and the write of the session loses
  the stopped channels; one in a destroy after the entry is gone lets `list`
  recover a phantom, and one before the shields state is gone leaves a later
  sandbox of the name with shields "up".

*Create.* What `sandbox delete` answers is ignored (`onboard.ts:3214`), and the
ready check then takes the old sandbox for the new one (`undeleted`). After a
failed recreation the entry is gone, so that a retry does not restore the
backup. What `docker stop` answers is ignored too, and two containers of the
sandbox may run (`deaf`). A live sandbox without an entry is reused and stays
unregistered.

*Snapshot.* A backup that is not complete is listed, and picked as the latest;
a restore removes a directory before it extracts, and a failure there loses
what was in it; of an undisturbed restore too the credentials in the state
directories of the sandbox are gone, which the restore does not say; a failing
transfer of the state file may be reported restored (`cut`); two creations at once may take one name and swap versions
(`overlap`); a clone passes off a sandbox that was made meanwhile under its name
as its own, while its entry says that no presets are applied (`apart`); a
python3 that fails leaves an empty database in a backup that is reported good;
the clone of a sandbox takes over its image tag, dashboard port
and channels, and destroying it with `--force` may remove the shared image.

*Inference.*
- A selection whose key or model could not be had leaves its provider and model
  in the variables of the selection loop, and "No NIM models fit this GPU.
  Falling back to cloud API" (`onboard.ts:4718`) goes on with them, whatever
  they are.
- The look at the child right after `waitForPort` may find it alive while it is
  about to die of a port that is taken; `probeProxyToken` takes any status but
  401 for an accepted token, so an unrelated service passes (`taken` in
  `HelperServesGateway`).
- A resume that finds the route in place skips `setupInference`, although the
  selection before it may have started a proxy with a token that was never
  saved; every later restart has the old token.
- The proxy is shared by all sandboxes, but the destroy of one stops it
  ("per-sandbox", `destroy.ts:482`); the next connect starts it again.
- The router's pid and credential hash are written after it is healthy, and a
  new session forgets them: a router that outlives its session, or its run, is
  refused by every later reconcile until someone kills it. "Healthy and own
  child alive" does not ask who answers the port: a router that a killed run
  left behind (`model-router.ts:460`) may answer for the child of a later run,
  which is why `HelperServesGateway` is proved of calm behaviours only. Its
  SIGKILL goes to the pid without a second look (`OthersAreSpared` speaks of
  the other two).
- A resume reconciles the router with a new credential without registering it
  at the gateway.

*Gateway.*
- A NotFound of another gateway, and another command that selects nemoclaw
  before the guard, remove the entry of a live sandbox, which the comment at
  `gateway-state.ts:203` wants to exclude (`still`). A lookup by another
  gateway that was selected after ours answered does the same.
- A gateway that is called unhealthy gets SIGTERM and one second. If it is not
  gone by then it may take the probes meant for the new one, which finds its
  port taken and dies: the start says "healthy" over nothing (`"end"`).
- A probe that cannot name the owner of the port lets an outdated gateway pass
  for the child (`blind`).
- Ten looks after SIGTERM the SIGKILL goes to the pid without another look at
  what it is (`same`).
- Two starts at once leave the pid file naming the child that lost the port
  (`alone`); the next start finds the listener by the port and repairs it.

## 6. Not modelled

- Two commands at once on one sandbox's entry and session: `Lifecycle` runs
  one at a time, so the read of an entry outside the lock is not raced.
- Of the gateway the openshell-cluster containers with their volumes and the
  lifecycle CLI, macOS, and a change of GPU intent; process recovery, which is
  classification of command output and retries.
- Of the inference setup the model catalogues and their validation, NIM
  containers, the installation of Ollama and vLLM, and `inference set`.
- The tunnel services, credentials migration: smaller protocols with pid files
  and plaintext files.
- The Hermes broker, the OpenClaw plugin, the Zig core: separate programs.
- Dashboard, deploy, diagnostics, CLI framework, installers: I/O, formatting
  and pure functions, with no protocol of their own.

## 7. Plan

Done, in this order: `Shields`; `Registry` and `RegistryLock`; `OnboardLock`;
`Onboard`; their proofs; `Lifecycle`, `Create`, `Snapshot` and `Inference`,
checked in one run; the proofs of `Lifecycle`, `Create` and `Inference`;
`Gateway` and its proofs; the proofs of `Snapshot`, of what a sandbox keeps
through the commands of `Lifecycle`, of the shields' lockdown, of the
delivered session, of the helper that serves the gateway and of the lone
onboarding run; `Lockdown`, the proof that `Shields` implements it, and the
theorems about components side by side. What remains worth doing:

1. The two-process version of `Lifecycle`: an abstract specification in which
   no update of another command is lost, which this code does not implement.
2. The gateway containers of older openshell versions: which of the paths that
   recreate one keep the volumes of the sandboxes.
3. The Hermes broker, and the Zig supervisor's restart policy as a pure
   algorithm against a reference definition.
