------------------------------- MODULE Onboard -------------------------------
(***************************************************************************)
(* The onboarding run of one sandbox name and what it resumes from:        *)
(* onboard() of src/lib/onboard.ts with the handlers of                    *)
(* src/lib/onboard/machine/handlers, the session file of                   *)
(* src/lib/state/onboard-session.ts, and the gateway, inference route,     *)
(* sandbox and registry entry the steps set up.                            *)
(*                                                                         *)
(* One run at a time, which OnboardLock is about.  Every write of the      *)
(* session or the registry and every change of the gateway or the sandbox  *)
(* is one step, so that a run may be killed, or exit with its handler,     *)
(* between two of them and be resumed.  A prompt, an option or an          *)
(* environment variable that may go either way is a nondeterministic       *)
(* choice; a provider stands for provider and model together, and the      *)
(* policy presets for whether the selected ones are there.                 *)
(***************************************************************************)
EXTENDS Integers

CONSTANTS
  Prov, Agents,   \* providers that can be selected, agents
  DefaultAgent,   \* openclaw, which the session records as null
  NoProv, NoSession, NoBox, NoEntry, NoStep,
  MaxRuns,        \* bound: runs started, resumed or refused
  MaxStops,       \* bound: runs killed or ended by process.exit(1)
  MaxDrifts,      \* bound: changes of the world between runs
  MaxRetries      \* bound: selections made again after a failed setup

ASSUME AgentAssumption == DefaultAgent \in Agents /\ NoProv \notin Prov
ASSUME BoundAssumption ==
  MaxRuns \in Nat /\ MaxStops \in Nat /\ MaxDrifts \in Nat /\ MaxRetries \in Nat

VARIABLES
  sess,     \* onboard-session.json
  gateway,  \* does the named gateway run and answer
  route,    \* the provider of the gateway's inference route
  box,      \* the sandbox: provider baked in, agent, ready, config.json, presets
  reg,      \* the sandbox's entry in sandboxes.json
  pc,       \* where the run is
  run,      \* locals of onboard()
  used      \* what is used of the bounds

world == <<gateway, route, box>>
vars  == <<sess, world, reg, pc, run, used>>

StepName == {"preflight", "gateway", "provider_selection", "inference", "sandbox",
             "openclaw", "agent_setup", "policies"}
AgentScoped == StepName \ {"preflight", "gateway"}
Machine  == StepName \cup {"init", "finalizing", "post_verify", "complete", "failed"}
RunPc == {"agent", "preflight", "preflight_run", "gateway", "gateway_run", "provider",
          "provider_run", "inference", "inference_run", "inference_reg", "inference_done",
          "sandbox", "sandbox_start", "create", "delete", "unregister", "build", "register",
          "sandbox_reg", "sandbox_done", "setup", "setup_run", "setup_done", "setup_skip",
          "policies", "policies_run", "policies_live", "policies_reg", "policies_done",
          "final", "verify", "after"}

Session == [status : {"in_progress", "failed", "complete"}, resumable : BOOLEAN,
            started : StepName \cup {NoStep}, machine : Machine, agent : Agents,
            prov : Prov \cup {NoProv}, presets : BOOLEAN,
            step : [StepName -> {"pending", "in_progress", "complete", "failed", "skipped"}]]
Box   == [built : Prov, agent : Agents, up : BOOLEAN, config : Prov \cup {NoProv},
          policies : BOOLEAN]
Entry == [prov : Prov, agent : Agents, policies : BOOLEAN]
Run   == [resume : BOOLEAN, changed : BOOLEAN, force : BOOLEAN, setup : BOOLEAN,
          prov : Prov \cup {NoProv}]
NoRun == [resume |-> FALSE, changed |-> FALSE, force |-> FALSE, setup |-> FALSE, prov |-> NoProv]

ASSUME NoneAssumption == NoSession \notin Session /\ NoBox \notin Box

Init ==
  /\ sess = NoSession /\ gateway = "down" /\ route = NoProv
  /\ box = NoBox /\ reg = NoEntry /\ pc = "idle" /\ run = NoRun
  /\ used = [runs |-> 0, stops |-> 0, drifts |-> 0, retries |-> 0]

-----------------------------------------------------------------------------
(* The session file                                                        *)

NewSession ==
  [status |-> "in_progress", resumable |-> TRUE, started |-> NoStep, machine |-> "init",
   agent |-> DefaultAgent, prov |-> NoProv, presets |-> FALSE,
   step |-> [k \in StepName |-> "pending"]]

SetupStep(agent) == IF agent = DefaultAgent THEN "openclaw" ELSE "agent_setup"

(* nextMachineStateAfterCompletedStep                                      *)
After(k, agent) ==
  CASE k = "preflight" -> "gateway"
    [] k = "gateway" -> "provider_selection"
    [] k = "provider_selection" -> "inference"
    [] k = "inference" -> "sandbox"
    [] k = "sandbox" -> SetupStep(agent)
    [] k \in {"openclaw", "agent_setup"} -> "policies"
    [] k = "policies" -> "finalizing"

(* markStepStarted, markStepComplete, markStepSkipped and markStepFailed   *)
Started(s, k) ==
  [s EXCEPT !.step[k] = "in_progress", !.started = k, !.status = "in_progress", !.machine = k]
Completed(s, k) == [s EXCEPT !.step[k] = "complete", !.machine = After(k, s.agent)]
Skipped(s, k) ==
  IF s.step[k] \in {"pending", "in_progress"} THEN [s EXCEPT !.step[k] = "skipped"] ELSE s
Failed(s, k) == [s EXCEPT !.step[k] = "failed", !.status = "failed", !.machine = "failed"]

(* completeSession, OnboardRuntime.complete                                *)
Finished(s, p) ==
  [s EXCEPT !.prov = p, !.status = "complete", !.resumable = FALSE, !.machine = "complete"]

(* Mutant: the agent is recorded and nothing is reset.                     *)
ClearedAgentOnly(s, agent) == [s EXCEPT !.agent = agent]

(* clearAgentScopedResumeState                                             *)
Cleared(s, agent) ==
  [s EXCEPT !.agent = agent, !.prov = NoProv, !.presets = FALSE,
            !.step = [k \in StepName |-> IF k \in AgentScoped THEN "pending" ELSE s.step[k]],
            !.started = IF s.started \in AgentScoped THEN NoStep ELSE s.started]

Goto(from, to)   == pc = from /\ pc' = to
StepDone(k)      == sess # NoSession /\ sess.step[k] = "complete"
ResumeDone(k)    == run.resume /\ StepDone(k)
Sandbox          == box # NoBox
Ready            == gateway = "up" /\ Sandbox /\ box.up
Registered       == reg # NoEntry
WithProv(p)      == [sess EXCEPT !.prov = p]

-----------------------------------------------------------------------------
(* Start of a run                                                          *)

Spend(what, bound) == used[what] < bound /\ used' = [used EXCEPT ![what] = @ + 1]

Fresh ==
  /\ Goto("idle", "agent") /\ Spend("runs", MaxRuns)
  /\ sess' = NewSession /\ run' = NoRun
  /\ UNCHANGED <<world, reg>>

Resume ==
  /\ Goto("idle", "agent") /\ Spend("runs", MaxRuns)
  /\ sess # NoSession /\ sess.resumable
  /\ sess' = [sess EXCEPT !.status = "in_progress"]
  /\ run' = [NoRun EXCEPT !.resume = TRUE]
  /\ UNCHANGED <<world, reg>>

(* Without a prompt and a name, before the exit handler is installed.      *)
Refuse ==
  /\ pc = "idle" /\ Spend("runs", MaxRuns)
  /\ sess # NoSession /\ sess.resumable /\ ~StepDone("sandbox")
  /\ sess' = [sess EXCEPT !.status = "in_progress"]
  /\ UNCHANGED <<world, reg, pc, run>>

(* The agent of a flag, the session or the environment.                    *)
SelectAgent ==
  /\ Goto("agent", "preflight")
  /\ \E a \in Agents :
       IF run.resume /\ a # sess.agent
       THEN /\ sess' = Cleared(sess, a)
            /\ run' = [run EXCEPT !.changed = TRUE, !.force = TRUE]
       ELSE sess' = [sess EXCEPT !.agent = a] /\ run' = run
  /\ UNCHANGED <<world, reg, used>>

-----------------------------------------------------------------------------
(* handlePreflightState: a resumed run trusts the record and only repeats  *)
(* the checks that may end it.                                             *)

Preflight ==
  /\ \/ ResumeDone("preflight") /\ Goto("preflight", "gateway") /\ UNCHANGED sess
     \/ /\ ~ResumeDone("preflight") /\ Goto("preflight", "preflight_run")
        /\ sess' = Started(sess, "preflight")
  /\ UNCHANGED <<world, reg, run, used>>

PreflightRun ==
  /\ Goto("preflight_run", "gateway") /\ sess' = Completed(sess, "preflight")
  /\ UNCHANGED <<world, reg, run, used>>

-----------------------------------------------------------------------------
(* handleGatewayState                                                      *)

GatewayReuse ==
  /\ gateway = "up" /\ (run.resume => StepDone("gateway"))
  /\ Goto("gateway", "provider") /\ sess' = Completed(sess, "gateway")
  /\ run' = [run EXCEPT !.prov = sess.prov]
  /\ UNCHANGED <<world, reg, used>>

(* A gateway whose container is gone, that does not answer or whose image  *)
(* is of another version is destroyed with its volumes and the registry.   *)
GatewayDestroy ==
  /\ pc = "gateway" /\ gateway' = "down" /\ route' = NoProv
  /\ box' = NoBox /\ reg' = NoEntry
  /\ UNCHANGED <<sess, pc, run, used>>

GatewayStart ==
  /\ gateway = "down" \/ (run.resume /\ ~StepDone("gateway"))
  /\ Goto("gateway", "gateway_run") /\ sess' = Started(sess, "gateway")
  /\ UNCHANGED <<world, reg, run, used>>

(* startGateway: what the old gateway kept may or may not survive.         *)
GatewayUp ==
  /\ pc = "gateway_run" /\ gateway' = "up"
  /\ route' \in {route, NoProv} /\ box' \in {box, NoBox}
  /\ sess' = Completed(sess, "gateway")
  /\ pc' = "provider" /\ run' = [run EXCEPT !.prov = sess.prov]
  /\ UNCHANGED <<reg, used>>

-----------------------------------------------------------------------------
(* handleProviderInferenceState                                            *)

(* ensureResumeProviderReady may find that the setup has to be repeated.   *)
Provider ==
  /\ \/ /\ ~run.force /\ ResumeDone("provider_selection") /\ run.prov # NoProv
        /\ Goto("provider", "inference") /\ UNCHANGED sess
        /\ \E again \in BOOLEAN : run' = [run EXCEPT !.setup = again]
     \/ /\ run.force \/ ~ResumeDone("provider_selection") \/ run.prov = NoProv
        /\ Goto("provider", "provider_run") /\ run' = [run EXCEPT !.setup = FALSE]
        /\ sess' = Started(sess, "provider_selection")
  /\ UNCHANGED <<world, reg, used>>

(* Mutant: nothing selected is not noticed.                                *)
ProviderRunUnchecked ==
  /\ Goto("provider_run", "inference")
  /\ \E p \in Prov \cup {NoProv} :
       /\ sess' = Completed(WithProv(p), "provider_selection")
       /\ run' = [run EXCEPT !.prov = p]
  /\ UNCHANGED <<world, reg, used>>

ProviderRun ==
  /\ Goto("provider_run", "inference")
  /\ \E p \in Prov :
       /\ sess' = Completed(WithProv(p), "provider_selection")
       /\ run' = [run EXCEPT !.prov = p]
  /\ UNCHANGED <<world, reg, used>>

InferenceGoesOn(to) == Goto("inference", to) /\ UNCHANGED <<world, reg, run, used>>

(* Mutant: a resumed run trusts the record of the inference step.          *)
InferenceReuseRecorded ==
  /\ ~run.force /\ ~run.setup /\ ResumeDone("inference") /\ InferenceGoesOn("sandbox")
  /\ sess' = Completed(WithProv(run.prov), "inference")

(* isInferenceRouteReady asks the live gateway.                            *)
InferenceReuse ==
  /\ ~run.force /\ ~run.setup /\ run.resume /\ route = run.prov
  /\ InferenceGoesOn("sandbox") /\ sess' = Completed(WithProv(run.prov), "inference")

(* Also with the route ready: Hermes and Bedrock always set up again.      *)
InferenceStart ==
  /\ InferenceGoesOn("inference_run")
  /\ sess' = Started(WithProv(run.prov), "inference")

InferenceSet ==
  /\ Goto("inference_run", "inference_reg") /\ route' = run.prov
  /\ UNCHANGED <<sess, gateway, box, reg, run, used>>

InferenceRetry ==
  /\ Goto("inference_run", "provider") /\ Spend("retries", MaxRetries)
  /\ run' = [run EXCEPT !.force = TRUE]
  /\ UNCHANGED <<sess, world, reg>>

(* registry.updateSandbox does nothing without an entry.                   *)
InferenceReg ==
  /\ Goto("inference_reg", "inference_done")
  /\ reg' = IF Registered THEN [reg EXCEPT !.prov = run.prov] ELSE reg
  /\ UNCHANGED <<sess, world, run, used>>

InferenceDone ==
  /\ Goto("inference_done", "sandbox")
  /\ sess' = Completed(WithProv(run.prov), "inference")
  /\ UNCHANGED <<world, reg, run, used>>

-----------------------------------------------------------------------------
(* handleSandboxState and createSandbox                                    *)

SandboxReuse ==
  /\ ResumeDone("sandbox") /\ ~run.changed /\ Ready /\ Goto("sandbox", "setup")
  /\ UNCHANGED <<sess, world, reg, run, used>>

(* The recorded sandbox is not used: its web search, messaging, GPU or     *)
(* tool settings changed, it is not ready (repairRecordedSandbox deletes   *)
(* it) or it is gone.  Its entry goes before the step is started.          *)
SandboxDiscard ==
  /\ ResumeDone("sandbox") /\ ~run.changed /\ Goto("sandbox", "sandbox_start")
  /\ reg' = NoEntry
  /\ box' \in {box} \cup IF Sandbox /\ ~box.up THEN {NoBox} ELSE {}
  /\ UNCHANGED <<sess, gateway, route, run, used>>

SandboxStart ==
  /\ \/ Goto("sandbox_start", "create")
     \/ Goto("sandbox", "create") /\ (ResumeDone("sandbox") => run.changed)
  /\ sess' = Started(WithProv(run.prov), "sandbox")
  /\ UNCHANGED <<world, reg, run, used>>

(* Mutant: a sandbox without an entry counts as one of the wanted agent.   *)
AgentDriftIfRegistered == Registered /\ reg.agent # sess.agent

AgentDrift == ~Registered \/ reg.agent # sess.agent
SelectionDrift == box.config \notin {NoProv, run.prov}

CreateReuse ==
  /\ Goto("create", "sandbox_reg") /\ Ready /\ ~AgentDrift /\ ~SelectionDrift
  /\ reg' = IF Registered /\ box.config # NoProv THEN [reg EXCEPT !.prov = run.prov] ELSE reg
  /\ UNCHANGED <<sess, world, run, used>>

(* Recreation, asked for or because of a drift; decidePolicyCarryForward   *)
(* keeps the recorded presets or not.                                      *)
CreateDecide ==
  /\ Goto("create", "delete") /\ Sandbox
  /\ \E keep \in BOOLEAN :
       sess' = [sess EXCEPT !.presets = keep /\ Registered /\ reg.policies]
  /\ UNCHANGED <<world, reg, run, used>>

CreateDelete ==
  /\ Goto("delete", "unregister") /\ box' = NoBox
  /\ UNCHANGED <<sess, gateway, route, reg, run, used>>

(* Mutant: the entry of a sandbox that is gone is left in the registry.    *)
CreateUnregisterNot ==
  /\ Goto("unregister", "build") \/ (Goto("create", "build") /\ ~Sandbox)
  /\ UNCHANGED <<sess, world, reg, run, used>>

CreateUnregister ==
  /\ \/ Goto("unregister", "build")
     \/ Goto("create", "build") /\ ~Sandbox     \* pruneStaleSandboxEntry
  /\ reg' = NoEntry
  /\ UNCHANGED <<sess, world, run, used>>

(* config.json is the image's empty placeholder; some presets are applied  *)
(* at boot.                                                                *)
Build ==
  /\ Goto("build", "register") /\ gateway = "up"
  /\ \E boot \in BOOLEAN :
       box' = [built |-> run.prov, agent |-> sess.agent, up |-> TRUE, config |-> NoProv,
               policies |-> boot]
  /\ UNCHANGED <<sess, gateway, route, reg, run, used>>

Register ==
  /\ Goto("register", "sandbox_reg")
  /\ reg' = [prov |-> run.prov, agent |-> sess.agent, policies |-> box.policies]
  /\ UNCHANGED <<sess, world, run, used>>

SandboxReg ==
  /\ Goto("sandbox_reg", "sandbox_done")
  /\ reg' = IF Registered THEN [reg EXCEPT !.prov = run.prov, !.agent = sess.agent] ELSE reg
  /\ UNCHANGED <<sess, world, run, used>>

SandboxDone ==
  /\ Goto("sandbox_done", "setup") /\ sess' = Completed(WithProv(run.prov), "sandbox")
  /\ UNCHANGED <<world, reg, run, used>>

-----------------------------------------------------------------------------
(* handleAgentSetupState and handleAgentSetup: openclaw or another agent   *)

ConfigSynced == box' = [box EXCEPT !.config = run.prov]

(* isOpenclawReady, or the agent's health probe, answers.                  *)
SetupReuse ==
  /\ Goto("setup", "setup_done") /\ run.resume /\ Ready /\ ConfigSynced
  /\ UNCHANGED <<sess, gateway, route, reg, run, used>>

SetupStart ==
  /\ Goto("setup", "setup_run")
  /\ sess' = Started(WithProv(run.prov), SetupStep(sess.agent))
  /\ UNCHANGED <<world, reg, run, used>>

SetupRun ==
  /\ Goto("setup_run", "setup_done") /\ Ready /\ ConfigSynced
  /\ UNCHANGED <<sess, gateway, route, reg, run, used>>

SetupDone ==
  /\ Goto("setup_done", "setup_skip")
  /\ sess' = Completed(WithProv(run.prov), SetupStep(sess.agent))
  /\ UNCHANGED <<world, reg, run, used>>

SetupSkip ==
  /\ Goto("setup_skip", "policies")
  /\ \E k \in {"openclaw", "agent_setup"} \ {SetupStep(sess.agent)} : sess' = Skipped(sess, k)
  /\ UNCHANGED <<world, reg, run, used>>

-----------------------------------------------------------------------------
(* handlePoliciesState                                                     *)

(* Mutant: the presets the session recorded count as applied.              *)
PoliciesReuseRecorded ==
  /\ Goto("policies", "final") /\ run.resume /\ sess.presets
  /\ sess' = Completed(WithProv(run.prov), "policies")
  /\ UNCHANGED <<world, reg, run, used>>

(* arePolicyPresetsApplied looks into the registry.                        *)
PoliciesReuse ==
  /\ Goto("policies", "final") /\ run.resume /\ sess.presets /\ Registered /\ reg.policies
  /\ sess' = Completed(WithProv(run.prov), "policies")
  /\ UNCHANGED <<world, reg, run, used>>

PoliciesStart ==
  /\ Goto("policies", "policies_run") /\ sess' = Started(WithProv(run.prov), "policies")
  /\ UNCHANGED <<world, reg, run, used>>

(* The selection is saved before it is applied.                            *)
PoliciesSelect ==
  /\ Goto("policies_run", "policies_live") /\ sess' = [sess EXCEPT !.presets = TRUE]
  /\ UNCHANGED <<world, reg, run, used>>

(* syncPresetSelection applies what the registry does not record.          *)
PoliciesLive ==
  /\ Goto("policies_live", "policies_reg") /\ Ready
  /\ box' = IF Registered /\ reg.policies THEN box ELSE [box EXCEPT !.policies = TRUE]
  /\ UNCHANGED <<sess, gateway, route, reg, run, used>>

PoliciesReg ==
  /\ Goto("policies_reg", "policies_done")
  /\ reg' = IF Registered THEN [reg EXCEPT !.policies = TRUE] ELSE reg
  /\ UNCHANGED <<sess, world, run, used>>

PoliciesDone ==
  /\ Goto("policies_done", "final") /\ sess' = Completed(WithProv(run.prov), "policies")
  /\ UNCHANGED <<world, reg, run, used>>

-----------------------------------------------------------------------------
(* handleFinalizationState; what verifyDeployment finds is only printed    *)

PostVerify ==
  /\ Goto("final", "verify")
  /\ sess' = IF sess.machine = "finalizing" THEN [sess EXCEPT !.machine = "post_verify"] ELSE sess
  /\ UNCHANGED <<world, reg, run, used>>

Complete ==
  /\ Goto("verify", "after") /\ sess' = Finished(sess, run.prov)
  /\ UNCHANGED <<world, reg, run, used>>

Return ==
  /\ Goto("after", "idle") /\ run' = NoRun
  /\ UNCHANGED <<sess, world, reg, used>>

-----------------------------------------------------------------------------
(* Failures                                                                *)

(* process.exit(1), at a step that fails or, under a rebuild, after the    *)
(* run: the exit handler marks the step started last as failed.            *)
Exit ==
  /\ pc # "idle" /\ pc' = "idle" /\ run' = NoRun /\ Spend("stops", MaxStops)
  /\ sess' = IF sess.started = NoStep THEN sess ELSE Failed(sess, sess.started)
  /\ UNCHANGED <<world, reg>>

Kill ==
  /\ pc # "idle" /\ pc' = "idle" /\ run' = NoRun /\ Spend("stops", MaxStops)
  /\ UNCHANGED <<sess, world, reg>>

(* Between runs the gateway may go down, the route may be set to another   *)
(* provider and the sandbox may stop or be deleted.                        *)
Drift ==
  /\ pc = "idle" /\ Spend("drifts", MaxDrifts)
  /\ \/ gateway = "up" /\ gateway' = "down" /\ UNCHANGED <<route, box>>
     \/ route' \in (Prov \cup {NoProv}) \ {route} /\ UNCHANGED <<gateway, box>>
     \/ /\ Sandbox /\ box' \in {NoBox, [box EXCEPT !.up = FALSE]}
        /\ UNCHANGED <<gateway, route>>
  /\ UNCHANGED <<sess, reg, pc, run>>

-----------------------------------------------------------------------------
StartRun == Fresh \/ Resume \/ Refuse \/ SelectAgent
Gateway  == GatewayReuse \/ GatewayDestroy \/ GatewayStart \/ GatewayUp
Inference ==
  \/ Provider \/ ProviderRun \/ InferenceReuse \/ InferenceStart
  \/ InferenceSet \/ InferenceRetry \/ InferenceReg \/ InferenceDone
CreateSandbox ==
  \/ SandboxReuse \/ SandboxDiscard \/ SandboxStart \/ CreateReuse \/ CreateDecide
  \/ CreateDelete \/ CreateUnregister \/ Build \/ Register \/ SandboxReg \/ SandboxDone
AgentSetup == SetupReuse \/ SetupStart \/ SetupRun \/ SetupDone \/ SetupSkip
Policies ==
  \/ PoliciesReuse \/ PoliciesStart \/ PoliciesSelect \/ PoliciesLive
  \/ PoliciesReg \/ PoliciesDone
Final   == PostVerify \/ Complete \/ Return
Failure == Exit \/ Kill \/ Drift

Next ==
  \/ StartRun \/ Preflight \/ PreflightRun \/ Gateway \/ Inference \/ CreateSandbox
  \/ AgentSetup \/ Policies \/ Final \/ Failure

Spec == Init /\ [][Next]_vars

-----------------------------------------------------------------------------
(* Properties                                                              *)

(* Every variable keeps its type.                                          *)
TypeOK ==
  /\ sess \in Session \cup {NoSession} /\ gateway \in {"up", "down"}
  /\ route \in Prov \cup {NoProv} /\ box \in Box \cup {NoBox}
  /\ reg \in Entry \cup {NoEntry} /\ pc \in {"idle"} \cup RunPc /\ run \in Run
  /\ used \in [{"runs", "stops", "drifts", "retries"} -> Nat]

Delivered == sess # NoSession /\ sess.status = "complete"
(* A session is only ever recorded as complete over a sandbox that is what *)
(* it says, however many runs were killed, failed and resumed before: each *)
(* step was done or found done again by its own check of the live system.  *)
DeliveredIsConfigured ==
  [][~Delivered /\ Delivered' =>
       /\ \A k \in {"preflight", "gateway", "provider_selection", "inference", "sandbox",
                    SetupStep(sess.agent), "policies"} : sess.step[k] = "complete"
       /\ Ready /\ route = sess'.prov
       /\ box.agent = sess.agent /\ box.config = sess'.prov /\ box.policies]_vars

(* The registry never describes another sandbox than the live one: its     *)
(* entry has the agent the sandbox was built for, and records presets as   *)
(* applied only when they are.                                             *)
EntryDescribesSandbox ==
  Registered /\ Sandbox => reg.agent = box.agent /\ (reg.policies => box.policies)

(* Why: a run has a session, and a provider once it is past the selection; *)
(* no entry is left when a sandbox is built, the entry is written for the  *)
(* agent it was built for, and presets are recorded after they are live.   *)
Underway == pc # "idle" => sess \in Session
Selected ==
  pc \notin {"idle", "agent", "preflight", "preflight_run", "gateway", "gateway_run",
             "provider", "provider_run"}
  => run.prov \in Prov
EntryWrites ==
  /\ pc = "build" => ~Registered
  /\ pc = "register" => ~Registered /\ box \in Box /\ box.agent = sess.agent
  /\ pc = "sandbox_reg" /\ Registered => reg.agent = sess.agent
  /\ pc = "policies_reg" => box \in Box /\ box.policies
EntryIInv == TypeOK /\ Underway /\ Selected /\ EntryWrites /\ EntryDescribesSandbox

(* "If you run onboarding again with the same sandbox name and choose a    *)
(* different inference provider or model, NemoClaw detects the drift and   *)
(* recreates the sandbox": a readable selection in a sandbox is never      *)
(* overwritten by another one.                                             *)
DriftRecreates ==
  [][Sandbox /\ box' # NoBox /\ box.config # NoProv => box'.config = box.config]_vars
=============================================================================
