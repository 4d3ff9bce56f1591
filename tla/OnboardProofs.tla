---------------------------- MODULE OnboardProofs ----------------------------
(* Theorems about Onboard, for every set of providers and agents and every *)
(* number of runs, stops, drifts and retries.                              *)
EXTENDS Onboard, TLAPS

(***************************************************************************)
(* What the session's writes return.                                       *)
(***************************************************************************)
LEMMA SetupStepType ==
  ASSUME NEW a \in Agents PROVE SetupStep(a) \in {"openclaw", "agent_setup"}
  BY DEF SetupStep

LEMMA AfterType ==
  ASSUME NEW k \in StepName, NEW a \in Agents PROVE After(k, a) \in Machine
  BY SetupStepType DEF After, StepName, Machine

LEMMA SessionWrites ==
  ASSUME NEW s \in Session, NEW k \in StepName, NEW p \in Prov \cup {NoProv}
  PROVE  /\ Started(s, k) \in Session /\ Started(s, k).agent = s.agent
         /\ Completed(s, k) \in Session /\ Completed(s, k).agent = s.agent
         /\ Skipped(s, k) \in Session /\ Skipped(s, k).agent = s.agent
         /\ Failed(s, k) \in Session /\ Failed(s, k).agent = s.agent
         /\ Finished(s, p) \in Session /\ Finished(s, p).agent = s.agent
         /\ [s EXCEPT !.prov = p] \in Session /\ [s EXCEPT !.prov = p].agent = s.agent
<1>1. s.agent \in Agents /\ After(k, s.agent) \in Machine
  BY AfterType DEF Session
<1>2. k \in Machine /\ {"complete", "failed"} \subseteq Machine
  BY DEF Machine
<1> QED BY <1>1, <1>2 DEF Session, Started, Completed, Skipped, Failed, Finished

LEMMA ClearedType ==
  ASSUME NEW s \in Session, NEW a \in Agents PROVE Cleared(s, a) \in Session
  BY DEF Session, Cleared

LEMMA NewSessionType == NewSession \in Session
  BY AgentAssumption DEF NewSession, Session, Machine

LEMMA NoRunType == NoRun \in Run
  BY DEF NoRun, Run

LEMMA SpendType ==
  ASSUME TypeOK, NEW w \in {"runs", "stops", "drifts", "retries"}, NEW b \in Nat, Spend(w, b)
  PROVE  used' \in [{"runs", "stops", "drifts", "retries"} -> Nat]
  BY DEF TypeOK, Spend

(***************************************************************************)
(* The inductive invariant.                                                *)
(***************************************************************************)
LEMMA EntryInit == Init => EntryIInv
  BY NoRunType DEF Init, EntryIInv, TypeOK, Underway, Selected, EntryWrites,
     EntryDescribesSandbox, Registered

LEMMA StartStep == ASSUME EntryIInv, StartRun PROVE EntryIInv'
<1> USE BoundAssumption DEF EntryIInv, TypeOK, Underway, Selected, EntryWrites,
        EntryDescribesSandbox, Registered, Sandbox, Goto, world, RunPc
<1>1. CASE Fresh
  BY <1>1, SpendType, NewSessionType, NoRunType DEF Fresh
<1>2. CASE Resume
  <2>1. sess' \in Session
    BY <1>2 DEF Resume, Session
  <2>2. run' \in Run
    BY <1>2, NoRunType DEF Resume, Run
  <2> QED BY <1>2, <2>1, <2>2, SpendType DEF Resume
<1>3. CASE Refuse
  <2>1. sess' \in Session
    BY <1>3 DEF Refuse, Session
  <2> QED BY <1>3, <2>1, SpendType DEF Refuse
<1>4. CASE SelectAgent
  <2>1. PICK a \in Agents :
          \/ sess' = Cleared(sess, a) /\ run' = [run EXCEPT !.changed = TRUE, !.force = TRUE]
          \/ sess' = [sess EXCEPT !.agent = a] /\ run' = run
    BY <1>4 DEF SelectAgent
  <2>2. [sess EXCEPT !.agent = a] \in Session /\ Cleared(sess, a) \in Session
    BY <1>4, ClearedType DEF SelectAgent, Session
  <2>3. [run EXCEPT !.changed = TRUE, !.force = TRUE] \in Run
    BY DEF Run
  <2> QED BY <1>4, <2>1, <2>2, <2>3 DEF SelectAgent
<1> QED BY <1>1, <1>2, <1>3, <1>4 DEF StartRun

LEMMA PreflightStep == ASSUME EntryIInv, Preflight \/ PreflightRun \/ Gateway PROVE EntryIInv'
<1> USE DEF EntryIInv, TypeOK, Underway, Selected, EntryWrites,
        EntryDescribesSandbox, Registered, Sandbox, Goto, world, RunPc
<1>1. {"preflight", "gateway"} \subseteq StepName
  BY DEF StepName
<1>2. pc # "idle" => [run EXCEPT !.prov = sess.prov] \in Run
  BY DEF Run, Session
<1>3. CASE Preflight
  BY <1>1, <1>3, SessionWrites DEF Preflight
<1>4. CASE PreflightRun
  BY <1>1, <1>4, SessionWrites DEF PreflightRun
<1>5. CASE GatewayReuse
  BY <1>1, <1>2, <1>5, SessionWrites DEF GatewayReuse
<1>6. CASE GatewayDestroy
  BY <1>6 DEF GatewayDestroy
<1>7. CASE GatewayStart
  BY <1>1, <1>7, SessionWrites DEF GatewayStart
<1>8. CASE GatewayUp
  BY <1>1, <1>2, <1>8, SessionWrites DEF GatewayUp
<1> QED BY <1>3, <1>4, <1>5, <1>6, <1>7, <1>8 DEF Gateway

LEMMA InferenceStep == ASSUME EntryIInv, Inference PROVE EntryIInv'
<1> USE BoundAssumption DEF EntryIInv, TypeOK, Underway, Selected, EntryWrites,
        EntryDescribesSandbox, Registered, Sandbox, Goto, world, RunPc, WithProv
<1>1. {"provider_selection", "inference"} \subseteq StepName
  BY DEF StepName
<1>2. run.prov \in Prov \cup {NoProv}
  BY DEF Run
<1>3. /\ \A b \in BOOLEAN :
           /\ [run EXCEPT !.setup = b] \in Run /\ [run EXCEPT !.setup = b].prov = run.prov
           /\ [run EXCEPT !.force = b] \in Run
      /\ \A p \in Prov : [run EXCEPT !.prov = p] \in Run /\ [run EXCEPT !.prov = p].prov = p
  BY DEF Run
<1>4. CASE Provider
  <2>1. CASE /\ pc = "provider" /\ pc' = "inference" /\ sess' = sess /\ run.prov # NoProv
             /\ \E b \in BOOLEAN : run' = [run EXCEPT !.setup = b]
    BY <1>2, <1>3, <1>4, <2>1 DEF Provider
  <2>2. CASE /\ pc = "provider" /\ pc' = "provider_run"
             /\ run' = [run EXCEPT !.setup = FALSE] /\ sess' = Started(sess, "provider_selection")
    <3>1. sess' \in Session
      BY <1>1, <1>2, <2>2, SessionWrites
    <3>2. run' \in Run
      BY <1>3, <2>2
    <3>3. UNCHANGED <<world, reg, used>>
      BY <1>4 DEF Provider
    <3> QED BY <2>2, <3>1, <3>2, <3>3
  <2> QED BY <1>4, <2>1, <2>2 DEF Provider
<1>5. CASE ProviderRun
  <2>1. PICK p \in Prov : /\ sess' = Completed(WithProv(p), "provider_selection")
                          /\ run' = [run EXCEPT !.prov = p]
    BY <1>5 DEF ProviderRun
  <2>2. [sess EXCEPT !.prov = p] \in Session
    BY <1>5, SessionWrites, <1>1 DEF ProviderRun
  <2>3. sess' \in Session
    BY <1>1, <2>1, <2>2, SessionWrites
  <2> QED BY <1>3, <1>5, <2>1, <2>3 DEF ProviderRun
<1>6. CASE InferenceReuse
  BY <1>1, <1>2, <1>6, SessionWrites DEF InferenceReuse, InferenceGoesOn
<1>7. CASE InferenceStart
  BY <1>1, <1>2, <1>7, SessionWrites DEF InferenceStart, InferenceGoesOn
<1>8. CASE InferenceSet
  BY <1>2, <1>8 DEF InferenceSet
<1>9. CASE InferenceRetry
  BY <1>3, <1>9, SpendType DEF InferenceRetry
<1>10. CASE InferenceReg
  BY <1>10 DEF InferenceReg, Entry
<1>11. CASE InferenceDone
  BY <1>1, <1>2, <1>11, SessionWrites DEF InferenceDone
<1> QED BY <1>4, <1>5, <1>6, <1>7, <1>8, <1>9, <1>10, <1>11 DEF Inference

LEMMA SandboxStep == ASSUME EntryIInv, CreateSandbox PROVE EntryIInv'
<1> USE DEF EntryIInv, TypeOK, Underway, Selected, EntryWrites,
        EntryDescribesSandbox, Registered, Sandbox, Goto, world, RunPc
<1>1. "sandbox" \in StepName /\ run.prov \in Prov \cup {NoProv}
  BY DEF StepName, Run
<1>2. ASSUME sess \in Session
      PROVE  /\ Started(WithProv(run.prov), "sandbox") \in Session
             /\ Completed(WithProv(run.prov), "sandbox") \in Session
             /\ \A b \in BOOLEAN : [sess EXCEPT !.presets = b] \in Session
             /\ sess.agent \in Agents
  <2>1. WithProv(run.prov) \in Session
    BY <1>1, <1>2, SessionWrites DEF WithProv
  <2> QED BY <1>1, <1>2, <2>1, SessionWrites DEF Session
<1>3. CASE SandboxReuse
  BY <1>3 DEF SandboxReuse
<1>4. CASE SandboxDiscard
  BY <1>4 DEF SandboxDiscard
<1>5. CASE SandboxStart
  BY <1>2, <1>5 DEF SandboxStart
<1>6. CASE CreateReuse
  BY <1>6 DEF CreateReuse, AgentDrift, Entry
<1>7. CASE CreateDecide
  <2>1. sess' \in Session
    <3>1. PICK keep \in BOOLEAN : sess' = [sess EXCEPT !.presets = keep /\ Registered /\ reg.policies]
      BY <1>7 DEF CreateDecide
    <3>2. (keep /\ Registered /\ reg.policies) \in BOOLEAN
      OBVIOUS
    <3> QED BY <1>2, <1>7, <3>1, <3>2 DEF CreateDecide
  <2> QED BY <1>7, <2>1 DEF CreateDecide
<1>8. CASE CreateDelete
  BY <1>8 DEF CreateDelete
<1>9. CASE CreateUnregister
  BY <1>9 DEF CreateUnregister
<1>10. CASE Build
  BY <1>2, <1>10 DEF Build, Box
<1>11. CASE Register
  BY <1>2, <1>11 DEF Register, Box, Entry
<1>12. CASE SandboxReg
  BY <1>2, <1>12 DEF SandboxReg, Entry
<1>13. CASE SandboxDone
  BY <1>2, <1>13 DEF SandboxDone
<1> QED BY <1>3, <1>4, <1>5, <1>6, <1>7, <1>8, <1>9, <1>10, <1>11, <1>12, <1>13 DEF CreateSandbox

LEMMA SetupSteps == ASSUME EntryIInv, AgentSetup PROVE EntryIInv'
<1> USE DEF EntryIInv, TypeOK, Underway, Selected, EntryWrites,
        EntryDescribesSandbox, Registered, Sandbox, Goto, world, RunPc
<1>1. run.prov \in Prov \cup {NoProv}
  BY DEF Run
<1>2. ASSUME sess \in Session
      PROVE  /\ Started(WithProv(run.prov), SetupStep(sess.agent)) \in Session
             /\ Completed(WithProv(run.prov), SetupStep(sess.agent)) \in Session
             /\ \A k \in {"openclaw", "agent_setup"} : Skipped(sess, k) \in Session
  <2>1. SetupStep(sess.agent) \in StepName /\ {"openclaw", "agent_setup"} \subseteq StepName
    BY <1>2, SetupStepType DEF Session, StepName
  <2>2. WithProv(run.prov) \in Session
    BY <1>1, <1>2, <2>1, SessionWrites DEF WithProv
  <2> QED BY <1>1, <1>2, <2>1, <2>2, SessionWrites
<1>3. CASE SetupReuse
  BY <1>3 DEF SetupReuse, ConfigSynced, Ready, Box
<1>4. CASE SetupStart
  BY <1>2, <1>4 DEF SetupStart
<1>5. CASE SetupRun
  BY <1>5 DEF SetupRun, ConfigSynced, Ready, Box
<1>6. CASE SetupDone
  BY <1>2, <1>6 DEF SetupDone
<1>7. CASE SetupSkip
  BY <1>2, <1>7 DEF SetupSkip
<1> QED BY <1>3, <1>4, <1>5, <1>6, <1>7 DEF AgentSetup

LEMMA PolicySteps == ASSUME EntryIInv, Policies PROVE EntryIInv'
<1> USE DEF EntryIInv, TypeOK, Underway, Selected, EntryWrites,
        EntryDescribesSandbox, Registered, Sandbox, Goto, world, RunPc
<1>1. "policies" \in StepName /\ run.prov \in Prov \cup {NoProv}
  BY DEF StepName, Run
<1>2. ASSUME sess \in Session
      PROVE  /\ Started(WithProv(run.prov), "policies") \in Session
             /\ Completed(WithProv(run.prov), "policies") \in Session
             /\ [sess EXCEPT !.presets = TRUE] \in Session
  <2>1. WithProv(run.prov) \in Session
    BY <1>1, <1>2, SessionWrites DEF WithProv
  <2> QED BY <1>1, <1>2, <2>1, SessionWrites DEF Session
<1>3. CASE PoliciesReuse
  BY <1>2, <1>3 DEF PoliciesReuse
<1>4. CASE PoliciesStart
  BY <1>2, <1>4 DEF PoliciesStart
<1>5. CASE PoliciesSelect
  BY <1>2, <1>5 DEF PoliciesSelect
<1>6. CASE PoliciesLive
  BY <1>6 DEF PoliciesLive, Ready, Box
<1>7. CASE PoliciesReg
  BY <1>7 DEF PoliciesReg, Entry
<1>8. CASE PoliciesDone
  BY <1>2, <1>8 DEF PoliciesDone
<1> QED BY <1>3, <1>4, <1>5, <1>6, <1>7, <1>8 DEF Policies

LEMMA LastSteps == ASSUME EntryIInv, Final \/ Failure PROVE EntryIInv'
<1> USE BoundAssumption, NoRunType DEF EntryIInv, TypeOK, Underway, Selected, EntryWrites,
        EntryDescribesSandbox, Registered, Sandbox, Goto, world, RunPc
<1>1. run.prov \in Prov \cup {NoProv} /\ "policies" \in StepName
  BY DEF Run, StepName
<1>2. CASE PostVerify
  BY <1>2 DEF PostVerify, Session, Machine
<1>3. CASE Complete
  BY <1>1, <1>3, SessionWrites DEF Complete
<1>4. CASE Return
  BY <1>4 DEF Return
<1>5. CASE Exit
  <2>1. sess' \in Session
    <3>1. sess \in Session /\ (sess.started = NoStep \/ sess.started \in StepName)
      BY <1>5 DEF Exit, Session
    <3> QED BY <1>1, <1>5, <3>1, SessionWrites DEF Exit
  <2> QED BY <1>5, <2>1, SpendType DEF Exit
<1>6. CASE Kill
  BY <1>6, SpendType DEF Kill
<1>7. CASE Drift
  <2>1. used' \in [{"runs", "stops", "drifts", "retries"} -> Nat]
    BY <1>7, SpendType DEF Drift
  <2>2. route' \in Prov \cup {NoProv} /\ gateway' \in {"up", "down"}
    BY <1>7 DEF Drift
  <2>3. box' = box \/ (box # NoBox /\ box' \in {NoBox, [box EXCEPT !.up = FALSE]})
    BY <1>7 DEF Drift
  <2>4. CASE box' = box
    BY <1>7, <2>1, <2>2, <2>4 DEF Drift
  <2>5. CASE box' = NoBox
    BY <1>7, <2>1, <2>2, <2>5 DEF Drift
  <2>6. CASE box # NoBox /\ box' = [box EXCEPT !.up = FALSE]
    <3>1. box' \in Box /\ box'.agent = box.agent /\ box'.policies = box.policies
      BY <2>6 DEF Box
    <3> QED BY <1>7, <2>1, <2>2, <2>6, <3>1 DEF Drift
  <2> QED BY <2>3, <2>4, <2>5, <2>6
<1> QED BY <1>2, <1>3, <1>4, <1>5, <1>6, <1>7 DEF Final, Failure

LEMMA EntryNext == EntryIInv /\ [Next]_vars => EntryIInv'
<1> SUFFICES ASSUME EntryIInv, [Next]_vars PROVE EntryIInv'
  OBVIOUS
<1>1. CASE UNCHANGED vars
  BY <1>1 DEF vars, world, EntryIInv, TypeOK, Underway, Selected, EntryWrites,
     EntryDescribesSandbox, Registered, Sandbox
<1>2. CASE Next
  BY <1>2, StartStep, PreflightStep, InferenceStep, SandboxStep, SetupSteps, PolicySteps,
     LastSteps DEF Next
<1> QED BY <1>1, <1>2

(***************************************************************************)
(* Theorems.                                                               *)
(***************************************************************************)
(* Whatever runs are started, resumed, refused, killed or exited, and      *)
(* however the world drifts between them: a run has a session, and at each *)
(* of its steps the entry and the sandbox are what the next write needs.   *)
THEOREM EntryInvariant == Spec => []EntryIInv
<1>1. Init => EntryIInv
  BY EntryInit
<1>2. EntryIInv /\ [Next]_vars => EntryIInv'
  BY EntryNext
<1> QED BY <1>1, <1>2, PTL DEF Spec

(* Type correctness of the onboarding run.                                 *)
THEOREM OnboardingTypeCorrect == Spec => []TypeOK
<1>1. EntryIInv => TypeOK
  BY DEF EntryIInv
<1> QED BY <1>1, EntryInvariant, PTL

(* The registry never describes another sandbox than the live one.         *)
THEOREM EntryCorrect == Spec => []EntryDescribesSandbox
<1>1. EntryIInv => EntryDescribesSandbox
  BY DEF EntryIInv
<1> QED BY <1>1, EntryInvariant, PTL

(***************************************************************************)
(* The record a run completes is true.                                     *)
(***************************************************************************)
(***************************************************************************)
(* What a run has behind it at each of its steps.                          *)
(***************************************************************************)
BeforeGateway   == {"idle", "agent", "preflight", "preflight_run"}
BeforeProvider  == BeforeGateway \cup {"gateway", "gateway_run"}
BeforeInference == BeforeProvider \cup {"provider", "provider_run"}
BeforeRoute     == BeforeInference \cup {"inference", "inference_run"}
BeforeSandbox   == BeforeRoute \cup {"inference_reg", "inference_done"}
BeforeBuilt     == BeforeSandbox \cup {"sandbox", "sandbox_start", "create", "delete", "unregister", "build"}
BeforeSetup     == BeforeBuilt \cup {"register", "sandbox_reg", "sandbox_done"}
BeforeConfig    == BeforeSetup \cup {"setup", "setup_run"}
BeforeSkip      == BeforeConfig \cup {"setup_done"}
BeforeLive      == BeforeSkip \cup {"setup_skip", "policies", "policies_run", "policies_live"}
BeforeFinal     == BeforeLive \cup {"policies_reg", "policies_done"}

Reached ==
  /\ pc \notin BeforeGateway => StepDone("preflight")
  /\ pc \notin BeforeProvider => StepDone("gateway") /\ gateway = "up"
  /\ pc \notin BeforeInference => StepDone("provider_selection")
  /\ pc \notin BeforeRoute => route = run.prov
  /\ pc \notin BeforeSandbox => StepDone("inference")
  /\ pc \notin BeforeBuilt => Sandbox /\ box.agent = sess.agent
  /\ pc \notin BeforeSetup => StepDone("sandbox")
  /\ pc \notin BeforeConfig => box.up /\ box.config = run.prov
  /\ pc \notin BeforeSkip => StepDone(SetupStep(sess.agent))
  /\ pc \notin BeforeLive => box.policies
  /\ pc \notin BeforeFinal => StepDone("policies")

(* A sandbox step recorded complete is about a sandbox of the session's    *)
(* agent: another agent resets the record, a new session has none.         *)
BuiltForAgent ==
  /\ StepDone("sandbox") /\ Sandbox => box.agent = sess.agent
  /\ pc = "agent" /\ ~run.resume => ~StepDone("sandbox")

DeliverIInv == EntryIInv /\ Reached /\ BuiltForAgent

LEMMA CompletedWrites ==
  ASSUME NEW s \in Session, NEW k \in StepName
  PROVE  /\ Completed(s, k) \in Session /\ Completed(s, k).agent = s.agent
         /\ \A j \in StepName : Completed(s, k).step[j] = IF j = k THEN "complete" ELSE s.step[j]
<1>1. After(k, s.agent) \in Machine
  BY AfterType DEF Session
<1>2. Completed(s, k).step = [s.step EXCEPT ![k] = "complete"] /\ Completed(s, k).agent = s.agent
  BY DEF Session, Completed
<1>3. Completed(s, k) \in Session
  BY <1>1 DEF Session, Completed
<1> QED BY <1>2, <1>3 DEF Session

LEMMA StartedWrites ==
  ASSUME NEW s \in Session, NEW k \in StepName
  PROVE  /\ Started(s, k) \in Session /\ Started(s, k).agent = s.agent
         /\ \A j \in StepName : Started(s, k).step[j] = IF j = k THEN "in_progress" ELSE s.step[j]
<1>1. Started(s, k).step = [s.step EXCEPT ![k] = "in_progress"] /\ Started(s, k).agent = s.agent
  BY DEF Session, Started
<1>2. Started(s, k) \in Session
  BY DEF Session, Started, Machine
<1> QED BY <1>1, <1>2 DEF Session

LEMMA FailedWrites ==
  ASSUME NEW s \in Session, NEW k \in StepName
  PROVE  /\ Failed(s, k).agent = s.agent
         /\ \A j \in StepName : Failed(s, k).step[j] = "complete" => s.step[j] = "complete"
<1>1. Failed(s, k).step = [s.step EXCEPT ![k] = "failed"] /\ Failed(s, k).agent = s.agent
  BY DEF Session, Failed
<1> QED BY <1>1 DEF Session

LEMMA SkippedWrites ==
  ASSUME NEW s \in Session, NEW k \in StepName
  PROVE  /\ Skipped(s, k) \in Session /\ Skipped(s, k).agent = s.agent
         /\ \A j \in StepName : j # k => Skipped(s, k).step[j] = s.step[j]
<1>1. Skipped(s, k) = s \/ Skipped(s, k) = [s EXCEPT !.step[k] = "skipped"]
  BY DEF Skipped
<1>2. [s EXCEPT !.step[k] = "skipped"].step = [s.step EXCEPT ![k] = "skipped"]
      /\ [s EXCEPT !.step[k] = "skipped"].agent = s.agent /\ [s EXCEPT !.step[k] = "skipped"] \in Session
  BY DEF Session
<1> QED BY <1>1, <1>2 DEF Session

(* A write of one step with the provider of the run.                       *)
LEMMA RunWrites ==
  ASSUME sess \in Session, run \in Run, NEW k \in StepName
  PROVE  /\ Completed(WithProv(run.prov), k).agent = sess.agent
         /\ Started(WithProv(run.prov), k).agent = sess.agent
         /\ \A j \in StepName :
              /\ Completed(WithProv(run.prov), k).step[j] = IF j = k THEN "complete" ELSE sess.step[j]
              /\ Started(WithProv(run.prov), k).step[j] = IF j = k THEN "in_progress" ELSE sess.step[j]
<1> DEFINE s == WithProv(run.prov)
<1>1. run.prov \in Prov \cup {NoProv}
  BY DEF Run
<1>2. s \in Session /\ s.agent = sess.agent /\ s.step = sess.step
  BY <1>1 DEF WithProv, Session
<1> HIDE DEF s
<1>3. /\ Completed(s, k).agent = s.agent
      /\ \A j \in StepName : Completed(s, k).step[j] = IF j = k THEN "complete" ELSE s.step[j]
  BY <1>2, CompletedWrites
<1>4. /\ Started(s, k).agent = s.agent
      /\ \A j \in StepName : Started(s, k).step[j] = IF j = k THEN "in_progress" ELSE s.step[j]
  BY <1>2, StartedWrites
<1> QED BY <1>2, <1>3, <1>4 DEF s

(***************************************************************************)
(* The steps of a run.                                                     *)
(***************************************************************************)
LEMMA DeliverInit == Init => Reached /\ BuiltForAgent
  BY DEF Init, Reached, BuiltForAgent, StepDone, BeforeGateway, BeforeProvider, BeforeInference, BeforeRoute,
         BeforeSandbox, BeforeBuilt, BeforeSetup, BeforeConfig, BeforeSkip, BeforeLive, BeforeFinal

(* A run before its gateway has nothing behind it.                         *)
LEMMA ReachedEarly ==
  ASSUME pc' \in BeforeGateway PROVE Reached'
  BY DEF Reached, BeforeGateway, BeforeProvider, BeforeInference, BeforeRoute,
         BeforeSandbox, BeforeBuilt, BeforeSetup, BeforeConfig, BeforeSkip, BeforeLive, BeforeFinal

(* A step within a place, or on to one of which no more is asked.          *)
LEMMA BuiltKept ==
  ASSUME BuiltForAgent, StepDone("sandbox")' => StepDone("sandbox"), sess'.agent = sess.agent \/ ~StepDone("sandbox"),
         box' = box \/ box' = NoBox \/ (Sandbox /\ box'.agent = box.agent), pc' # "agent"
  PROVE  BuiltForAgent'
  BY DEF BuiltForAgent, Sandbox

LEMMA DeliverStart ==
  ASSUME DeliverIInv, StartRun \/ Preflight \/ PreflightRun \/ Failure PROVE Reached' /\ BuiltForAgent'
<1> USE DEF DeliverIInv, Goto, world
<1>0. /\ "sandbox" \in StepName /\ "sandbox" \in AgentScoped /\ "preflight" \in StepName
      /\ "sandbox" # "preflight"
  BY DEF StepName, AgentScoped
<1>1. CASE Fresh
  <2>1. pc' = "agent" /\ sess' = NewSession
    BY <1>1 DEF Fresh
  <2>2. ~StepDone("sandbox")'
    BY <1>0, <2>1 DEF StepDone, NewSession
  <2>3. pc' \in BeforeGateway
    BY <2>1 DEF BeforeGateway
  <2> QED BY <2>2, <2>3, ReachedEarly DEF BuiltForAgent
<1>2. CASE Resume \/ Refuse
  <2>1. /\ sess' = [sess EXCEPT !.status = "in_progress"] /\ sess \in Session /\ UNCHANGED box
        /\ (pc' = "agent" /\ run'.resume) \/ pc' = "idle"
    BY <1>2 DEF Resume, Refuse, EntryIInv, TypeOK, NoRun
  <2>2. sess'.agent = sess.agent /\ sess'.step = sess.step
    BY <2>1 DEF Session
  <2>3. StepDone("sandbox")' => StepDone("sandbox")
    BY <2>1, <2>2, NoneAssumption DEF StepDone
  <2>4. pc' \in BeforeGateway
    BY <2>1 DEF BeforeGateway
  <2> QED BY <2>1, <2>2, <2>3, <2>4, ReachedEarly DEF BuiltForAgent, Sandbox
<1>3. CASE SelectAgent
  <2>1. pc = "agent" /\ pc' = "preflight" /\ UNCHANGED box /\ sess \in Session
    BY <1>3 DEF SelectAgent, EntryIInv, Underway
  <2>2. PICK a \in Agents : IF run.resume /\ a # sess.agent THEN sess' = Cleared(sess, a)
                            ELSE sess' = [sess EXCEPT !.agent = a]
    BY <1>3 DEF SelectAgent
  <2>3. Cleared(sess, a).step["sandbox"] = "pending"
    BY <1>0, <2>1 DEF Cleared, Session
  <2>4. [sess EXCEPT !.agent = a].agent = a /\ [sess EXCEPT !.agent = a].step = sess.step
    BY <2>1 DEF Session
  <2>5. \/ ~StepDone("sandbox")'
        \/ sess'.agent = sess.agent /\ (StepDone("sandbox")' => StepDone("sandbox"))
    <3>1. CASE run.resume /\ a # sess.agent
      BY <2>2, <2>3, <3>1 DEF StepDone
    <3>2. CASE ~run.resume
      BY <2>1, <2>2, <2>4, <3>2, NoneAssumption DEF StepDone, BuiltForAgent
    <3>3. CASE run.resume /\ a = sess.agent
      BY <2>1, <2>2, <2>4, <3>3, NoneAssumption DEF StepDone
    <3> QED BY <3>1, <3>2, <3>3
  <2>6. pc' \in BeforeGateway
    BY <2>1 DEF BeforeGateway
  <2> QED BY <2>1, <2>5, <2>6, ReachedEarly DEF BuiltForAgent, Sandbox
<1>4. CASE Preflight
  <2>1. sess \in Session /\ UNCHANGED <<box, run>> /\ pc = "preflight"
    BY <1>4 DEF Preflight, EntryIInv, Underway
  <2>2. \/ sess' = sess /\ pc' = "gateway" /\ StepDone("preflight")
        \/ sess' = Started(sess, "preflight") /\ pc' = "preflight_run"
    BY <1>4 DEF Preflight, ResumeDone
  <2>3. Started(sess, "preflight").agent = sess.agent
        /\ Started(sess, "preflight").step["sandbox"] = sess.step["sandbox"]
    BY <1>0, <2>1 DEF Started, Session
  <2>4. StepDone("sandbox")' => StepDone("sandbox")
    BY <2>1, <2>2, <2>3, NoneAssumption DEF StepDone
  <2>5. BuiltForAgent'
    BY <2>1, <2>2, <2>3, <2>4, BuiltKept
  <2>6. CASE pc' = "preflight_run"
    BY <2>5, <2>6, ReachedEarly DEF BeforeGateway
  <2>7. CASE sess' = sess /\ pc' = "gateway" /\ StepDone("preflight")
    <3>1. StepDone("preflight")'
      BY <2>7 DEF StepDone
    <3> QED BY <2>5, <2>7, <3>1 DEF Reached, BeforeGateway, BeforeProvider, BeforeInference, BeforeRoute,
         BeforeSandbox, BeforeBuilt, BeforeSetup, BeforeConfig, BeforeSkip, BeforeLive, BeforeFinal
  <2> QED BY <2>2, <2>6, <2>7
<1>5. CASE PreflightRun
  <2>1. /\ sess \in Session /\ UNCHANGED <<box, run>>
        /\ sess' = Completed(sess, "preflight") /\ pc' = "gateway"
    BY <1>5 DEF PreflightRun, EntryIInv, Underway
  <2>2. sess' \in Session /\ sess'.agent = sess.agent /\ sess'.step["preflight"] = "complete"
        /\ sess'.step["sandbox"] = sess.step["sandbox"]
    <3>1. /\ Completed(sess, "preflight") \in Session /\ Completed(sess, "preflight").agent = sess.agent
          /\ \A j \in StepName : Completed(sess, "preflight").step[j] = IF j = "preflight" THEN "complete" ELSE sess.step[j]
      BY <1>0, <2>1, CompletedWrites
    <3> QED BY <1>0, <2>1, <3>1
  <2>3. StepDone("preflight")' /\ (StepDone("sandbox")' => StepDone("sandbox"))
    BY <2>1, <2>2, NoneAssumption DEF StepDone
  <2>4. BuiltForAgent'
    BY <2>1, <2>2, <2>3, BuiltKept
  <2> QED BY <2>1, <2>3, <2>4 DEF Reached, BeforeGateway, BeforeProvider, BeforeInference, BeforeRoute,
         BeforeSandbox, BeforeBuilt, BeforeSetup, BeforeConfig, BeforeSkip, BeforeLive, BeforeFinal
<1>6. CASE Exit \/ Kill
  <2>1. /\ sess \in Session /\ UNCHANGED box /\ pc' = "idle"
        /\ sess' = sess \/ (sess.started # NoStep /\ sess' = Failed(sess, sess.started))
    BY <1>6 DEF Exit, Kill, EntryIInv, Underway
  <2>2. sess'.agent = sess.agent /\ (StepDone("sandbox")' => StepDone("sandbox"))
    <3>1. CASE sess' = sess
      BY <3>1 DEF StepDone
    <3>2. CASE sess.started # NoStep /\ sess' = Failed(sess, sess.started)
      <4>1. sess.started \in StepName
        BY <2>1, <3>2 DEF Session
      <4>2. sess'.agent = sess.agent /\ (sess'.step["sandbox"] = "complete" => sess.step["sandbox"] = "complete")
        BY <1>0, <2>1, <3>2, <4>1, FailedWrites
      <4> QED BY <2>1, <4>2, NoneAssumption DEF StepDone
    <3> QED BY <2>1, <3>1, <3>2
  <2>3. pc' \in BeforeGateway
    BY <2>1 DEF BeforeGateway
  <2> QED BY <2>1, <2>2, <2>3, ReachedEarly, BuiltKept
<1>7. CASE Drift
  <2>1. UNCHANGED <<sess, pc, run>> /\ pc = "idle"
    BY <1>7 DEF Drift
  <2>2. box' = box \/ box' = NoBox \/ (Sandbox /\ box' = [box EXCEPT !.up = FALSE])
    BY <1>7 DEF Drift
  <2>3. Sandbox => [box EXCEPT !.up = FALSE].agent = box.agent
    BY DEF Sandbox, EntryIInv, TypeOK, Box
  <2>4. StepDone("sandbox")' => StepDone("sandbox")
    BY <2>1 DEF StepDone
  <2>5. pc' \in BeforeGateway
    BY <2>1 DEF BeforeGateway
  <2> QED BY <2>1, <2>2, <2>3, <2>4, <2>5, ReachedEarly, BuiltKept
<1> QED BY <1>1, <1>2, <1>3, <1>4, <1>5, <1>6, <1>7 DEF StartRun, Failure

LEMMA DeliverGateway ==
  ASSUME DeliverIInv, Gateway PROVE Reached' /\ BuiltForAgent'
<1> USE DEF DeliverIInv, Goto, world
<1>0. {"gateway", "sandbox", "preflight"} \subseteq StepName /\ NoProv \in Prov \cup {NoProv}
  BY DEF StepName
<1>1. sess \in Session /\ pc \in {"gateway", "gateway_run"} /\ StepDone("preflight")
  BY DEF Gateway, GatewayReuse, GatewayDestroy, GatewayStart, GatewayUp, EntryIInv, Underway, Reached, BeforeGateway
<1>2. /\ sess' \in {sess, Completed(sess, "gateway"), Started(sess, "gateway")}
      /\ box' \in {box, NoBox}
      /\ pc' \in {"gateway", "gateway_run"} \/ (pc' = "provider" /\ sess' = Completed(sess, "gateway") /\ gateway' = "up")
  BY <1>1 DEF Gateway, GatewayReuse, GatewayDestroy, GatewayStart, GatewayUp
<1>3. /\ sess' \in Session /\ sess'.agent = sess.agent
      /\ \A j \in {"sandbox", "preflight"} : sess'.step[j] = sess.step[j]
      /\ sess' = Completed(sess, "gateway") => sess'.step["gateway"] = "complete"
  <2>1. /\ Completed(sess, "gateway") \in Session /\ Completed(sess, "gateway").agent = sess.agent
        /\ \A j \in StepName : Completed(sess, "gateway").step[j] = IF j = "gateway" THEN "complete" ELSE sess.step[j]
    BY <1>0, <1>1, CompletedWrites
  <2>2. /\ Started(sess, "gateway") \in Session /\ Started(sess, "gateway").agent = sess.agent
        /\ \A j \in StepName : Started(sess, "gateway").step[j] = IF j = "gateway" THEN "in_progress" ELSE sess.step[j]
    BY <1>0, <1>1, StartedWrites
  <2> QED BY <1>0, <1>1, <1>2, <2>1, <2>2
<1>4. /\ StepDone("preflight")' /\ (StepDone("sandbox")' => StepDone("sandbox"))
      /\ sess' = Completed(sess, "gateway") => StepDone("gateway")'
  BY <1>1, <1>3, NoneAssumption DEF StepDone
<1>5. BuiltForAgent'
  BY <1>2, <1>3, <1>4, BuiltKept
<1> QED BY <1>2, <1>4, <1>5 DEF Reached, BeforeGateway, BeforeProvider, BeforeInference, BeforeRoute,
         BeforeSandbox, BeforeBuilt, BeforeSetup, BeforeConfig, BeforeSkip, BeforeLive, BeforeFinal

(* Which steps are recorded complete after a write.                        *)
LEMMA RunTyped ==
  ASSUME sess \in Session, run \in Run
  PROVE  WithProv(run.prov) \in Session
  BY DEF WithProv, Session, Run

LEMMA CompletedDone ==
  ASSUME sess \in Session, run \in Run, NEW k \in StepName, sess' = Completed(WithProv(run.prov), k)
  PROVE  sess' \in Session /\ sess'.agent = sess.agent /\ \A j \in StepName : StepDone(j)' <=> (j = k \/ StepDone(j))
<1>1. sess' \in Session /\ sess # NoSession /\ sess' # NoSession
  BY RunTyped, CompletedWrites, NoneAssumption
<1> QED BY <1>1, RunWrites DEF StepDone

LEMMA StartedDone ==
  ASSUME sess \in Session, run \in Run, NEW k \in StepName, sess' = Started(WithProv(run.prov), k)
  PROVE  sess' \in Session /\ sess'.agent = sess.agent /\ \A j \in StepName : StepDone(j)' <=> (j # k /\ StepDone(j))
<1>1. sess' \in Session /\ sess # NoSession /\ sess' # NoSession
  BY RunTyped, StartedWrites, NoneAssumption
<1>2. \A j \in StepName : sess'.step[j] = IF j = k THEN "in_progress" ELSE sess.step[j]
  BY RunWrites
<1>3. sess'.agent = sess.agent
  BY RunWrites
<1>4. \A j \in StepName : StepDone(j)' <=> (j # k /\ StepDone(j))
  BY <1>1, <1>2 DEF StepDone
<1> QED BY <1>1, <1>3, <1>4

LEMMA SameDone ==
  ASSUME sess' = sess PROVE sess'.agent = sess.agent /\ \A j \in StepName : StepDone(j)' <=> StepDone(j)
  BY DEF StepDone

(* The record of what is behind a run that is past its gateway.            *)
LEMMA DeliverInference ==
  ASSUME DeliverIInv, Inference PROVE Reached' /\ BuiltForAgent'
<1> USE DEF DeliverIInv, Goto, world
<1>0. {"provider_selection", "inference", "sandbox", "preflight", "gateway"} \subseteq StepName
  BY DEF StepName
<1>1. /\ sess \in Session /\ run \in Run /\ UNCHANGED <<box, gateway>>
      /\ pc \in {"provider", "provider_run", "inference", "inference_run", "inference_reg", "inference_done"}
      /\ pc' \in {"provider", "provider_run", "inference", "inference_run", "inference_reg", "inference_done", "sandbox"}
  BY DEF Inference, Provider, ProviderRun, InferenceReuse, InferenceStart, InferenceSet, InferenceRetry,
         InferenceReg, InferenceDone, InferenceGoesOn, EntryIInv, TypeOK, Underway
<1>2. /\ StepDone("preflight") /\ StepDone("gateway") /\ gateway = "up"
      /\ pc \in {"inference", "inference_run", "inference_reg", "inference_done"} => StepDone("provider_selection")
      /\ pc \in {"inference_reg", "inference_done"} => route = run.prov
  BY <1>1 DEF Reached, BeforeGateway, BeforeProvider, BeforeInference, BeforeRoute
(* What is left to show.                                                   *)
<1>3. ASSUME /\ sess'.agent = sess.agent
             /\ StepDone("preflight")' /\ StepDone("gateway")' /\ (StepDone("sandbox")' => StepDone("sandbox"))
             /\ pc' \notin BeforeInference => StepDone("provider_selection")'
             /\ pc' \notin BeforeRoute => route' = run'.prov
             /\ pc' = "sandbox" => StepDone("inference")'
      PROVE  Reached' /\ BuiltForAgent'
  <2>1. BuiltForAgent'
    BY <1>1, <1>3, BuiltKept
  <2>2. Reached'
    BY <1>1, <1>2, <1>3 DEF Reached, BeforeGateway, BeforeProvider, BeforeInference, BeforeRoute,
        BeforeSandbox, BeforeBuilt, BeforeSetup, BeforeConfig, BeforeSkip, BeforeLive, BeforeFinal
  <2> QED BY <2>1, <2>2
<1>4. /\ {"provider", "provider_run"} \subseteq BeforeInference
      /\ {"provider", "provider_run", "inference", "inference_run"} \subseteq BeforeRoute
  BY DEF BeforeInference, BeforeRoute
<1>5. CASE Provider
  <2>1. CASE sess' = sess /\ pc' = "inference" /\ StepDone("provider_selection")
    BY <1>0, <1>2, <1>3, <1>4, <2>1, SameDone
  <2>2. CASE pc' = "provider_run" /\ sess' = Started(sess, "provider_selection")
    <3>1. /\ Started(sess, "provider_selection") \in Session
          /\ Started(sess, "provider_selection").agent = sess.agent
          /\ \A j \in StepName : Started(sess, "provider_selection").step[j]
                                   = IF j = "provider_selection" THEN "in_progress" ELSE sess.step[j]
      BY <1>0, <1>1, StartedWrites
    <3>2. StepDone("preflight")' /\ StepDone("gateway")' /\ (StepDone("sandbox")' => StepDone("sandbox"))
      BY <1>0, <1>1, <1>2, <2>2, <3>1, NoneAssumption DEF StepDone
    <3> QED BY <1>3, <1>4, <2>2, <3>1, <3>2
  <2> QED BY <1>5, <2>1, <2>2 DEF Provider, ResumeDone
<1>6. CASE ProviderRun
  <2>1. PICK p \in Prov : sess' = Completed(WithProv(p), "provider_selection") /\ pc' = "inference"
    BY <1>6 DEF ProviderRun
  <2>2. WithProv(p) \in Session /\ WithProv(p).agent = sess.agent /\ WithProv(p).step = sess.step
    BY <1>1 DEF WithProv, Session
  <2>3. /\ sess' \in Session /\ sess'.agent = sess.agent
        /\ \A j \in StepName : sess'.step[j] = IF j = "provider_selection" THEN "complete" ELSE sess.step[j]
    <3> DEFINE t == WithProv(p)
    <3> HIDE DEF t
    <3>1. t \in Session /\ t.agent = sess.agent /\ t.step = sess.step
      BY <2>2 DEF t
    <3>2. /\ Completed(t, "provider_selection") \in Session
          /\ Completed(t, "provider_selection").agent = t.agent
          /\ \A j \in StepName : Completed(t, "provider_selection").step[j]
                                   = IF j = "provider_selection" THEN "complete" ELSE t.step[j]
      BY <1>0, <3>1, CompletedWrites
    <3>3. sess' = Completed(t, "provider_selection")
      BY <2>1 DEF t
    <3> QED BY <3>1, <3>2, <3>3
  <2>4. /\ StepDone("preflight")' /\ StepDone("gateway")' /\ (StepDone("sandbox")' => StepDone("sandbox"))
        /\ StepDone("provider_selection")'
    BY <1>0, <1>1, <1>2, <2>3, NoneAssumption DEF StepDone
  <2> QED BY <1>3, <1>4, <2>1, <2>3, <2>4
<1>7. CASE InferenceReuse
  <2>1. /\ sess' = Completed(WithProv(run.prov), "inference") /\ route = run.prov
        /\ UNCHANGED <<route, run>> /\ pc = "inference"
    BY <1>7 DEF InferenceReuse, InferenceGoesOn
  <2> QED BY <1>0, <1>1, <1>2, <1>3, <2>1, CompletedDone
<1>8. CASE InferenceStart
  <2>1. sess' = Started(WithProv(run.prov), "inference") /\ pc' = "inference_run" /\ pc = "inference"
    BY <1>8 DEF InferenceStart, InferenceGoesOn
  <2> QED BY <1>0, <1>1, <1>2, <1>3, <1>4, <2>1, StartedDone
<1>9. CASE InferenceSet
  <2>1. sess' = sess /\ pc' = "inference_reg" /\ pc = "inference_run" /\ route' = run.prov /\ run' = run
    BY <1>9 DEF InferenceSet
  <2> QED BY <1>0, <1>2, <1>3, <2>1, SameDone
<1>10. CASE InferenceRetry
  <2>1. sess' = sess /\ pc' = "provider"
    BY <1>10 DEF InferenceRetry
  <2> QED BY <1>0, <1>2, <1>3, <1>4, <2>1, SameDone
<1>11. CASE InferenceReg
  <2>1. sess' = sess /\ pc' = "inference_done" /\ pc = "inference_reg" /\ UNCHANGED <<route, run>>
    BY <1>11 DEF InferenceReg
  <2> QED BY <1>0, <1>2, <1>3, <2>1, SameDone
<1>12. CASE InferenceDone
  <2>1. sess' = Completed(WithProv(run.prov), "inference") /\ pc = "inference_done" /\ UNCHANGED <<route, run>>
    BY <1>12 DEF InferenceDone
  <2> QED BY <1>0, <1>1, <1>2, <1>3, <2>1, CompletedDone
<1> QED BY <1>5, <1>6, <1>7, <1>8, <1>9, <1>10, <1>11, <1>12 DEF Inference

LEMMA DeliverSandbox ==
  ASSUME DeliverIInv, CreateSandbox PROVE Reached' /\ BuiltForAgent'
<1> USE DEF DeliverIInv, Goto, world
<1> DEFINE Places == {"sandbox", "sandbox_start", "create", "delete", "unregister", "build", "register",
                      "sandbox_reg", "sandbox_done"}
<1>0. {"provider_selection", "inference", "sandbox", "preflight", "gateway"} \subseteq StepName
  BY DEF StepName
<1>1. /\ sess \in Session /\ run \in Run /\ UNCHANGED <<run, gateway, route>>
      /\ pc \in Places /\ pc' \in Places \cup {"setup"}
  BY DEF CreateSandbox, SandboxReuse, SandboxDiscard, SandboxStart, CreateReuse, CreateDecide, CreateDelete,
         CreateUnregister, Build, Register, SandboxReg, SandboxDone, EntryIInv, TypeOK, Underway
<1>2. /\ StepDone("preflight") /\ StepDone("gateway") /\ gateway = "up"
      /\ StepDone("provider_selection") /\ StepDone("inference") /\ route = run.prov
      /\ pc \in {"register", "sandbox_reg", "sandbox_done"} => Sandbox /\ box.agent = sess.agent
  BY <1>1 DEF Reached, BeforeGateway, BeforeProvider, BeforeInference, BeforeRoute, BeforeSandbox, BeforeBuilt
<1>3. ASSUME /\ sess'.agent = sess.agent
             /\ StepDone("preflight")' /\ StepDone("gateway")' /\ StepDone("provider_selection")'
             /\ StepDone("inference")'
             /\ pc' \in {"register", "sandbox_reg", "sandbox_done", "setup"} => Sandbox' /\ box'.agent = sess.agent
             /\ pc' = "setup" => StepDone("sandbox")'
             /\ StepDone("sandbox")' /\ Sandbox' => box'.agent = sess.agent
      PROVE  Reached' /\ BuiltForAgent'
  <2>1. BuiltForAgent'
    BY <1>1, <1>3 DEF BuiltForAgent
  <2>2. Reached'
    BY <1>1, <1>2, <1>3 DEF Reached, BeforeGateway, BeforeProvider, BeforeInference, BeforeRoute,
        BeforeSandbox, BeforeBuilt, BeforeSetup, BeforeConfig, BeforeSkip, BeforeLive, BeforeFinal
  <2> QED BY <2>1, <2>2
<1>4. CASE sess' = sess /\ (box' = box \/ box' = NoBox) /\ pc' \in {"sandbox_start", "unregister", "build"}
  <2>1. StepDone("sandbox")' /\ Sandbox' => box'.agent = sess.agent
    BY <1>0, <1>4, SameDone DEF BuiltForAgent, Sandbox
  <2> QED BY <1>0, <1>2, <1>3, <1>4, <2>1, SameDone
<1>5. CASE SandboxReuse
  <2>1. sess' = sess /\ box' = box /\ pc' = "setup" /\ StepDone("sandbox") /\ Sandbox
    BY <1>5 DEF SandboxReuse, ResumeDone, Ready
  <2>2. Sandbox' /\ box'.agent = sess.agent
    BY <2>1 DEF BuiltForAgent, Sandbox
  <2> QED BY <1>0, <1>2, <1>3, <2>1, <2>2, SameDone
<1>6. CASE SandboxStart
  <2>1. sess' = Started(WithProv(run.prov), "sandbox") /\ pc' = "create" /\ box' = box
    BY <1>6 DEF SandboxStart
  <2>2. ~StepDone("sandbox")' /\ sess'.agent = sess.agent
        /\ \A j \in {"preflight", "gateway", "provider_selection", "inference"} : StepDone(j)' <=> StepDone(j)
    BY <1>0, <1>1, <2>1, StartedDone
  <2> QED BY <1>2, <1>3, <2>1, <2>2
<1>7. CASE CreateReuse
  <2>1. sess' = sess /\ box' = box /\ pc' = "sandbox_reg" /\ Sandbox /\ Registered /\ reg.agent = sess.agent
    BY <1>7 DEF CreateReuse, Ready, AgentDrift
  <2>2. Sandbox' /\ box'.agent = sess.agent
    BY <2>1 DEF EntryIInv, EntryDescribesSandbox, Sandbox
  <2> QED BY <1>0, <1>2, <1>3, <2>1, <2>2, SameDone
<1>8. CASE CreateDecide
  <2>1. PICK b : sess' = [sess EXCEPT !.presets = b]
    BY <1>8 DEF CreateDecide
  <2>2. sess'.agent = sess.agent /\ sess'.step = sess.step /\ sess' \in Session
    <3>1. sess' \in Session
      BY <1>8, EntryNext DEF CreateSandbox, Next, EntryIInv, Underway, CreateDecide
    <3> QED BY <1>1, <2>1, <3>1 DEF Session
  <2>3. \A j \in StepName : StepDone(j)' <=> StepDone(j)
    BY <1>1, <2>2, NoneAssumption DEF StepDone
  <2>4. box' = box /\ pc' = "delete"
    BY <1>8 DEF CreateDecide
  <2>5. StepDone("sandbox")' /\ Sandbox' => box'.agent = sess.agent
    BY <1>0, <2>3, <2>4 DEF BuiltForAgent, Sandbox
  <2> QED BY <1>0, <1>2, <1>3, <2>2, <2>3, <2>4, <2>5
<1>9. CASE Build
  <2>1. PICK boot \in BOOLEAN : box' = [built |-> run.prov, agent |-> sess.agent, up |-> TRUE, config |-> NoProv,
                                        policies |-> boot]
    BY <1>9 DEF Build
  <2>2. box' \in Box /\ box'.agent = sess.agent
    <3>1. Selected /\ pc = "build"
      BY <1>9 DEF Build, EntryIInv
    <3>2. run.prov \in Prov /\ sess.agent \in Agents
      BY <1>1, <3>1 DEF Selected, Session
    <3> QED BY <2>1, <3>2 DEF Box
  <2>3. Sandbox'
    BY <2>2, NoneAssumption DEF Sandbox
  <2>4. sess' = sess /\ pc' = "register"
    BY <1>9 DEF Build
  <2> QED BY <1>0, <1>2, <1>3, <2>2, <2>3, <2>4, SameDone
<1>10. CASE Register \/ SandboxReg
  <2>1. sess' = sess /\ box' = box /\ pc' \in {"sandbox_reg", "sandbox_done"} /\ pc \in {"register", "sandbox_reg"}
    BY <1>10 DEF Register, SandboxReg
  <2>2. Sandbox' /\ box'.agent = sess.agent
    BY <1>2, <2>1 DEF Sandbox
  <2> QED BY <1>0, <1>2, <1>3, <2>1, <2>2, SameDone
<1>11. CASE SandboxDone
  <2>1. sess' = Completed(WithProv(run.prov), "sandbox") /\ pc' = "setup" /\ box' = box /\ pc = "sandbox_done"
    BY <1>11 DEF SandboxDone
  <2>2. Sandbox' /\ box'.agent = sess.agent
    BY <1>2, <2>1 DEF Sandbox
  <2> QED BY <1>0, <1>1, <1>2, <1>3, <2>1, <2>2, CompletedDone
<1>12. QED
  <2>1. SandboxDiscard \/ CreateDelete \/ CreateUnregister => 
          sess' = sess /\ (box' = box \/ box' = NoBox) /\ pc' \in {"sandbox_start", "unregister", "build"}
    BY DEF SandboxDiscard, CreateDelete, CreateUnregister
  <2> QED BY <1>4, <1>5, <1>6, <1>7, <1>8, <1>9, <1>10, <1>11, <2>1 DEF CreateSandbox

(* The step that sets up the session's agent, the last steps' names.       *)
LEMMA LastNames ==
  /\ {"preflight", "gateway", "provider_selection", "inference", "sandbox", "policies"} \subseteq StepName
  /\ \A a : SetupStep(a) \in StepName
            \ {"preflight", "gateway", "provider_selection", "inference", "sandbox", "policies"}
  /\ {"openclaw", "agent_setup"} \subseteq StepName
  BY DEF StepName, SetupStep

(* What is behind a run that has its sandbox.                              *)
BehindSandbox ==
  /\ StepDone("preflight") /\ StepDone("gateway") /\ StepDone("provider_selection")
  /\ StepDone("inference") /\ StepDone("sandbox")
  /\ gateway = "up" /\ route = run.prov /\ Sandbox /\ box.agent = sess.agent

LEMMA BehindReached ==
  ASSUME Reached, pc \notin BeforeSetup PROVE BehindSandbox
  BY DEF Reached, BehindSandbox, BeforeGateway, BeforeProvider, BeforeInference, BeforeRoute, BeforeSandbox,
         BeforeBuilt, BeforeSetup

LEMMA ReachedBehind ==
  ASSUME BehindSandbox',
         (pc \notin BeforeConfig => box.up /\ box.config = run.prov)',
         (pc \notin BeforeSkip => StepDone(SetupStep(sess.agent)))',
         (pc \notin BeforeLive => box.policies)',
         (pc \notin BeforeFinal => StepDone("policies"))',
         pc' # "agent"
  PROVE  Reached' /\ BuiltForAgent'
  BY DEF Reached, BehindSandbox, BuiltForAgent

LEMMA DeliverSetup ==
  ASSUME DeliverIInv, AgentSetup PROVE Reached' /\ BuiltForAgent'
<1> USE DEF DeliverIInv, Goto, world
<1> DEFINE Places == {"setup", "setup_run", "setup_done", "setup_skip"}
<1>1. /\ sess \in Session /\ run \in Run /\ UNCHANGED <<run, gateway, route>>
      /\ pc \in Places /\ pc' \in Places \cup {"policies"}
  BY DEF AgentSetup, SetupReuse, SetupStart, SetupRun, SetupDone, SetupSkip, EntryIInv, TypeOK, Underway
<1>2. /\ BehindSandbox
      /\ pc \in {"setup_done", "setup_skip"} => box.up /\ box.config = run.prov
      /\ pc = "setup_skip" => StepDone(SetupStep(sess.agent))
  <2>1. pc \notin BeforeSetup
    BY <1>1 DEF BeforeGateway, BeforeProvider, BeforeInference, BeforeRoute, BeforeSandbox, BeforeBuilt, BeforeSetup
  <2>2. /\ pc \in {"setup_done", "setup_skip"} => pc \notin BeforeConfig
        /\ pc = "setup_skip" => pc \notin BeforeSkip
    BY DEF BeforeGateway, BeforeProvider, BeforeInference, BeforeRoute, BeforeSandbox, BeforeBuilt, BeforeSetup,
           BeforeConfig, BeforeSkip
  <2> QED BY <2>1, <2>2, BehindReached DEF Reached
<1>3. ASSUME /\ sess'.agent = sess.agent /\ Sandbox' /\ box'.agent = sess.agent
             /\ \A j \in {"preflight", "gateway", "provider_selection", "inference", "sandbox"} :
                  StepDone(j)' <=> StepDone(j)
             /\ pc' \in {"setup_done", "setup_skip", "policies"} => box'.up /\ box'.config = run.prov
             /\ pc' \in {"setup_skip", "policies"} => StepDone(SetupStep(sess.agent))'
      PROVE  Reached' /\ BuiltForAgent'
  <2>1. BehindSandbox'
    BY <1>1, <1>2, <1>3 DEF BehindSandbox
  <2>2. /\ pc' \in BeforeLive /\ pc' \in BeforeFinal /\ pc' # "agent"
        /\ pc' \in BeforeConfig \/ pc' \in {"setup_done", "setup_skip", "policies"}
        /\ pc' \in BeforeSkip \/ pc' \in {"setup_skip", "policies"}
    BY <1>1 DEF BeforeGateway, BeforeProvider, BeforeInference, BeforeRoute, BeforeSandbox, BeforeBuilt,
           BeforeSetup, BeforeConfig, BeforeSkip, BeforeLive, BeforeFinal
  <2> QED BY <1>1, <1>3, <2>1, <2>2, ReachedBehind
<1>4. CASE SetupReuse \/ SetupRun
  <2>1. /\ sess' = sess /\ pc' = "setup_done" /\ Sandbox /\ box.up
        /\ box' = [box EXCEPT !.config = run.prov]
    BY <1>4 DEF SetupReuse, SetupRun, Ready, ConfigSynced
  <2>2. box \in Box
    BY <2>1 DEF EntryIInv, TypeOK, Sandbox
  <2>3. box' \in Box /\ box'.agent = box.agent /\ box'.up /\ box'.config = run.prov
    BY <1>1, <2>1, <2>2 DEF Box, Run
  <2>4. Sandbox'
    BY <2>3, NoneAssumption DEF Sandbox
  <2> QED BY <1>2, <1>3, <2>1, <2>3, <2>4, SameDone, LastNames DEF BehindSandbox
<1>5. CASE SetupStart
  <2>1. sess' = Started(WithProv(run.prov), SetupStep(sess.agent)) /\ pc' = "setup_run" /\ box' = box
    BY <1>5 DEF SetupStart
  <2>2. sess'.agent = sess.agent
        /\ \A j \in StepName : StepDone(j)' <=> (j # SetupStep(sess.agent) /\ StepDone(j))
    BY <1>1, <2>1, StartedDone, LastNames
  <2> QED BY <1>2, <1>3, <2>1, <2>2, LastNames DEF BehindSandbox, Sandbox
<1>6. CASE SetupDone
  <2>1. /\ sess' = Completed(WithProv(run.prov), SetupStep(sess.agent))
        /\ pc = "setup_done" /\ pc' = "setup_skip" /\ box' = box
    BY <1>6 DEF SetupDone
  <2>2. sess'.agent = sess.agent
        /\ \A j \in StepName : StepDone(j)' <=> (j = SetupStep(sess.agent) \/ StepDone(j))
    BY <1>1, <2>1, CompletedDone, LastNames
  <2>3. StepDone(SetupStep(sess.agent))'
    <3>1. StepDone(SetupStep(sess.agent))' <=> (sess' # NoSession /\ sess'.step[SetupStep(sess'.agent)] = "complete")
      BY DEF StepDone
    <3>2. sess' # NoSession /\ sess'.step[SetupStep(sess.agent)] = "complete"
      <4> DEFINE k == SetupStep(sess.agent)
      <4>1. k \in StepName
        BY LastNames
      <4> HIDE DEF k
      <4>2. StepDone(k)' <=> (sess' # NoSession /\ sess'.step[k'] = "complete")
        BY DEF StepDone
      <4>3. sess' \in Session /\ sess'.step[k] = "complete"
        BY <1>1, <2>1, <4>1, RunTyped, RunWrites, CompletedWrites DEF k
      <4> QED BY <4>3, NoneAssumption DEF k
    <3> QED BY <2>2, <3>1, <3>2
  <2> QED BY <1>2, <1>3, <2>1, <2>2, <2>3, LastNames DEF BehindSandbox, Sandbox
<1>7. CASE SetupSkip
  <2>1. PICK k \in {"openclaw", "agent_setup"} \ {SetupStep(sess.agent)} : sess' = Skipped(sess, k)
    BY <1>7 DEF SetupSkip
  <2>2. pc = "setup_skip" /\ pc' = "policies" /\ box' = box
    BY <1>7 DEF SetupSkip
  <2>3. /\ sess' \in Session /\ sess'.agent = sess.agent
        /\ \A j \in StepName : j # k => sess'.step[j] = sess.step[j]
    BY <1>1, <2>1, LastNames, SkippedWrites
  <2>4. \A j \in {"preflight", "gateway", "provider_selection", "inference", "sandbox"} :
          StepDone(j)' <=> StepDone(j)
    BY <1>1, <2>3, LastNames, NoneAssumption DEF StepDone
  <2>5. StepDone(SetupStep(sess.agent))'
    BY <1>1, <1>2, <2>1, <2>2, <2>3, LastNames, NoneAssumption DEF StepDone
  <2> QED BY <1>2, <1>3, <2>2, <2>3, <2>4, <2>5 DEF BehindSandbox, Sandbox
<1> QED BY <1>4, <1>5, <1>6, <1>7 DEF AgentSetup

LEMMA DeliverPolicies ==
  ASSUME DeliverIInv, Policies PROVE Reached' /\ BuiltForAgent'
<1> USE DEF DeliverIInv, Goto, world
<1> DEFINE Places == {"policies", "policies_run", "policies_live", "policies_reg", "policies_done"}
<1>1. /\ sess \in Session /\ run \in Run /\ UNCHANGED <<run, gateway, route>>
      /\ pc \in Places /\ pc' \in Places \cup {"final"} /\ pc' # "policies"
  BY DEF Policies, PoliciesReuse, PoliciesStart, PoliciesSelect, PoliciesLive, PoliciesReg, PoliciesDone,
         EntryIInv, TypeOK, Underway
<1>2. /\ BehindSandbox /\ box.up /\ box.config = run.prov /\ StepDone(SetupStep(sess.agent))
      /\ pc \in {"policies_reg", "policies_done"} => box.policies
  <2>1. pc \notin BeforeSetup /\ pc \notin BeforeConfig /\ pc \notin BeforeSkip
    BY <1>1 DEF BeforeGateway, BeforeProvider, BeforeInference, BeforeRoute, BeforeSandbox, BeforeBuilt,
                BeforeSetup, BeforeConfig, BeforeSkip
  <2>2. pc \in {"policies_reg", "policies_done"} => pc \notin BeforeLive
    BY DEF BeforeGateway, BeforeProvider, BeforeInference, BeforeRoute, BeforeSandbox, BeforeBuilt, BeforeSetup,
           BeforeConfig, BeforeSkip, BeforeLive
  <2> QED BY <2>1, <2>2, BehindReached DEF Reached
<1>3. ASSUME /\ sess' \in Session /\ sess'.agent = sess.agent
             /\ \A j \in StepName \ {"policies"} : StepDone(j)' <=> StepDone(j)
             /\ box' \in Box /\ box'.agent = box.agent /\ box'.up = box.up /\ box'.config = box.config
             /\ pc' \in {"policies_reg", "policies_done", "final"} => box'.policies
             /\ pc' = "final" => sess'.step["policies"] = "complete"
      PROVE  Reached' /\ BuiltForAgent'
  <2>1. BehindSandbox'
    BY <1>1, <1>2, <1>3, LastNames, NoneAssumption DEF BehindSandbox, Sandbox
  <2>2. StepDone(SetupStep(sess.agent))'
    <3>1. SetupStep(sess.agent) \in StepName \ {"policies"}
      BY LastNames
    <3>2. sess.step[SetupStep(sess.agent)] = "complete"
      BY <1>2 DEF StepDone
    <3>3. \A j \in StepName \ {"policies"} : sess'.step[j] = "complete" <=> sess.step[j] = "complete"
      BY <1>1, <1>3, NoneAssumption DEF StepDone
    <3> QED BY <1>3, <3>1, <3>2, <3>3, NoneAssumption DEF StepDone
  <2>3. /\ pc' \in BeforeLive \/ pc' \in {"policies_reg", "policies_done", "final"}
        /\ pc' \in BeforeFinal \/ pc' = "final"
        /\ pc' # "agent"
    BY <1>1 DEF BeforeLive, BeforeFinal
  <2>4. pc' = "final" => StepDone("policies")'
    BY <1>3, NoneAssumption DEF StepDone
  <2> QED BY <1>1, <1>2, <1>3, <2>1, <2>2, <2>3, <2>4, ReachedBehind
<1>4. box \in Box
  BY <1>2 DEF BehindSandbox, Sandbox, EntryIInv, TypeOK
<1>5. \A j \in StepName : sess' = sess => (StepDone(j)' <=> StepDone(j))
  BY DEF StepDone
<1>6. CASE PoliciesReuse \/ PoliciesDone
  <2>1. sess' = Completed(WithProv(run.prov), "policies") /\ box' = box /\ pc' = "final"
    BY <1>6 DEF PoliciesReuse, PoliciesDone
  <2>2. box.policies
    <3>1. CASE PoliciesReuse
      BY <1>2, <3>1 DEF PoliciesReuse, EntryIInv, EntryDescribesSandbox, BehindSandbox
    <3>2. CASE PoliciesDone
      BY <1>2, <3>2 DEF PoliciesDone
    <3> QED BY <1>6, <3>1, <3>2
  <2>3. sess' \in Session /\ sess'.agent = sess.agent
        /\ \A j \in StepName : StepDone(j)' <=> (j = "policies" \/ StepDone(j))
    BY <1>1, <2>1, LastNames, CompletedDone
  <2>4. sess'.step["policies"] = "complete"
    BY <2>3, LastNames DEF StepDone
  <2> QED BY <1>3, <1>4, <2>1, <2>2, <2>3, <2>4
<1>7. CASE PoliciesStart
  <2>1. sess' = Started(WithProv(run.prov), "policies") /\ pc' = "policies_run" /\ box' = box
    BY <1>7 DEF PoliciesStart
  <2>2. sess' \in Session /\ sess'.agent = sess.agent
        /\ \A j \in StepName : StepDone(j)' <=> (j # "policies" /\ StepDone(j))
    BY <1>1, <2>1, LastNames, StartedDone
  <2> QED BY <1>3, <1>4, <2>1, <2>2
<1>8. CASE PoliciesSelect
  <2>1. sess' = [sess EXCEPT !.presets = TRUE] /\ pc' = "policies_live" /\ box' = box
    BY <1>8 DEF PoliciesSelect
  <2>2. sess' \in Session /\ sess'.agent = sess.agent /\ sess'.step = sess.step
    BY <1>1, <2>1 DEF Session
  <2>3. \A j \in StepName : StepDone(j)' <=> StepDone(j)
    BY <1>1, <2>2, NoneAssumption DEF StepDone
  <2> QED BY <1>3, <1>4, <2>1, <2>2, <2>3
<1>9. CASE PoliciesLive
  <2>1. /\ sess' = sess /\ pc' = "policies_reg"
        /\ box' = IF Registered /\ reg.policies THEN box ELSE [box EXCEPT !.policies = TRUE]
    BY <1>9 DEF PoliciesLive
  <2>2. Registered /\ reg.policies => box.policies
    BY <1>2 DEF EntryIInv, EntryDescribesSandbox, BehindSandbox
  <2>3. LET b == [box EXCEPT !.policies = TRUE]
        IN  b \in Box /\ b.agent = box.agent /\ b.up = box.up /\ b.config = box.config /\ b.policies
    BY <1>4 DEF Box
  <2>4. /\ box' \in Box /\ box'.agent = box.agent /\ box'.up = box.up /\ box'.config = box.config
        /\ box'.policies
    <3>1. CASE Registered /\ reg.policies
      BY <1>4, <2>1, <2>2, <3>1
    <3>2. CASE ~(Registered /\ reg.policies)
      BY <2>1, <2>3, <3>2
    <3> QED BY <3>1, <3>2
  <2> QED BY <1>1, <1>3, <1>5, <2>1, <2>4
<1>10. CASE PoliciesReg
  <2>1. sess' = sess /\ pc = "policies_reg" /\ pc' = "policies_done" /\ box' = box
    BY <1>10 DEF PoliciesReg
  <2> QED BY <1>1, <1>2, <1>3, <1>4, <1>5, <2>1
<1> QED BY <1>6, <1>7, <1>8, <1>9, <1>10 DEF Policies

LEMMA DeliverFinal ==
  ASSUME DeliverIInv, Final PROVE Reached' /\ BuiltForAgent'
<1> USE DEF DeliverIInv, Goto, world
<1>1. UNCHANGED box /\ pc' # "agent" /\ sess \in Session
  BY DEF Final, PostVerify, Complete, Return, EntryIInv, Underway
<1>2. sess'.step = sess.step /\ sess'.agent = sess.agent /\ sess' # NoSession
  <2>1. [sess EXCEPT !.machine = "post_verify"].step = sess.step
        /\ [sess EXCEPT !.machine = "post_verify"].agent = sess.agent
        /\ [sess EXCEPT !.machine = "post_verify"] \in Session
    BY <1>1 DEF Session, Machine
  <2>2. Finished(sess, run.prov).step = sess.step /\ Finished(sess, run.prov).agent = sess.agent
        /\ Finished(sess, run.prov) \in Session
    <3>1. run.prov \in Prov \cup {NoProv}
      BY DEF EntryIInv, TypeOK, Run
    <3> QED BY <1>1, <3>1 DEF Session, Finished, Machine
  <2>3. sess' \in {sess, [sess EXCEPT !.machine = "post_verify"], Finished(sess, run.prov)}
    BY DEF Final, PostVerify, Complete, Return
  <2> QED BY <1>1, <2>1, <2>2, <2>3, NoneAssumption
<1>3. \A j : StepDone(j)' <=> StepDone(j)
  BY <1>1, <1>2, NoneAssumption DEF StepDone
<1>4. BuiltForAgent'
  BY <1>1, <1>2, <1>3, BuiltKept
<1>5. CASE Return
  <2>1. pc' \in BeforeGateway
    BY <1>5 DEF Return, BeforeGateway
  <2> QED BY <1>4, <2>1, ReachedEarly
<1>6. CASE PostVerify \/ Complete
  <2>1. pc \in {"final", "verify"} /\ UNCHANGED <<gateway, route, run>>
    BY <1>6 DEF PostVerify, Complete
  <2>2. /\ StepDone("preflight") /\ StepDone("gateway") /\ gateway = "up" /\ StepDone("provider_selection")
        /\ route = run.prov /\ StepDone("inference") /\ Sandbox /\ box.agent = sess.agent /\ StepDone("sandbox")
        /\ box.up /\ box.config = run.prov /\ StepDone(SetupStep(sess.agent)) /\ box.policies
        /\ StepDone("policies")
    BY <2>1 DEF Reached, BeforeGateway, BeforeProvider, BeforeInference, BeforeRoute, BeforeSandbox,
       BeforeBuilt, BeforeSetup, BeforeConfig, BeforeSkip, BeforeLive, BeforeFinal
  <2>3. StepDone(SetupStep(sess.agent))'
    BY <1>1, <1>2, <2>2, NoneAssumption DEF StepDone
  <2> QED BY <1>1, <1>2, <1>3, <1>4, <2>1, <2>2, <2>3 DEF Reached, Sandbox
<1> QED BY <1>5, <1>6 DEF Final

LEMMA DeliverNext == DeliverIInv /\ [Next]_vars => DeliverIInv'
<1> SUFFICES ASSUME DeliverIInv, [Next]_vars PROVE DeliverIInv'
  OBVIOUS
<1>1. EntryIInv'
  BY EntryNext DEF DeliverIInv
<1>2. CASE UNCHANGED vars
  <2>1. Reached'
    BY <1>2 DEF vars, world, DeliverIInv, Reached, StepDone, Sandbox
  <2>2. BuiltForAgent'
    BY <1>2 DEF vars, world, DeliverIInv, BuiltForAgent, StepDone, Sandbox
  <2> QED BY <1>1, <2>1, <2>2 DEF DeliverIInv
<1>3. CASE Next
  <2>1. Reached' /\ BuiltForAgent'
    BY <1>3, DeliverStart, DeliverGateway, DeliverInference, DeliverSandbox, DeliverSetup, DeliverPolicies,
       DeliverFinal DEF Next
  <2> QED BY <1>1, <2>1 DEF DeliverIInv
<1> QED BY <1>2, <1>3

(* What each write does to the status.                                     *)
LEMMA StatusWrites ==
  ASSUME NEW s \in Session, NEW k \in StepName
  PROVE  /\ Started(s, k).status = "in_progress" /\ Failed(s, k).status = "failed"
         /\ Completed(s, k).status = s.status /\ Skipped(s, k).status = s.status
         /\ [s EXCEPT !.status = "in_progress"].status = "in_progress"
  BY DEF Session, Started, Failed, Completed, Skipped

LEMMA ProvStatus ==
  ASSUME sess \in Session, NEW p \in Prov \cup {NoProv}
  PROVE  WithProv(p) \in Session /\ WithProv(p).status = sess.status
  BY DEF Session, WithProv

(* Only the last write of a run makes its session complete.                *)
LEMMA OnlyComplete ==
  ASSUME EntryIInv, Next, ~Delivered, Delivered' PROVE Complete
<1> SUFFICES ASSUME ~Complete PROVE FALSE
  OBVIOUS
<1>1. sess' # NoSession /\ sess'.status = "complete" /\ (sess # NoSession => sess.status # "complete")
  BY DEF Delivered
<1>2. run \in Run /\ run.prov \in Prov \cup {NoProv}
  BY DEF EntryIInv, TypeOK, Run
<1>3. sess # NoSession => sess \in Session
  BY DEF EntryIInv, TypeOK
<1>4. sess' # sess
  BY <1>1
<1>5. CASE StartRun
  <2>1. ~Fresh
    BY <1>1 DEF Fresh, NewSession
  <2>2. ~(Resume \/ Refuse)
    <3>1. Resume \/ Refuse => sess \in Session /\ sess' = [sess EXCEPT !.status = "in_progress"]
      BY <1>3 DEF Resume, Refuse
    <3>2. sess \in Session => [sess EXCEPT !.status = "in_progress"].status = "in_progress"
      BY DEF Session
    <3> QED BY <1>1, <3>1, <3>2
  <2>3. ~SelectAgent
    <3> SUFFICES ASSUME SelectAgent PROVE FALSE
      OBVIOUS
    <3>1. sess \in Session
      BY DEF SelectAgent, Goto, EntryIInv, Underway
    <3>2. \A a \in Agents : Cleared(sess, a).status = sess.status /\ [sess EXCEPT !.agent = a].status = sess.status
      BY <3>1 DEF Cleared, Session
    <3>3. \E a \in Agents : sess' = Cleared(sess, a) \/ sess' = [sess EXCEPT !.agent = a]
      BY DEF SelectAgent
    <3> QED BY <1>1, <3>1, <3>2, <3>3, NoneAssumption
  <2> QED BY <1>5, <2>1, <2>2, <2>3 DEF StartRun
<1>6. CASE Failure
  <2>1. /\ sess.started # NoStep /\ sess' = Failed(sess, sess.started) /\ sess \in Session
    BY <1>4, <1>6 DEF Failure, Exit, Kill, Drift, EntryIInv, Underway
  <2>2. sess.started \in StepName
    BY <2>1 DEF Session
  <2> QED BY <1>1, <2>1, <2>2, StatusWrites
<1>7. CASE ~(StartRun \/ Failure)
  <2>1. sess \in Session
    <3>1. pc # "idle"
      BY <1>7 DEF Next, Preflight, PreflightRun, Gateway, GatewayReuse, GatewayDestroy, GatewayStart, GatewayUp,
         Inference, Provider, ProviderRun, InferenceReuse, InferenceGoesOn, InferenceStart, InferenceSet,
         InferenceRetry, InferenceReg, InferenceDone, CreateSandbox, SandboxReuse, SandboxDiscard, SandboxStart,
         CreateReuse, CreateDecide, CreateDelete, CreateUnregister, Build, Register, SandboxReg, SandboxDone,
         AgentSetup, SetupReuse, SetupStart, SetupRun, SetupDone, SetupSkip, Policies, PoliciesReuse,
         PoliciesStart, PoliciesSelect, PoliciesLive, PoliciesReg, PoliciesDone, Final, PostVerify, Complete,
         Return, Goto
    <3> QED BY <3>1 DEF EntryIInv, Underway
  <2>2. LET S == {sess} \cup {WithProv(p) : p \in Prov \cup {NoProv}}
        IN  \/ \E s \in S, k \in StepName : sess' \in {Started(s, k), Completed(s, k), Skipped(s, k)}
            \/ \E b \in BOOLEAN : sess' = [sess EXCEPT !.presets = b]
            \/ sess' = [sess EXCEPT !.machine = "post_verify"]
    <3> DEFINE S == {sess} \cup {WithProv(p) : p \in Prov \cup {NoProv}}
    <3>1. WithProv(run.prov) \in S /\ sess \in S /\ \A p \in Prov : WithProv(p) \in S
      BY <1>2
    <3> HIDE DEF S
    <3>2. CASE Preflight \/ PreflightRun \/ Gateway
      BY <1>4, <3>1, <3>2, LastNames DEF Preflight, PreflightRun, Gateway, GatewayReuse, GatewayDestroy,
         GatewayStart, GatewayUp
    <3>3. CASE Inference
      <4>1. PICK k \in {"provider_selection", "inference"}, p \in Prov \cup {NoProv} :
              sess' \in {Started(sess, k), Completed(WithProv(p), k), Started(WithProv(p), k)}
        BY <1>2, <1>4, <3>3 DEF Inference, Provider, ProviderRun, InferenceReuse, InferenceStart, InferenceSet,
           InferenceRetry, InferenceReg, InferenceDone
      <4>2. k \in StepName /\ WithProv(p) \in S
        BY LastNames DEF S
      <4> QED BY <3>1, <4>1, <4>2 DEF S
    <3>4. CASE CreateSandbox
      <4>1. \/ sess' \in {Started(WithProv(run.prov), "sandbox"), Completed(WithProv(run.prov), "sandbox")}
            \/ \E b \in BOOLEAN : sess' = [sess EXCEPT !.presets = b]
        <5>1. CASE CreateDecide
          <6>1. PICK keep \in BOOLEAN : sess' = [sess EXCEPT !.presets = keep /\ Registered /\ reg.policies]
            BY <5>1 DEF CreateDecide
          <6>2. (keep /\ Registered /\ reg.policies) \in BOOLEAN
            OBVIOUS
          <6> QED BY <6>1, <6>2
        <5>2. CASE ~CreateDecide
          BY <1>4, <3>4, <5>2 DEF CreateSandbox, SandboxReuse, SandboxDiscard, SandboxStart, CreateReuse,
             CreateDelete, CreateUnregister, Build, Register, SandboxReg, SandboxDone
        <5> QED BY <5>1, <5>2
      <4> QED BY <3>1, <4>1, LastNames DEF S
    <3>5. CASE AgentSetup
      <4>1. \/ sess' \in {Started(WithProv(run.prov), SetupStep(sess.agent)),
                          Completed(WithProv(run.prov), SetupStep(sess.agent))}
            \/ \E k \in {"openclaw", "agent_setup"} : sess' = Skipped(sess, k)
        BY <1>4, <3>5 DEF AgentSetup, SetupReuse, SetupStart, SetupRun, SetupDone, SetupSkip
      <4> QED BY <3>1, <4>1, LastNames DEF S
    <3>6. CASE Policies
      <4>1. \/ sess' \in {Started(WithProv(run.prov), "policies"), Completed(WithProv(run.prov), "policies")}
            \/ sess' = [sess EXCEPT !.presets = TRUE]
        BY <1>4, <3>6 DEF Policies, PoliciesReuse, PoliciesStart, PoliciesSelect, PoliciesLive, PoliciesReg,
           PoliciesDone
      <4> QED BY <3>1, <4>1, LastNames DEF S
    <3>7. CASE Final
      BY <1>4, <3>7 DEF Final, PostVerify, Return
    <3> QED BY <1>7, <3>2, <3>3, <3>4, <3>5, <3>6, <3>7 DEF Next, S
  <2>3. \A s \in {sess} \cup {WithProv(p) : p \in Prov \cup {NoProv}} : s \in Session /\ s.status = sess.status
    BY <2>1, ProvStatus
  <2>4. \A s \in {sess} \cup {WithProv(p) : p \in Prov \cup {NoProv}}, k \in StepName :
          /\ Started(s, k).status = "in_progress"
          /\ Completed(s, k).status = sess.status /\ Skipped(s, k).status = sess.status
    <3> SUFFICES ASSUME NEW s \in {sess} \cup {WithProv(p) : p \in Prov \cup {NoProv}}, NEW k \in StepName
                 PROVE  /\ Started(s, k).status = "in_progress"
                        /\ Completed(s, k).status = sess.status /\ Skipped(s, k).status = sess.status
      OBVIOUS
    <3>1. s \in Session /\ s.status = sess.status
      BY <2>3
    <3> QED BY <3>1, StatusWrites
  <2>5. /\ \A b \in BOOLEAN : [sess EXCEPT !.presets = b].status = sess.status
        /\ [sess EXCEPT !.machine = "post_verify"].status = sess.status
    BY <2>1 DEF Session
  <2>6. sess'.status \in {"in_progress", sess.status}
    BY <2>2, <2>4, <2>5
  <2> QED BY <1>1, <1>3, <2>1, <2>6, NoneAssumption
<1> QED BY <1>5, <1>6, <1>7

(* What the last write finds.                                              *)
LEMMA DeliverComplete ==
  ASSUME DeliverIInv, Complete
  PROVE  /\ \A k \in {"preflight", "gateway", "provider_selection", "inference", "sandbox",
                      SetupStep(sess.agent), "policies"} : sess.step[k] = "complete"
         /\ Ready /\ route = sess'.prov
         /\ box.agent = sess.agent /\ box.config = sess'.prov /\ box.policies
<1>1. pc = "verify" /\ sess \in Session
  BY DEF Complete, Goto, DeliverIInv, EntryIInv, Underway
<1>2. /\ StepDone("preflight") /\ StepDone("gateway") /\ gateway = "up" /\ StepDone("provider_selection")
      /\ route = run.prov /\ StepDone("inference") /\ Sandbox /\ box.agent = sess.agent /\ StepDone("sandbox")
      /\ box.up /\ box.config = run.prov /\ StepDone(SetupStep(sess.agent)) /\ box.policies
      /\ StepDone("policies")
  BY <1>1 DEF DeliverIInv, Reached, BeforeGateway, BeforeProvider, BeforeInference, BeforeRoute, BeforeSandbox,
     BeforeBuilt, BeforeSetup, BeforeConfig, BeforeSkip, BeforeLive, BeforeFinal
<1>3. sess'.prov = run.prov
  <2>1. Finished(sess, run.prov).prov = run.prov
    BY <1>1 DEF Finished, Session
  <2> QED BY <2>1 DEF Complete
<1>4. \A k \in {"preflight", "gateway", "provider_selection", "inference", "sandbox",
                SetupStep(sess.agent), "policies"} : sess.step[k] = "complete"
  BY <1>2 DEF StepDone
<1> QED BY <1>2, <1>3, <1>4 DEF Ready

(* A session is recorded as complete only by a run that finds, at its last *)
(* write, every step recorded complete, the gateway up with the session's  *)
(* provider on its route, and a ready sandbox of the session's agent,      *)
(* configured for that provider, with its presets applied -- whatever runs *)
(* before it were killed, failed, refused or resumed, and however the      *)
(* world drifted between them.                                             *)
THEOREM DeliverCorrect == Spec => DeliveredIsConfigured
<1>1. Init => DeliverIInv
  BY EntryInit, DeliverInit DEF DeliverIInv
<1>2. DeliverIInv /\ [Next]_vars
      => [~Delivered /\ Delivered' =>
            /\ \A k \in {"preflight", "gateway", "provider_selection", "inference", "sandbox",
                         SetupStep(sess.agent), "policies"} : sess.step[k] = "complete"
            /\ Ready /\ route = sess'.prov
            /\ box.agent = sess.agent /\ box.config = sess'.prov /\ box.policies]_vars
  <2> SUFFICES ASSUME DeliverIInv, Next, ~Delivered, Delivered'
               PROVE  /\ \A k \in {"preflight", "gateway", "provider_selection", "inference", "sandbox",
                                   SetupStep(sess.agent), "policies"} : sess.step[k] = "complete"
                      /\ Ready /\ route = sess'.prov
                      /\ box.agent = sess.agent /\ box.config = sess'.prov /\ box.policies
    OBVIOUS
  <2>1. Complete
    BY OnlyComplete DEF DeliverIInv
  <2> QED BY <2>1, DeliverComplete
<1> QED BY <1>1, <1>2, DeliverNext, PTL DEF Spec, DeliveredIsConfigured
==============================================================================
