--------------------------- MODULE InferenceProofs ---------------------------
(* Theorems about Inference, for every number of sandboxes, connects, keys *)
(* and processes, and about MCHost, which puts it beside what rebuilds,    *)
(* makes and saves a sandbox.                                              *)
EXTENDS MCHost, LifecycleProofs, SandboxProofs, TLAPS

(***************************************************************************)
(* The inductive invariant: where a command may be, given the helper of    *)
(* the host and its return, and what an onboarding holds in memory.        *)
(***************************************************************************)
Restarting  == {"kill", "spawn", "pid", "poll"}
RouterSteps == {"router", "stop", "reap", "start", "up", "recordpid"}
ToOnboard   == {"healthy", "token"}
ToConnect   == {"swap", "reset", "last"}

Placed(h, a, r) ==
  /\ r.pc \in {"await", "model", "check", "healthy", "token"} => h = "proxy"
  /\ r.pc \in {"adapter", "health", "keep"} => h = "adapter"
  /\ r.pc \in RouterSteps => h = "router" /\ r.ret \in {"upsert", "finish"}
  /\ r.pc \in Restarting \cup {"ensure"} =>
       \/ a = "onboard" /\ h = "proxy" /\ r.ret \in ToOnboard
       \/ a # "onboard" /\ r.ret \in ToConnect /\ (r.pc = "ensure" \/ h = "proxy")
       \/ /\ a = "onboard" /\ r.pc \in {"kill", "spawn", "pid"}
          /\ \/ h = "proxy" /\ r.ret = "await"
             \/ h = "adapter" /\ r.ret = "health"

(* Once there is a token on disk, the one about to be handed on is that.   *)
Holds(h, key, r) ==
  h = "proxy" =>
    /\ r.pc \in ToOnboard \/ (r.pc \in Restarting /\ r.ret \in ToOnboard)
         => key = NoSecret \/ r.mem = key
    /\ r.pc = "upsert" => r.mem = key

ActIn(h, key, f) ==
  /\ f \in [Actors -> Commands]
  /\ \A a \in Actors : Placed(h, a, f[a])
  /\ Holds(h, key, f["onboard"])

InferIInv == InferTypeOK /\ ActIn(helper, saved, act) /\ TokenIsGateways

(***************************************************************************)
(* What a step does to the commands.                                       *)
(***************************************************************************)
LEMMA NamesApart == "onboard" \notin Connects /\ NoSecret \notin Secrets /\ "onboard" \in Actors
  BY InferNames DEF Actors

LEMMA NoCommandIn == NoCommand \in Commands /\ \A h, key, a : Placed(h, a, NoCommand) /\ Holds(h, key, NoCommand)
<1>1. (CHOOSE b \in Sandboxes : TRUE) \in Sandboxes
  BY InferNames
<1>2. QED
  BY <1>1 DEF NoCommand, Commands, InferPc, Providers, Placed, Holds, Restarting, RouterSteps, ToOnboard

(* One command moves on.                                                   *)
LEMMA GoIn ==
  ASSUME ActIn(helper, saved, act), helper' = helper,
         NEW a \in Actors, NEW r \in Commands, Go(a, r), Placed(helper, a, r),
         IF a = "onboard" THEN Holds(helper, saved', r) ELSE saved' = saved
  PROVE  ActIn(helper', saved', act')
<1>1. act' \in [Actors -> Commands] /\ act'[a] = r /\ \A x \in Actors : x # a => act'[x] = act[x]
  BY DEF ActIn, Go
<1>2. QED
  BY <1>1, NamesApart DEF ActIn

LEMMA DisturbedIn ==
  ASSUME NEW r \in Commands
  PROVE  /\ Disturbed(r) \in Commands
         /\ \A h, a : Placed(h, a, r) => Placed(h, a, Disturbed(r))
         /\ \A h, key : Holds(h, key, r) => Holds(h, key, Disturbed(r))
<1>1. Disturbed(r) \in Commands /\ Disturbed(r).pc = r.pc /\ Disturbed(r).ret = r.ret /\ Disturbed(r).mem = r.mem
  BY DEF Disturbed, Commands
<1>2. QED
  BY <1>1 DEF Placed, Holds

(* One command moves on and disturbs the others.                           *)
LEMMA AloneIn ==
  ASSUME ActIn(helper, saved, act), helper' = helper,
         NEW a \in Actors, NEW r \in Commands, Alone(a, r), Placed(helper, a, r),
         IF a = "onboard" THEN Holds(helper, saved', r) ELSE saved' = saved
  PROVE  ActIn(helper', saved', act')
<1>1. /\ act' \in [Actors -> Commands] /\ act'[a] = r
      /\ \A x \in Actors : x # a => act'[x] = Disturbed(act[x])
  BY DisturbedIn DEF ActIn, Alone
<1>2. QED
  BY <1>1, DisturbedIn, NamesApart DEF ActIn

(* Some commands are disturbed.                                            *)
LEMMA AllIn ==
  ASSUME ActIn(helper, saved, act), UNCHANGED <<helper, saved>>,
         act' \in [Actors -> Commands],
         \A a \in Actors : act'[a] \in {act[a], Disturbed(act[a]), NoCommand}
  PROVE  ActIn(helper', saved', act')
  BY DisturbedIn, NoCommandIn, NamesApart DEF ActIn
(***************************************************************************)
(* Steps that are free of both conditions.                                 *)
(***************************************************************************)
Quiet == {"idle", "select", "record", "apply", "other", "route", "verify", "finish",
          "swap", "probe", "deps", "reset", "again", "last"}

LEMMA QuietIn ==
  ASSUME ActIn(helper, saved, act), NEW a \in Actors, helper' = helper, a = "onboard" \/ saved' = saved,
         NEW r \in Commands, Go(a, r) \/ Alone(a, r), r.pc \in Quiet
  PROVE  ActIn(helper', saved', act')
<1>1. Placed(helper, a, r) /\ Holds(helper, saved', r)
  BY DEF Placed, Holds, Restarting, RouterSteps, ToOnboard, Quiet
<1>2. QED
  BY <1>1, GoIn, AloneIn

LEMMA ToCommand ==
  ASSUME NEW r \in Commands, NEW pc \in InferPc
  PROVE  LET s == [r EXCEPT !.pc = pc]
         IN  s \in Commands /\ s.pc = pc /\ s.ret = r.ret /\ s.mem = r.mem
  BY DEF Commands

LEMMA ToIn ==
  ASSUME ActIn(helper, saved, act), NEW a \in Actors, UNCHANGED <<helper, saved>>,
         NEW pc \in Quiet, Go(a, To(a, pc)) \/ Alone(a, To(a, pc))
  PROVE  ActIn(helper', saved', act')
<1>1. act[a] \in Commands /\ pc \in InferPc
  BY DEF ActIn, Quiet, InferPc
<1>2. To(a, pc) \in Commands /\ To(a, pc).pc = pc
  BY <1>1, ToCommand DEF To
<1>3. QED
  BY <1>2, QuietIn

LEMMA ExitIn ==
  ASSUME ActIn(helper, saved, act), NEW a \in Actors, UNCHANGED <<helper, saved>>,
         Go(a, NoCommand) \/ Alone(a, NoCommand)
  PROVE  ActIn(helper', saved', act')
<1>1. NoCommand.pc \in Quiet
  BY DEF NoCommand, Quiet
<1>2. QED
  BY <1>1, NoCommandIn, QuietIn

LEMMA ReturnCommand ==
  ASSUME NEW a, act[a] \in Commands, NEW ok \in BOOLEAN
  PROVE  Return(a, ok) \in Commands /\ Return(a, ok).pc = act[a].ret /\ Return(a, ok).mem = act[a].mem
<1>1. act[a].ret \in InferPc /\ "idle" \in InferPc
  BY DEF Commands, InferPc
<1>2. (ok /\ act[a].calm) \in BOOLEAN
  BY DEF Commands
<1>3. QED
  BY <1>1, <1>2 DEF Return, Commands

(* The command of the onboarding.                                          *)
LEMMA MeIn ==
  ASSUME ActIn(helper, saved, act)
  PROVE  /\ O = "onboard" /\ O \in Actors /\ me \in Commands /\ act["onboard"] = me
         /\ Placed(helper, O, me) /\ Holds(helper, saved, me)
  BY NamesApart DEF ActIn, me, O

LEMMA PickIn ==
  ASSUME ActIn(helper, saved, act), NEW pc \in {"select", "record"}, NEW sel \in Providers,
         NEW named \in BOOLEAN, Pick(pc, sel, named)
  PROVE  ActIn(helper', saved', act')
<1> DEFINE r == [me EXCEPT !.pc = pc, !.sel = sel, !.named = named]
<1>1. r \in Commands /\ r.pc = pc
  BY MeIn DEF Commands, InferPc
<1>2. Go(O, r) /\ UNCHANGED <<helper, saved>>
  BY DEF Pick, World, SameHelper, keys
<1>3. r.pc \in Quiet
  BY <1>1 DEF Quiet
<1> HIDE DEF r
<1>4. QED
  BY <1>1, <1>2, <1>3, MeIn, QuietIn

LEMMA BackIn ==
  ASSUME ActIn(helper, saved, act), Go(O, Back), UNCHANGED <<helper, saved>>
  PROVE  ActIn(helper', saved', act')
<1>1. Back \in Commands /\ Back.pc = "select"
  BY MeIn DEF Back, Commands, InferPc
<1>2. Back.pc \in Quiet
  BY <1>1 DEF Quiet
<1>3. QED
  BY <1>1, <1>2, MeIn, QuietIn

LEMMA SelectIn ==
  ASSUME ActIn(helper, saved, act),
         \/ SelectRemote \/ SelectHermes \/ SelectVllm \/ SelectNim
         \/ SelectUnproxied \/ SelectBedrock \/ SelectRouted
  PROVE  ActIn(helper', saved', act')
<1>1. me.sel \in Providers /\ me.named \in BOOLEAN /\ {"other", "helper"} \subseteq Providers
  BY MeIn DEF Commands, Providers
<1>2. QED
  BY <1>1, PickIn DEF SelectRemote, SelectHermes, SelectVllm, SelectNim, SelectUnproxied,
                      SelectBedrock, SelectRouted

(***************************************************************************)
(* The onboarding.                                                         *)
(***************************************************************************)
LEMMA BeginIn ==
  ASSUME InferTypeOK, ActIn(helper, saved, act), BeginOnboard
  PROVE  ActIn(helper', saved', act')
<1>1. \E r \in Commands : Go(O, r) /\ r.pc \in Quiet
  <2>0. Strays(pidFile, saved) \in BOOLEAN /\ Strays(NoProc, NoSecret) \in BOOLEAN
    BY DEF Strays
  <2>1. CASE sess.open /\ Go(O, [NoCommand EXCEPT !.pc = IF sess.sel = "none" THEN "select" ELSE "apply",
                                   !.resume = TRUE, !.box = sess.box,
                                   !.sel = IF sess.sel = "none" THEN @ ELSE sess.sel,
                                   !.named = sess.sel # "none", !.calm = ~Strays(pidFile, saved)])
    <3>1. sess.sel \in Providers /\ sess.box \in Sandboxes
      BY DEF InferTypeOK
    <3> DEFINE pc == IF sess.sel = "none" THEN "select" ELSE "apply"
               sel == IF sess.sel = "none" THEN NoCommand.sel ELSE sess.sel
               calm == ~Strays(pidFile, saved)
               r == [NoCommand EXCEPT !.pc = pc, !.resume = TRUE, !.box = sess.box, !.sel = sel,
                                      !.named = sess.sel # "none", !.calm = calm]
    <3>2. pc \in Quiet /\ pc \in InferPc
      BY DEF Quiet, InferPc
    <3>3. sel \in Providers /\ calm \in BOOLEAN
      BY <2>0, <3>1, NoCommandIn DEF Commands
    <3>4. Go(O, r)
      BY <2>1
    <3> HIDE DEF pc, sel, calm
    <3>5. r \in Commands /\ r.pc = pc
      BY <3>1, <3>2, <3>3, NoCommandIn DEF Commands
    <3>6. QED
      BY <3>2, <3>4, <3>5
  <2>2. CASE \E b \in Sandboxes : Go(O, [NoCommand EXCEPT !.pc = "select", !.box = b,
                                                        !.calm = ~Strays(NoProc, NoSecret)])
    <3> DEFINE calm == ~Strays(NoProc, NoSecret)
    <3>1. PICK b \in Sandboxes : Go(O, [NoCommand EXCEPT !.pc = "select", !.box = b, !.calm = calm])
      BY <2>2
    <3>2. calm \in BOOLEAN
      BY <2>0
    <3> HIDE DEF calm
    <3>3. [NoCommand EXCEPT !.pc = "select", !.box = b, !.calm = calm] \in Commands
      BY <3>2, NoCommandIn DEF Commands, InferPc
    <3>4. [NoCommand EXCEPT !.pc = "select", !.box = b, !.calm = calm].pc \in Quiet
      BY NoCommandIn DEF Commands, Quiet
    <3>5. QED
      BY <3>1, <3>3, <3>4
  <2>3. QED
    BY <2>1, <2>2 DEF BeginOnboard
<1>2. helper' = helper
  BY DEF BeginOnboard
<1>3. QED
  BY <1>1, <1>2, MeIn, QuietIn

(* The command of the onboarding, sent to the helper's steps.              *)
LEMMA OnboardCalls ==
  ASSUME ActIn(helper, saved, act), NEW pc \in InferPc, NEW ret \in InferPc,
         NEW ready \in BOOLEAN, NEW child \in Procs \cup {NoProc},
         Go(O, [me EXCEPT !.pc = pc, !.ret = ret, !.ready = ready, !.child = child]),
         UNCHANGED <<helper, saved>>,
         \/ helper = "proxy" /\ pc = "ensure" /\ ret \in ToOnboard
         \/ helper = "proxy" /\ pc = "kill" /\ ret = "await"
         \/ helper = "adapter" /\ pc = "kill" /\ ret = "health"
         \/ helper = "router" /\ pc = "router" /\ ret \in {"upsert", "finish"}
  PROVE  ActIn(helper', saved', act')
<1> DEFINE r == [me EXCEPT !.pc = pc, !.ret = ret, !.ready = ready, !.child = child]
<1>1. r \in Commands /\ r.pc = pc /\ r.ret = ret
  BY MeIn DEF Commands
<1>2. Go(O, r)
  OBVIOUS
<1> HIDE DEF r
<1>3. Placed(helper, O, r) /\ Holds(helper, saved', r)
  BY <1>1, MeIn DEF Placed, Holds, Restarting, RouterSteps, ToOnboard
<1>4. QED
  BY <1>1, <1>2, <1>3, MeIn, GoIn

LEMMA CallIn ==
  ASSUME ActIn(helper, saved, act), NEW pc \in InferPc, NEW ret \in InferPc,
         Go(O, Call(O, pc, ret)) \/ Go(O, [me EXCEPT !.pc = pc, !.ret = ret, !.ready = FALSE]),
         UNCHANGED <<helper, saved>>,
         \/ helper = "proxy" /\ pc = "ensure" /\ ret \in ToOnboard
         \/ helper = "proxy" /\ pc = "kill" /\ ret = "await"
         \/ helper = "adapter" /\ pc = "kill" /\ ret = "health"
         \/ helper = "router" /\ pc = "router" /\ ret \in {"upsert", "finish"}
  PROVE  ActIn(helper', saved', act')
<1>1. me.ready \in BOOLEAN /\ me.child \in Procs \cup {NoProc}
  BY MeIn DEF Commands
<1>2. Call(O, pc, ret) = [me EXCEPT !.pc = pc, !.ret = ret, !.ready = me.ready, !.child = me.child]
  BY MeIn DEF Call, me, O, Commands
<1>3. [me EXCEPT !.pc = pc, !.ret = ret, !.ready = FALSE]
        = [me EXCEPT !.pc = pc, !.ret = ret, !.ready = FALSE, !.child = me.child]
  BY MeIn DEF Commands
<1>4. \E ready \in BOOLEAN, child \in Procs \cup {NoProc} :
        Go(O, [me EXCEPT !.pc = pc, !.ret = ret, !.ready = ready, !.child = child])
  <2>1. CASE Go(O, Call(O, pc, ret))
    BY <2>1, <1>1, <1>2
  <2>2. CASE Go(O, [me EXCEPT !.pc = pc, !.ret = ret, !.ready = FALSE])
    BY <2>2, <1>1, <1>3
  <2>3. QED
    BY <2>1, <2>2
<1>5. QED
  BY <1>4, OnboardCalls

(* A step of the onboarding that moves only to another place.              *)
LEMMA OnboardTo ==
  ASSUME ActIn(helper, saved, act), NEW pc \in InferPc, UNCHANGED helper,
         Go(O, To(O, pc)) \/ Alone(O, To(O, pc)),
         NEW r, r = To(O, pc), r.pc = pc /\ r.ret = me.ret /\ r.mem = me.mem => Placed(helper, O, r) /\ Holds(helper, saved', r)
  PROVE  ActIn(helper', saved', act')
<1>1. r \in Commands /\ r.pc = pc /\ r.ret = me.ret /\ r.mem = me.mem
  BY MeIn, ToCommand DEF To, me, O
<1>2. QED
  BY <1>1, MeIn, GoIn, AloneIn

LEMMA ProxyIn ==
  ASSUME ActIn(helper, saved, act), SelectOllama \/ CheckOllama \/ AwaitProxy \/ SelectModel
  PROVE  ActIn(helper', saved', act')
<1>0. UNCHANGED <<helper, saved>>
  BY DEF SelectOllama, CheckOllama, AwaitProxy, SelectModel, World, SameHelper, keys
<1>1. CASE SelectOllama
  BY <1>0, <1>1, CallIn DEF SelectOllama, InferPc
<1>2. CASE CheckOllama
  <2>1. helper = "proxy"
    BY <1>2, MeIn DEF CheckOllama, OnboardAt, Placed
  <2>2. \E ret \in ToOnboard : Go(O, Call(O, "ensure", ret))
    BY <1>2 DEF CheckOllama, ToOnboard
  <2>3. QED
    BY <1>0, <2>1, <2>2, CallIn DEF ToOnboard, InferPc
<1>3. CASE AwaitProxy
  <2> DEFINE r == [me EXCEPT !.pc = "model", !.sel = "helper", !.ret = "idle", !.child = NoProc]
  <2>1. r \in Commands /\ r.pc = "model"
    BY MeIn DEF Commands, InferPc, Providers
  <2>2. Go(O, r) /\ helper = "proxy"
    BY <1>3, MeIn DEF AwaitProxy, OnboardAt, Placed
  <2> HIDE DEF r
  <2>3. Placed(helper, O, r) /\ Holds(helper, saved', r)
    BY <2>1, <2>2 DEF Placed, Holds, Restarting, RouterSteps, ToOnboard
  <2>4. QED
    BY <1>0, <2>1, <2>2, <2>3, MeIn, GoIn
<1>4. CASE SelectModel
  <2>1. CASE Go(O, [me EXCEPT !.pc = "record", !.named = TRUE])
    <3> DEFINE r == [me EXCEPT !.pc = "record", !.named = TRUE]
    <3>1. r \in Commands /\ r.pc = "record" /\ Go(O, r)
      BY <2>1, MeIn DEF Commands, InferPc
    <3> HIDE DEF r
    <3>2. r.pc \in Quiet
      BY <3>1 DEF Quiet
    <3>3. QED
      BY <1>0, <3>1, <3>2, MeIn, QuietIn
  <2>2. CASE Go(O, To(O, "select"))
    BY <1>0, <2>2, MeIn, ToIn DEF Quiet
  <2>3. QED
    BY <1>4, <2>1, <2>2 DEF SelectModel
<1>5. QED
  BY <1>1, <1>2, <1>3, <1>4

LEMMA RecordIn ==
  ASSUME ActIn(helper, saved, act), RecordSelection \/ VerifyRoute \/ FinishInference
  PROVE  ActIn(helper', saved', act')
<1>1. UNCHANGED <<helper, saved>>
  BY DEF RecordSelection, VerifyRoute, FinishInference, World, SameHelper, keys
<1>2. \/ Go(O, To(O, "apply"))
      \/ Go(O, To(O, "finish"))
      \/ Go(O, NoCommand)
  BY DEF RecordSelection, VerifyRoute, FinishInference
<1>3. QED
  BY <1>1, <1>2, MeIn, ToIn, ExitIn DEF Quiet

LEMMA ApplyIn ==
  ASSUME InferTypeOK, ActIn(helper, saved, act), ApplySelection
  PROVE  ActIn(helper', saved', act')
<1>1. UNCHANGED <<helper, saved>> /\ helper \in {"proxy", "adapter", "router"}
  BY DEF ApplySelection, World, SameHelper, keys, InferTypeOK
<1>2. \/ \E pc \in {"finish", "other"} : Go(O, To(O, pc))
      \/ helper = "proxy" /\ Go(O, To(O, "check"))
      \/ helper = "adapter" /\ Go(O, To(O, "adapter"))
      \/ helper = "router" /\ \E ret \in {"upsert", "finish"} : Go(O, Call(O, "router", ret))
  BY <1>1 DEF ApplySelection
<1>3. CASE \E pc \in {"finish", "other"} : Go(O, To(O, pc))
  BY <1>1, <1>3, MeIn, ToIn DEF Quiet
<1>4. CASE helper = "router" /\ \E ret \in {"upsert", "finish"} : Go(O, Call(O, "router", ret))
  BY <1>1, <1>4, CallIn DEF InferPc
<1>5. CASE \/ helper = "proxy" /\ Go(O, To(O, "check"))
           \/ helper = "adapter" /\ Go(O, To(O, "adapter"))
  <2>1. PICK pc \in {"check", "adapter"} :
          Go(O, To(O, pc)) /\ helper = IF pc = "check" THEN "proxy" ELSE "adapter"
    BY <1>5
  <2>2. pc \in InferPc
    BY DEF InferPc
  <2>3. ASSUME NEW r, r.pc = pc  PROVE  Placed(helper, O, r) /\ Holds(helper, saved', r)
    BY <2>1, <2>3 DEF Placed, Holds, Restarting, RouterSteps, ToOnboard
  <2>4. QED
    BY <1>1, <2>1, <2>2, <2>3, OnboardTo
<1>6. QED
  BY <1>2, <1>3, <1>4, <1>5

LEMMA RouteIn ==
  ASSUME ActIn(helper, saved, act), SetupOther \/ ApplyRoute
  PROVE  ActIn(helper', saved', act')
<1>1. UNCHANGED <<helper, saved>>
  BY DEF SetupOther, ApplyRoute, World, SameHelper, keys
<1>2. Go(O, Back) \/ Alone(O, To(O, "verify"))
  BY DEF SetupOther, ApplyRoute
<1>3. QED
  BY <1>1, <1>2, MeIn, ToIn, BackIn DEF Quiet

(* The token of the proxy.                                                 *)
LEMMA TokenIn ==
  ASSUME InferTypeOK, ActIn(helper, saved, act), ProxyHealthy \/ PersistToken
  PROVE  ActIn(helper', saved', act')
<1>1. helper = "proxy" /\ helper' = helper
  BY MeIn DEF ProxyHealthy, PersistToken, OnboardAt, Placed, World
<1>2. saved = NoSecret \/ me.mem = saved
  BY <1>1, MeIn DEF ProxyHealthy, PersistToken, OnboardAt, Holds, ToOnboard
<1>3. CASE ProxyHealthy
  <2>1. saved' = saved /\ Go(O, To(O, "token")) /\ "token" \in InferPc
    BY <1>3 DEF ProxyHealthy, SameHelper, keys, InferPc
  <2>2. ASSUME NEW r, r.pc = "token", r.mem = me.mem
        PROVE  Placed(helper, O, r) /\ Holds(helper, saved', r)
    BY <1>1, <1>2, <2>1, <2>2 DEF Placed, Holds, Restarting, RouterSteps, ToOnboard
  <2>3. QED
    BY <1>1, <2>1, <2>2, OnboardTo
<1>4. CASE PersistToken
  <2> DEFINE r == [me EXCEPT !.pc = "upsert", !.mem = Token]
  <2>1. Token \in Secrets \cup {NoSecret}
    BY MeIn DEF Token, Commands, InferTypeOK
  <2>2. r \in Commands /\ r.pc = "upsert" /\ r.mem = Token
    BY <2>1, MeIn DEF Commands, InferPc
  <2>3. Go(O, r) /\ saved' = Token
    BY <1>4 DEF PersistToken
  <2> HIDE DEF r
  <2>4. Placed(helper, O, r) /\ Holds(helper, saved', r)
    BY <1>1, <2>2, <2>3 DEF Placed, Holds, Restarting, RouterSteps, ToOnboard
  <2>5. QED
    BY <1>1, <2>2, <2>3, <2>4, MeIn, GoIn
<1>5. QED
  BY <1>3, <1>4

(***************************************************************************)
(* The adapter, the router and the upsert.                                 *)
(***************************************************************************)
LEMMA UnproxiedIn ==
  ASSUME ActIn(helper, saved, act), UNCHANGED helper, helper # "proxy",
         NEW r \in Commands, Go(O, r) \/ Alone(O, r),
         \/ r.pc \in Quiet \cup {"upsert"}
         \/ r.pc \in {"adapter", "health", "keep"} /\ helper = "adapter"
         \/ r.pc \in RouterSteps /\ helper = "router" /\ r.ret \in {"upsert", "finish"}
  PROVE  ActIn(helper', saved', act')
<1>1. Placed(helper, O, r) /\ Holds(helper, saved', r)
  BY DEF Placed, Holds, Restarting, RouterSteps, ToOnboard, Quiet
<1>2. QED
  BY <1>1, MeIn, GoIn, AloneIn

LEMMA AdapterIn ==
  ASSUME InferTypeOK, ActIn(helper, saved, act), EnsureAdapter \/ AwaitAdapter \/ KeepAdapterToken
  PROVE  ActIn(helper', saved', act')
<1>1. helper = "adapter" /\ helper' = helper
  BY MeIn DEF EnsureAdapter, AwaitAdapter, KeepAdapterToken, OnboardAt, Placed, World
<1>2. me.calm \in BOOLEAN /\ saved \in Secrets \cup {NoSecret} /\ {"upsert", "idle", "keep", "kill", "health"} \subseteq InferPc
  BY MeIn DEF Commands, InferTypeOK, InferPc
<1>3. CASE EnsureAdapter
  <2>1. saved' = saved
    BY <1>3 DEF EnsureAdapter, SameHelper, keys
  <2>2. CASE Go(O, Call(O, "kill", "health"))
    BY <1>1, <1>2, <2>1, <2>2, CallIn
  <2>3. CASE Go(O, [me EXCEPT !.pc = "upsert", !.mem = saved, !.ready = me.calm])
    <3> DEFINE r == [me EXCEPT !.pc = "upsert", !.mem = saved, !.ready = me.calm]
    <3>1. r \in Commands /\ r.pc = "upsert"
      BY <1>2, MeIn DEF Commands
    <3>2. Go(O, r)
      BY <2>3
    <3> HIDE DEF r
    <3>3. QED
      BY <1>1, <3>1, <3>2, UnproxiedIn
  <2>4. QED
    BY <1>3, <2>2, <2>3 DEF EnsureAdapter
<1>4. CASE AwaitAdapter
  <2>1. UNCHANGED <<helper, saved>>
    BY <1>1, <1>4 DEF AwaitAdapter, SameHelper, keys
  <2>2. CASE Go(O, Back)
    BY <2>1, <2>2, BackIn
  <2>3. CASE Go(O, To(O, "keep"))
    <3>1. To(O, "keep") \in Commands /\ To(O, "keep").pc = "keep"
      BY <1>2, MeIn, ToCommand DEF To, me, O
    <3>2. QED
      BY <1>1, <2>3, <3>1, UnproxiedIn
  <2>4. QED
    BY <1>4, <2>2, <2>3 DEF AwaitAdapter
<1>5. CASE KeepAdapterToken
  <2> DEFINE r == [me EXCEPT !.pc = "upsert", !.ret = "idle", !.child = NoProc, !.ready = me.calm]
  <2>1. r \in Commands /\ r.pc = "upsert"
    BY <1>2, MeIn DEF Commands
  <2>2. Go(O, r)
    BY <1>5 DEF KeepAdapterToken
  <2> HIDE DEF r
  <2>3. QED
    BY <1>1, <2>1, <2>2, UnproxiedIn
<1>6. QED
  BY <1>3, <1>4, <1>5

LEMMA ReconcileIn ==
  ASSUME InferTypeOK, ActIn(helper, saved, act), ReconcileRouter
  PROVE  ActIn(helper', saved', act')
<1>1. helper = "router" /\ UNCHANGED <<helper, saved>> /\ me.ret \in {"upsert", "finish"}
  BY MeIn DEF ReconcileRouter, OnboardAt, Placed, World, SameHelper, keys, RouterSteps
<1>2. PICK key \in Secrets :
        \/ \E pc \in {"start", "stop"} : Go(O, [me EXCEPT !.mem = key, !.child = pidFile, !.pc = pc])
        \/ Go(O, [Return(O, TRUE) EXCEPT !.mem = key])
  BY Zenon DEF ReconcileRouter
<1>3. CASE \E pc \in {"start", "stop"} : Go(O, [me EXCEPT !.mem = key, !.child = pidFile, !.pc = pc])
  <2>1. PICK pc \in {"start", "stop"} : Go(O, [me EXCEPT !.mem = key, !.child = pidFile, !.pc = pc])
    BY <1>3
  <2> DEFINE r == [me EXCEPT !.mem = key, !.child = pidFile, !.pc = pc]
  <2>2. pidFile \in Procs \cup {NoProc} /\ pc \in InferPc
    BY DEF InferTypeOK, InferPc
  <2>3. r \in Commands /\ r.pc = pc /\ r.ret = me.ret
    BY <2>2, MeIn DEF Commands
  <2>4. Go(O, r) /\ pc \in RouterSteps
    BY <2>1 DEF RouterSteps
  <2> HIDE DEF r
  <2>5. QED
    BY <1>1, <2>3, <2>4, UnproxiedIn
<1>4. CASE Go(O, [Return(O, TRUE) EXCEPT !.mem = key])
  <2> DEFINE r == [Return(O, TRUE) EXCEPT !.mem = key]
  <2>1. Return(O, TRUE) \in Commands /\ Return(O, TRUE).pc = me.ret
    BY MeIn, ReturnCommand DEF O
  <2>2. r \in Commands /\ r.pc = me.ret
    BY <2>1 DEF Commands
  <2>3. Go(O, r) /\ me.ret \in Quiet \cup {"upsert"}
    BY <1>1, <1>4 DEF Quiet
  <2> HIDE DEF r
  <2>4. QED
    BY <1>1, <2>2, <2>3, UnproxiedIn
<1>5. QED
  BY <1>2, <1>3, <1>4

LEMMA RouterIn ==
  ASSUME ActIn(helper, saved, act), StopRouter \/ ReapRouter \/ StartRouter \/ RouterUp \/ RecordRouter
  PROVE  ActIn(helper', saved', act')
<1>1. helper = "router" /\ UNCHANGED helper /\ me.ret \in {"upsert", "finish"}
  BY MeIn DEF StopRouter, ReapRouter, StartRouter, RouterUp, RecordRouter, OnboardAt, Placed, World, RouterSteps
<1>2. CASE \E pc \in {"reap", "start", "recordpid"} : Go(O, To(O, pc)) \/ Alone(O, To(O, pc))
  <2>1. PICK pc \in {"reap", "start", "recordpid"} : Go(O, To(O, pc)) \/ Alone(O, To(O, pc))
    BY <1>2
  <2>2. pc \in InferPc /\ pc \in RouterSteps
    BY DEF InferPc, RouterSteps
  <2>3. To(O, pc) \in Commands /\ To(O, pc).pc = pc /\ To(O, pc).ret = me.ret
    BY <2>2, MeIn, ToCommand DEF To, me, O
  <2>4. QED
    BY <1>1, <2>1, <2>2, <2>3, UnproxiedIn
<1>3. CASE StartRouter
  <2>1. PICK p \in Procs : Alone(O, [me EXCEPT !.pc = "up", !.child = p])
    BY <1>3 DEF StartRouter
  <2> DEFINE r == [me EXCEPT !.pc = "up", !.child = p]
  <2>2. r \in Commands /\ r.pc = "up" /\ r.ret = me.ret
    BY MeIn DEF Commands, InferPc
  <2>3. Alone(O, r) /\ "up" \in RouterSteps
    BY <2>1 DEF RouterSteps
  <2> HIDE DEF r
  <2>4. QED
    BY <1>1, <2>2, <2>3, UnproxiedIn
<1>4. CASE RecordRouter
  <2>1. Return(O, TRUE) \in Commands /\ Return(O, TRUE).pc = me.ret
    BY MeIn, ReturnCommand DEF O
  <2>2. me.ret \in Quiet \cup {"upsert"} /\ Go(O, Return(O, TRUE))
    BY <1>1, <1>4 DEF Quiet, RecordRouter
  <2>3. QED
    BY <1>1, <2>1, <2>2, UnproxiedIn
<1>5. CASE Alone(O, NoCommand) /\ saved' = saved
  BY <1>1, <1>5, MeIn, ExitIn
<1>6. QED
  BY <1>2, <1>3, <1>4, <1>5 DEF StopRouter, ReapRouter, RouterUp, keys

LEMMA UpsertIn ==
  ASSUME InferTypeOK, ActIn(helper, saved, act), UpsertHelper
  PROVE  ActIn(helper', saved', act')
<1>1. UNCHANGED <<helper, saved>>
  BY DEF UpsertHelper, World
<1>2. CASE Go(O, Back)
  BY <1>1, <1>2, BackIn
<1>3. CASE Go(O, [me EXCEPT !.pc = "route", !.mem = NoSecret])
  <2> DEFINE r == [me EXCEPT !.pc = "route", !.mem = NoSecret]
  <2>1. r \in Commands /\ r.pc = "route"
    BY MeIn DEF Commands, InferPc
  <2>2. Go(O, r) /\ "route" \in Quiet
    BY <1>3 DEF Quiet
  <2> HIDE DEF r
  <2>3. QED
    BY <1>1, <2>1, <2>2, MeIn, QuietIn
<1>4. QED
  BY <1>2, <1>3 DEF UpsertHelper

(***************************************************************************)
(* The connect, and the steps that restart the proxy or the adapter.       *)
(***************************************************************************)
LEMMA ConnectIn ==
  ASSUME InferTypeOK, ActIn(helper, saved, act), NEW c \in Connects, ConnectInfers(c)
  PROVE  ActIn(helper', saved', act')
<1>1. UNCHANGED <<helper, saved>> /\ c \in Actors /\ c # "onboard" /\ act[c] \in Commands
  BY NamesApart
     DEF ConnectInfers, BeginConnect, SwapRoute, RepairRoute, VerifyDependencies, ResetRoute,
         World, SameHelper, keys, Actors, ActIn
<1>2. CASE BeginConnect(c)
  <2>1. PICK b \in Sandboxes, pc \in {"ensure", "swap"} :
          Go(c, [NoCommand EXCEPT !.pc = pc, !.ret = "swap", !.box = b])
    BY <1>2 DEF BeginConnect
  <2> DEFINE r == [NoCommand EXCEPT !.pc = pc, !.ret = "swap", !.box = b]
  <2>2. r \in Commands /\ r.pc = pc /\ r.ret = "swap"
    BY NoCommandIn DEF Commands, InferPc
  <2>3. Go(c, r)
    BY <2>1
  <2> HIDE DEF r
  <2>4. Placed(helper, c, r)
    BY <1>1, <2>2 DEF Placed, Restarting, RouterSteps, ToConnect
  <2>5. QED
    BY <1>1, <2>2, <2>3, <2>4, GoIn
<1>3. CASE SwapRoute(c)
  <2> DEFINE r == [act[c] EXCEPT !.pc = "probe", !.sel = providerOf[act[c].box], !.mem = NoSecret]
  <2>1. providerOf[act[c].box] \in Providers
    BY <1>1 DEF InferTypeOK, Commands
  <2>2. r \in Commands /\ r.pc = "probe"
    BY <1>1, <2>1 DEF Commands, InferPc
  <2>3. Go(c, r) \/ Alone(c, r)
    BY <1>3 DEF SwapRoute
  <2> HIDE DEF r
  <2>4. r.pc \in Quiet
    BY <2>2 DEF Quiet
  <2>5. QED
    BY <1>1, <2>2, <2>3, <2>4, QuietIn
<1>4. CASE \E pc \in {"deps", "reset", "again", "last"} : Go(c, To(c, pc)) \/ Alone(c, To(c, pc))
  BY <1>1, <1>4, ToIn DEF Quiet
<1>5. CASE \E ret \in {"reset", "last"} : Go(c, Call(c, "ensure", ret))
  <2>1. PICK ret \in {"reset", "last"} : Go(c, Call(c, "ensure", ret))
    BY <1>5
  <2>2. Call(c, "ensure", ret) \in Commands /\ Call(c, "ensure", ret).pc = "ensure" /\ Call(c, "ensure", ret).ret = ret
    BY <1>1 DEF Call, Commands, InferPc
  <2>3. Placed(helper, c, Call(c, "ensure", ret))
    BY <1>1, <2>2 DEF Placed, Restarting, RouterSteps, ToConnect
  <2>4. QED
    BY <1>1, <2>1, <2>2, <2>3, GoIn
<1>6. QED
  BY <1>2, <1>3, <1>4, <1>5 DEF ConnectInfers, RepairRoute, VerifyDependencies, ResetRoute

(* The condition on a command inside the restart.                          *)
LEMMA RestartIn ==
  ASSUME InferTypeOK, ActIn(helper, saved, act), NEW a \in Actors, UNCHANGED <<helper, saved>>,
         act[a].pc \in Restarting \cup {"ensure"},
         NEW r \in Commands, Go(a, r) \/ Alone(a, r), r.ret = act[a].ret,
         helper = "proxy" /\ act[a].ret \in ToOnboard => saved = NoSecret \/ r.mem = saved,
         \/ r.pc \in {"kill", "spawn", "pid"} /\ (act[a].pc # "ensure" \/ helper = "proxy")
         \/ r.pc = "poll" /\ act[a].pc # "ensure" /\ ~FreshKey(a)
  PROVE  ActIn(helper', saved', act')
<1>1. Placed(helper, a, act[a])
  BY DEF ActIn
<1>2. Placed(helper, a, r)
  BY <1>1 DEF Placed, Restarting, RouterSteps, ToOnboard, ToConnect, FreshKey
<1>3. Holds(helper, saved', r)
  BY DEF Holds, Restarting, ToOnboard
<1>4. QED
  BY <1>2, <1>3, GoIn, AloneIn

LEMMA ReturnIn ==
  ASSUME InferTypeOK, ActIn(helper, saved, act), NEW a \in Actors, UNCHANGED <<helper, saved>>,
         act[a].pc \in {"ensure", "poll"},
         NEW r \in Commands, Go(a, r), r.pc = act[a].ret,
         a = "onboard" => saved = NoSecret \/ r.mem = saved
  PROVE  ActIn(helper', saved', act')
<1>1. Placed(helper, a, act[a])
  BY DEF ActIn
<1>2. \/ a = "onboard" /\ helper = "proxy" /\ r.pc \in ToOnboard
      \/ a # "onboard" /\ r.pc \in ToConnect
  BY <1>1 DEF Placed, Restarting
<1>3. Placed(helper, a, r) /\ (a = "onboard" => Holds(helper, saved', r))
  BY <1>2 DEF Placed, Holds, Restarting, RouterSteps, ToOnboard, ToConnect
<1>4. QED
  BY <1>3, GoIn

LEMMA HelperIn ==
  ASSUME InferTypeOK, ActIn(helper, saved, act), NEW a \in Actors, HelperSteps(a)
  PROVE  ActIn(helper', saved', act')
<1>1. /\ UNCHANGED <<helper, saved>> /\ act[a] \in Commands
      /\ Placed(helper, a, act[a]) /\ (a = "onboard" => Holds(helper, saved, act[a]))
  BY DEF HelperSteps, Ensure, KillStale, SpawnHelper, Spawned, PersistPid, EnsurePoll, CommandEnds,
         World, SameHelper, keys, ActIn
<1>2. act[a].ret \in ToOnboard => a = "onboard" \/ act[a].pc \notin Restarting \cup {"ensure"}
  BY <1>1 DEF Placed, Restarting, ToOnboard, ToConnect
<1>3. helper = "proxy" /\ a = "onboard" /\ act[a].ret \in ToOnboard /\ act[a].pc \in Restarting
        => saved = NoSecret \/ act[a].mem = saved
  BY <1>1 DEF Holds
<1>4. CASE KillStale(a)
  <2>1. To(a, "spawn") \in Commands /\ To(a, "spawn").pc = "spawn"
        /\ To(a, "spawn").ret = act[a].ret /\ To(a, "spawn").mem = act[a].mem
    BY <1>1, ToCommand DEF To, InferPc
  <2>2. act[a].pc = "kill" /\ Alone(a, To(a, "spawn")) /\ "kill" \in Restarting
    BY <1>4 DEF KillStale, Restarting
  <2>3. QED
    BY <1>1, <1>2, <1>3, <2>1, <2>2, RestartIn
<1>5. CASE SpawnHelper(a)
  <2>1. PICK p \in Procs : Alone(a, [act[a] EXCEPT !.pc = "pid", !.mem = KeyOf(a), !.child = p])
    BY <1>5 DEF SpawnHelper, Spawned
  <2> DEFINE r == [act[a] EXCEPT !.pc = "pid", !.mem = KeyOf(a), !.child = p]
  <2>2. KeyOf(a) \in Secrets \cup {NoSecret} /\ (~FreshKey(a) => KeyOf(a) = act[a].mem)
    <3>1. CASE FreshKey(a)
      BY <1>5, <3>1 DEF KeyOf, SpawnHelper, Spawned, Unused
    <3>2. CASE ~FreshKey(a)
      BY <1>1, <3>2 DEF KeyOf, Commands
    <3>3. QED
      BY <3>1, <3>2
  <2>3. r \in Commands /\ r.pc = "pid" /\ r.ret = act[a].ret /\ r.mem = KeyOf(a)
    BY <1>1, <2>2 DEF Commands, InferPc
  <2>4. Alone(a, r)
    BY <2>1
  <2> HIDE DEF r
  <2>5. act[a].pc = "spawn" /\ "spawn" \in Restarting
    BY <1>5 DEF SpawnHelper, Spawned, Restarting
  <2>6. act[a].ret \in ToOnboard => ~FreshKey(a)
    BY DEF ToOnboard, FreshKey
  <2>7. QED
    BY <1>1, <1>2, <1>3, <2>2, <2>3, <2>4, <2>5, <2>6, RestartIn
<1>6. CASE PersistPid(a)
  <2>0. act[a].pc = "pid" /\ "pid" \in Restarting
    BY <1>6 DEF PersistPid, Restarting
  <2>1. CASE FreshKey(a)
    <3>1. act[a].ret \in {"await", "health"} /\ act[a].ret \in InferPc
      BY <1>1, <2>1 DEF FreshKey, Commands
    <3>2. To(a, act[a].ret) \in Commands /\ To(a, act[a].ret).pc = act[a].ret
      BY <1>1, <3>1, ToCommand DEF To
    <3>3. /\ a = "onboard"
          /\ helper = IF act[a].ret = "await" THEN "proxy" ELSE "adapter"
      BY <1>1, <2>0, <3>1 DEF Placed, Restarting, ToOnboard, ToConnect
    <3>4. Placed(helper, a, To(a, act[a].ret)) /\ Holds(helper, saved', To(a, act[a].ret))
      BY <3>1, <3>2, <3>3 DEF Placed, Holds, Restarting, RouterSteps, ToOnboard
    <3>5. Alone(a, To(a, act[a].ret))
      BY <1>6, <2>1 DEF PersistPid
    <3>6. QED
      BY <1>1, <3>2, <3>4, <3>5, AloneIn
  <2>2. CASE ~FreshKey(a)
    <3>1. To(a, "poll") \in Commands /\ To(a, "poll").pc = "poll"
          /\ To(a, "poll").ret = act[a].ret /\ To(a, "poll").mem = act[a].mem
      BY <1>1, ToCommand DEF To, InferPc
    <3>2. Alone(a, To(a, "poll"))
      BY <1>6, <2>2 DEF PersistPid
    <3>3. QED
      BY <1>1, <1>2, <1>3, <2>0, <2>2, <3>1, <3>2, RestartIn
  <2>3. QED
    BY <2>1, <2>2
<1>7. CASE Ensure(a)
  <2>0. act[a].pc = "ensure" /\ saved \in Secrets \cup {NoSecret}
    BY <1>7 DEF Ensure, InferTypeOK
  <2>1. a = "onboard" => helper = "proxy"
    BY <1>1, <2>0 DEF Placed, Restarting
  <2>2. CASE (helper # "proxy" \/ saved = NoSecret) /\ Go(a, Return(a, FALSE))
    BY <1>1, <2>0, <2>1, <2>2, ReturnCommand, ReturnIn
  <2>3. CASE Go(a, [Return(a, TRUE) EXCEPT !.mem = saved])
    <3> DEFINE r == [Return(a, TRUE) EXCEPT !.mem = saved]
    <3>1. r \in Commands /\ r.pc = act[a].ret /\ r.mem = saved
      <4>1. Return(a, TRUE) \in Commands /\ Return(a, TRUE).pc = act[a].ret
        BY <1>1, ReturnCommand
      <4>2. QED
        BY <2>0, <4>1 DEF Commands
    <3>2. Go(a, r)
      BY <2>3
    <3> HIDE DEF r
    <3>3. QED
      BY <1>1, <2>0, <3>1, <3>2, ReturnIn
  <2>4. CASE helper = "proxy" /\ Go(a, [act[a] EXCEPT !.pc = "kill", !.mem = saved, !.ready = FALSE])
    <3> DEFINE r == [act[a] EXCEPT !.pc = "kill", !.mem = saved, !.ready = FALSE]
    <3>1. r \in Commands /\ r.pc = "kill" /\ r.ret = act[a].ret /\ r.mem = saved
      <4>1. "kill" \in InferPc
        BY DEF InferPc
      <4>2. r \in Commands
        BY <1>1, <2>0, <4>1 DEF Commands
      <4>3. QED
        BY <1>1, <4>2 DEF Commands
    <3>2. Go(a, r)
      BY <2>4
    <3> HIDE DEF r
    <3>3. QED
      BY <1>1, <2>0, <2>4, <3>1, <3>2, RestartIn
  <2>5. QED
    BY <1>7, <2>2, <2>3, <2>4 DEF Ensure
<1>8. CASE EnsurePoll(a)
  <2>1. act[a].pc = "poll" /\ "poll" \in Restarting
    BY <1>8 DEF EnsurePoll, Restarting
  <2>2. PICK ok \in BOOLEAN : Go(a, Return(a, ok))
    BY <1>8 DEF EnsurePoll
  <2>3. a = "onboard" => helper = "proxy" /\ act[a].ret \in ToOnboard
    BY <1>1, <2>1 DEF Placed, Restarting
  <2>4. QED
    BY <1>1, <1>3, <2>1, <2>2, <2>3, ReturnCommand, ReturnIn
<1>9. CASE CommandEnds(a)
  BY <1>1, <1>9, ExitIn DEF CommandEnds
<1>10. QED
  BY <1>4, <1>5, <1>6, <1>7, <1>8, <1>9 DEF HelperSteps

(* What a destroy and the environment do to the commands.                  *)
LEMMA OutsideIn ==
  ASSUME InferTypeOK, ActIn(helper, saved, act), Surroundings \/ \E b \in Sandboxes : DestroyUser(b)
  PROVE  ActIn(helper', saved', act')
<1>1. UNCHANGED <<helper, saved>>
  BY DEF Surroundings, HelperBinds, HelperDies, OtherStarts, PortTaken, Reboot, Happens, DestroyUser, keys
<1>2. \E D \in SUBSET Actors :
         \/ act' = [a \in Actors |-> IF a \in D THEN Disturbed(act[a]) ELSE act[a]]
         \/ act' = [a \in Actors |-> NoCommand]
  <2>1. CASE act' = [a \in Actors |-> NoCommand]
    BY <2>1
  <2>2. CASE act' = [a \in Actors |-> Disturbed(act[a])]
    <3>1. act' = [a \in Actors |-> IF a \in Actors THEN Disturbed(act[a]) ELSE act[a]]
      BY <2>2
    <3>2. QED
      BY <3>1
  <2>3. CASE \E p \in Procs : HelperBinds(p)
    <3>1. PICK p \in Procs : HelperBinds(p)
      BY <2>3
    <3> DEFINE D == {a \in Actors : helper = "router" /\ act[a].child # p}
    <3>2. act' = [a \in Actors |-> IF a \in D THEN Disturbed(act[a]) ELSE act[a]]
      BY <3>1 DEF HelperBinds
    <3>3. QED
      BY <3>2
  <2>4. QED
    BY <2>1, <2>2, <2>3 DEF Surroundings, HelperDies, OtherStarts, PortTaken, Reboot, Happens, DestroyUser
<1>3. /\ act' \in [Actors -> Commands]
      /\ \A a \in Actors : act'[a] \in {act[a], Disturbed(act[a]), NoCommand}
  BY <1>2, DisturbedIn, NoCommandIn DEF ActIn
<1>4. QED
  BY <1>1, <1>3, AllIn

(* Every step keeps the commands in place.                                 *)
LEMMA ActStep ==
  ASSUME InferTypeOK, ActIn(helper, saved, act), [InferNext]_inferVars
  PROVE  ActIn(helper', saved', act')
<1>1. CASE OnboardInfers
  BY <1>1, BeginIn, SelectIn, ProxyIn, RecordIn, ApplyIn, RouteIn, TokenIn, AdapterIn, ReconcileIn,
     RouterIn, UpsertIn DEF OnboardInfers
<1>2. CASE \E c \in Connects : ConnectInfers(c)
  BY <1>2, ConnectIn
<1>3. CASE \E a \in Actors : HelperSteps(a)
  BY <1>3, HelperIn
<1>4. CASE Surroundings \/ \E b \in Sandboxes : DestroyUser(b)
  BY <1>4, OutsideIn
<1>5. CASE UNCHANGED inferVars
  BY <1>5 DEF inferVars, keys
<1>6. QED
  BY <1>1, <1>2, <1>3, <1>4, <1>5 DEF InferNext

(***************************************************************************)
(* The types of the other variables.                                       *)
(***************************************************************************)
LEMMA ProcessIn ==
  /\ Free \in Processes /\ Other \in Processes
  /\ \A key \in Secrets \cup {NoSecret} : Child(key) \in Processes
  BY DEF Free, Other, Child, Processes

LEMMA KilledIn ==
  ASSUME InferTypeOK, NEW a, Killed(a)
  PROVE  proc' \in [Procs -> Processes]
  BY ProcessIn DEF InferTypeOK, Killed

LEMMA KeysStep ==
  ASSUME InferIInv, InferNext
  PROVE  /\ helper' = helper
         /\ saved' \in Secrets \cup {NoSecret} /\ gwKey' \in Secrets \cup {NoSecret}
         /\ TokenIsGateways'
<1>1. /\ saved \in Secrets \cup {NoSecret} /\ gwKey \in Secrets \cup {NoSecret}
      /\ helper = "proxy" => gwKey \in {NoSecret, saved}
  BY DEF InferIInv, InferTypeOK, TokenIsGateways
<1>2. me.mem \in Secrets \cup {NoSecret} /\ Placed(helper, O, me) /\ Holds(helper, saved, me)
  BY MeIn DEF InferIInv, Commands
<1>3. helper' = helper
  BY DEF InferNext, OnboardInfers, ConnectInfers, HelperSteps, Surroundings,
         BeginOnboard, SelectRemote, SelectHermes, SelectVllm, SelectNim, SelectUnproxied, SelectBedrock,
         SelectRouted, Pick, SelectOllama, AwaitProxy, SelectModel, RecordSelection, ApplySelection,
         SetupOther, CheckOllama, ProxyHealthy, PersistToken, EnsureAdapter, AwaitAdapter,
         KeepAdapterToken, ReconcileRouter, StopRouter, ReapRouter, StartRouter, RouterUp, RecordRouter,
         UpsertHelper, ApplyRoute, VerifyRoute, FinishInference, BeginConnect, SwapRoute, RepairRoute,
         VerifyDependencies, ResetRoute, Ensure, KillStale, SpawnHelper, Spawned, PersistPid, EnsurePoll,
         CommandEnds, DestroyUser, HelperBinds, HelperDies, OtherStarts, PortTaken, Reboot, Happens, World
<1>4. CASE BeginOnboard
  <2>1. gwKey' = gwKey /\ (saved' = saved \/ (helper = "router" /\ saved' = NoSecret))
    BY <1>4 DEF BeginOnboard
  <2>2. QED
    BY <1>1, <1>3, <2>1 DEF TokenIsGateways
<1>5. CASE PersistToken
  <2>1. helper = "proxy" /\ (saved = NoSecret \/ me.mem = saved)
    BY <1>2, <1>5 DEF PersistToken, OnboardAt, Placed, Holds, ToOnboard
  <2>2. saved' = Token /\ gwKey' = gwKey
    BY <1>5 DEF PersistToken
  <2>3. Token \in Secrets \cup {NoSecret} /\ (saved = NoSecret \/ Token = saved)
    BY <1>1, <1>2, <2>1 DEF Token
  <2>4. QED
    BY <1>1, <1>3, <2>2, <2>3 DEF TokenIsGateways
<1>6. CASE KeepAdapterToken \/ RecordRouter
  <2>1. helper # "proxy"
    BY <1>2, <1>6 DEF KeepAdapterToken, RecordRouter, OnboardAt, Placed, RouterSteps
  <2>2. saved' = me.mem /\ gwKey' = gwKey
    BY <1>6 DEF KeepAdapterToken, RecordRouter
  <2>3. QED
    BY <1>1, <1>2, <1>3, <2>1, <2>2 DEF TokenIsGateways
<1>7. CASE UpsertHelper
  <2>1. saved' = saved /\ gwKey' \in {gwKey, me.mem}
    BY <1>7 DEF UpsertHelper
  <2>2. helper = "proxy" => me.mem = saved
    BY <1>2, <1>7 DEF UpsertHelper, OnboardAt, Holds
  <2>3. QED
    BY <1>1, <1>2, <1>3, <2>1, <2>2 DEF TokenIsGateways
<1>8. CASE UNCHANGED keys
  BY <1>1, <1>3, <1>8 DEF keys, TokenIsGateways
<1>9. QED
  BY <1>4, <1>5, <1>6, <1>7, <1>8
     DEF InferNext, OnboardInfers, ConnectInfers, HelperSteps, Surroundings,
         SelectRemote, SelectHermes, SelectVllm, SelectNim, SelectUnproxied, SelectBedrock,
         SelectRouted, Pick, SelectOllama, AwaitProxy, SelectModel, RecordSelection, ApplySelection,
         SetupOther, CheckOllama, ProxyHealthy, EnsureAdapter, AwaitAdapter,
         ReconcileRouter, StopRouter, ReapRouter, StartRouter, RouterUp,
         ApplyRoute, VerifyRoute, FinishInference, BeginConnect, SwapRoute, RepairRoute,
         VerifyDependencies, ResetRoute, Ensure, KillStale, SpawnHelper, Spawned, PersistPid, EnsurePoll,
         CommandEnds, DestroyUser, HelperBinds, HelperDies, OtherStarts, PortTaken, Reboot, Happens,
         SameHelper, keys

(* The steps that change no process and no recorded pid.                   *)
LEMMA ProcessesStep ==
  ASSUME InferIInv, InferNext
  PROVE  /\ pidFile' \in Procs \cup {NoProc} /\ proc' \in [Procs -> Processes]
         /\ helper # "router" => \A p \in Procs : proc[p].is = "other" => proc'[p].is = "other"
<1>0. /\ InferTypeOK /\ pidFile \in Procs \cup {NoProc} /\ proc \in [Procs -> Processes]
      /\ me \in Commands /\ Placed(helper, O, me)
  BY MeIn DEF InferIInv, InferTypeOK
<1>1. CASE UNCHANGED processes
  BY <1>0, <1>1 DEF processes
<1>2. CASE BeginOnboard
  BY <1>0, <1>2 DEF BeginOnboard
<1>3. CASE \E a \in Actors : KillStale(a) \/ SpawnHelper(a) \/ PersistPid(a)
  <2>1. PICK a \in Actors : KillStale(a) \/ SpawnHelper(a) \/ PersistPid(a)
    BY <1>3
  <2>2. act[a] \in Commands
    BY DEF InferIInv, ActIn
  <2>3. CASE KillStale(a)
    <3>1. Killed(a) /\ pidFile' = NoProc
      BY <2>3 DEF KillStale
    <3>2. QED
      BY <1>0, <3>1, KilledIn DEF Killed, Victims, IsHelper
  <2>4. CASE SpawnHelper(a)
    <3>1. PICK p \in Procs : proc[p].is = "free" /\ proc' = [proc EXCEPT ![p] = Child(KeyOf(a))]
      BY <2>4 DEF SpawnHelper, Spawned
    <3>2. KeyOf(a) \in Secrets \cup {NoSecret}
      BY <2>2, <2>4 DEF KeyOf, SpawnHelper, Spawned, Unused, Commands
    <3>3. Child(KeyOf(a)) \in Processes /\ pidFile' = pidFile
      BY <2>4, <3>2, ProcessIn DEF SpawnHelper, Spawned
    <3>4. QED
      BY <1>0, <3>1, <3>3
  <2>5. CASE PersistPid(a)
    BY <1>0, <2>2, <2>5 DEF PersistPid, Commands
  <2>6. QED
    BY <2>1, <2>3, <2>4, <2>5
<1>4. CASE StopRouter \/ ReapRouter \/ StartRouter \/ RouterUp \/ RecordRouter
  <2>1. helper = "router"
    BY <1>0, <1>4 DEF StopRouter, ReapRouter, StartRouter, RouterUp, RecordRouter, OnboardAt, Placed, RouterSteps
  <2>2. me.mem \in Secrets \cup {NoSecret} /\ me.child \in Procs \cup {NoProc}
    BY <1>0 DEF Commands
  <2>3. pidFile' \in {pidFile, me.child}
    BY <1>4 DEF StopRouter, ReapRouter, StartRouter, RouterUp, RecordRouter
  <2>4. proc' \in [Procs -> Processes]
    BY <1>0, <1>4, <2>2, ProcessIn DEF StopRouter, ReapRouter, StartRouter, RouterUp, RecordRouter
  <2>5. QED
    BY <1>0, <2>1, <2>2, <2>3, <2>4
<1>5. CASE \E b \in Sandboxes : DestroyUser(b)
  <2>1. UNCHANGED processes \/ (Killed(O) /\ pidFile' = NoProc)
    BY <1>5 DEF DestroyUser
  <2>2. QED
    BY <1>0, <1>1, <2>1, KilledIn DEF Killed, Victims, IsHelper
<1>6. CASE Surroundings
  <2>1. pidFile' = pidFile
    BY <1>6 DEF Surroundings, HelperBinds, HelperDies, OtherStarts, PortTaken, Reboot, Happens
  <2>2. CASE PortTaken
    BY <1>0, <2>1, <2>2 DEF PortTaken
  <2>3. CASE Reboot
    BY <1>0, <2>1, <2>3, ProcessIn DEF Reboot, IsHelper
  <2>4. CASE \E p \in Procs : HelperBinds(p) \/ HelperDies(p) \/ OtherStarts(p)
    <3>1. PICK p \in Procs : HelperBinds(p) \/ HelperDies(p) \/ OtherStarts(p)
      BY <2>4
    <3>2. CASE HelperBinds(p)
      <4>1. [proc[p] EXCEPT !.up = TRUE] \in Processes
        BY <1>0 DEF Processes
      <4>2. proc' = [proc EXCEPT ![p] = Free] \/ proc' = [proc EXCEPT ![p] = [proc[p] EXCEPT !.up = TRUE]]
        BY <3>2 DEF HelperBinds
      <4>3. proc[p].is # "other"
        BY <3>2 DEF HelperBinds, IsHelper
      <4>4. QED
        BY <1>0, <2>1, <4>1, <4>2, <4>3, ProcessIn
    <3>3. CASE HelperDies(p) \/ OtherStarts(p)
      <4>1. proc' = [proc EXCEPT ![p] = Other]
            \/ (proc[p].is = "helper" /\ proc' = [proc EXCEPT ![p] = Free])
        BY <3>3 DEF HelperDies, OtherStarts, IsHelper
      <4>2. Other.is = "other"
        BY DEF Other
      <4>3. QED
        BY <1>0, <2>1, <4>1, <4>2, ProcessIn
    <3>4. QED
      BY <3>1, <3>2, <3>3
  <2>5. QED
    BY <1>6, <2>2, <2>3, <2>4 DEF Surroundings
<1>7. QED
  BY <1>1, <1>2, <1>3, <1>4, <1>5, <1>6
     DEF InferNext, OnboardInfers, ConnectInfers, HelperSteps,
         SelectRemote, SelectHermes, SelectVllm, SelectNim, SelectUnproxied, SelectBedrock,
         SelectRouted, Pick, SelectOllama, AwaitProxy, SelectModel, RecordSelection, ApplySelection,
         SetupOther, CheckOllama, ProxyHealthy, PersistToken, EnsureAdapter, AwaitAdapter,
         KeepAdapterToken, ReconcileRouter, UpsertHelper, ApplyRoute, VerifyRoute, FinishInference,
         BeginConnect, SwapRoute, RepairRoute, VerifyDependencies, ResetRoute, Ensure, EnsurePoll,
         CommandEnds, SameHelper

LEMMA RoutingStep ==
  ASSUME InferIInv, InferNext
  PROVE  /\ route' \in Providers /\ providerOf' \in [Sandboxes -> Providers]
         /\ sess' \in [open : BOOLEAN, sel : Providers, box : Sandboxes]
<1>0. /\ route \in Providers /\ providerOf \in [Sandboxes -> Providers]
      /\ sess \in [open : BOOLEAN, sel : Providers, box : Sandboxes]
      /\ me \in Commands /\ act \in [Actors -> Commands]
      /\ {"none", "other", "helper"} \subseteq Providers
  BY MeIn DEF InferIInv, InferTypeOK, Providers
<1>1. CASE UNCHANGED <<routing, sess>>
  BY <1>0, <1>1 DEF routing
<1>2. CASE BeginOnboard
  <2>1. UNCHANGED routing /\ (sess' = sess \/ \E b \in Sandboxes : sess' = [open |-> TRUE, sel |-> "none", box |-> b])
    BY <1>2 DEF BeginOnboard
  <2>2. sess' \in [open : BOOLEAN, sel : Providers, box : Sandboxes]
    <3>1. ASSUME NEW b \in Sandboxes
          PROVE  [open |-> TRUE, sel |-> "none", box |-> b] \in [open : BOOLEAN, sel : Providers, box : Sandboxes]
      BY DEF Providers
    <3>2. QED
      BY <1>0, <2>1, <3>1
  <2>3. route' = route /\ providerOf' = providerOf
    BY <2>1 DEF routing
  <2>4. QED
    BY <1>0, <2>2, <2>3
<1>3. CASE RecordSelection \/ VerifyRoute \/ FinishInference
  <2>1. me.sel \in Providers /\ me.box \in Sandboxes
    BY <1>0 DEF Commands
  <2>2. QED
    BY <1>0, <1>3, <2>1 DEF RecordSelection, VerifyRoute, FinishInference, routing
<1>4. CASE SetupOther \/ ApplyRoute
  BY <1>0, <1>4 DEF SetupOther, ApplyRoute
<1>5. CASE \E c \in Connects : SwapRoute(c) \/ RepairRoute(c) \/ ResetRoute(c)
  <2>1. PICK c \in Connects : SwapRoute(c) \/ RepairRoute(c) \/ ResetRoute(c)
    BY <1>5
  <2>2. act[c].sel \in Providers /\ act[c].box \in Sandboxes /\ providerOf[act[c].box] \in Providers
        /\ act[c] \in Commands
    BY <1>0 DEF Actors, Commands
  <2>3. route' \in {route, act[c].sel, providerOf[act[c].box]}
    BY <2>1, <2>2 DEF SwapRoute, RepairRoute, ResetRoute, Commands
  <2>4. UNCHANGED <<providerOf, sess>>
    BY <2>1 DEF SwapRoute, RepairRoute, ResetRoute
  <2>5. QED
    BY <1>0, <2>2, <2>3, <2>4
<1>6. CASE \E b \in Sandboxes : DestroyUser(b)
  BY <1>0, <1>6 DEF DestroyUser
<1>7. QED
  BY <1>1, <1>2, <1>3, <1>4, <1>5, <1>6
     DEF InferNext, OnboardInfers, ConnectInfers, HelperSteps, Surroundings,
         SelectRemote, SelectHermes, SelectVllm, SelectNim, SelectUnproxied, SelectBedrock,
         SelectRouted, Pick, SelectOllama, AwaitProxy, SelectModel, ApplySelection,
         CheckOllama, ProxyHealthy, PersistToken, EnsureAdapter, AwaitAdapter, KeepAdapterToken,
         ReconcileRouter, StopRouter, ReapRouter, StartRouter, RouterUp, RecordRouter, UpsertHelper,
         BeginConnect, VerifyDependencies, Ensure, KillStale, SpawnHelper, Spawned, PersistPid, EnsurePoll,
         CommandEnds, HelperBinds, HelperDies, OtherStarts, PortTaken, Reboot, Happens, SameRoute

LEMMA BoundsStep ==
  ASSUME InferTypeOK, InferNext
  PROVE  taken' \in BOOLEAN /\ inferCmds' \in 0 .. MaxInferCmds /\ infFaults' \in 0 .. MaxInferFaults
<1>1. taken \in BOOLEAN /\ inferCmds \in 0 .. MaxInferCmds /\ infFaults \in 0 .. MaxInferFaults
  BY DEF InferTypeOK
<1>2. /\ taken' \in {taken, TRUE}
      /\ inferCmds' = inferCmds \/ (inferCmds < MaxInferCmds /\ inferCmds' = inferCmds + 1)
      /\ infFaults' = infFaults \/ (infFaults < MaxInferFaults /\ infFaults' = infFaults + 1)
  BY DEF InferNext, OnboardInfers, ConnectInfers, HelperSteps, Surroundings,
         BeginOnboard, SelectRemote, SelectHermes, SelectVllm, SelectNim, SelectUnproxied, SelectBedrock,
         SelectRouted, Pick, SelectOllama, AwaitProxy, SelectModel, RecordSelection, ApplySelection,
         SetupOther, CheckOllama, ProxyHealthy, PersistToken, EnsureAdapter, AwaitAdapter,
         KeepAdapterToken, ReconcileRouter, StopRouter, ReapRouter, StartRouter, RouterUp, RecordRouter,
         UpsertHelper, ApplyRoute, VerifyRoute, FinishInference, BeginConnect, SwapRoute, RepairRoute,
         VerifyDependencies, ResetRoute, Ensure, KillStale, SpawnHelper, Spawned, PersistPid, EnsurePoll,
         CommandEnds, DestroyUser, HelperBinds, HelperDies, OtherStarts, PortTaken, Reboot, Happens, World
<1>3. inferCmds' \in 0 .. MaxInferCmds
  BY <1>1, <1>2, InferBounds
<1>4. infFaults' \in 0 .. MaxInferFaults
  BY <1>1, <1>2, InferBounds
<1>5. QED
  BY <1>1, <1>2, <1>3, <1>4

(***************************************************************************)
(* The theorems.                                                           *)
(***************************************************************************)
LEMMA InferBegins == InferInit => InferIInv
<1> SUFFICES ASSUME InferInit
             PROVE  InferIInv
  OBVIOUS
<1>1. InitKey \in Secrets /\ InitPid \in Procs /\ NoCommand.box \in Sandboxes
  BY InferNames, NoCommandIn DEF InitKey, InitPid, Commands
<1>2. act \in [Actors -> Commands] /\ ActIn(helper, saved, act)
  BY NoCommandIn, NamesApart DEF InferInit, ActIn
<1>3. proc \in [Procs -> Processes]
  <2>1. [Child(InitKey) EXCEPT !.up = TRUE] \in Processes
    BY <1>1 DEF Child, Processes
  <2>2. QED
    BY <2>1, ProcessIn DEF InferInit
<1>4. TokenIsGateways
  BY DEF InferInit, TokenIsGateways
<1>5. inferCmds \in 0 .. MaxInferCmds /\ infFaults \in 0 .. MaxInferFaults
  BY InferBounds DEF InferInit
<1>6. /\ saved \in Secrets \cup {NoSecret} /\ gwKey \in Secrets \cup {NoSecret}
      /\ pidFile \in Procs \cup {NoProc}
      /\ route \in Providers /\ providerOf \in [Sandboxes -> Providers]
  BY <1>1 DEF InferInit, Providers
<1>7. /\ helper \in {"proxy", "adapter", "router"} /\ taken \in BOOLEAN
      /\ sess \in [open : BOOLEAN, sel : Providers, box : Sandboxes]
  BY <1>1 DEF InferInit, Providers
<1>8. InferTypeOK
  BY <1>2, <1>3, <1>5, <1>6, <1>7 DEF InferTypeOK
<1>9. QED
  BY <1>2, <1>4, <1>8 DEF InferIInv

LEMMA InferContinues == InferIInv /\ [InferNext]_inferVars => InferIInv'
<1> SUFFICES ASSUME InferIInv, [InferNext]_inferVars
             PROVE  InferIInv'
  OBVIOUS
<1>1. ActIn(helper', saved', act')
  BY ActStep DEF InferIInv
<1>2. CASE InferNext
  <2>1. act' \in [Actors -> Commands]
    BY <1>1 DEF ActIn
  <2>2. helper' \in {"proxy", "adapter", "router"}
    BY <1>2, KeysStep DEF InferIInv, InferTypeOK
  <2>3. InferTypeOK'
    BY <1>2, <2>1, <2>2, KeysStep, ProcessesStep, RoutingStep, BoundsStep DEF InferIInv, InferTypeOK
  <2>4. QED
    BY <1>1, <1>2, <2>3, KeysStep DEF InferIInv
<1>3. CASE UNCHANGED inferVars
  <2>1. InferTypeOK' /\ TokenIsGateways'
    BY <1>3 DEF InferIInv, InferTypeOK, TokenIsGateways, inferVars, keys, processes, routing
  <2>2. QED
    BY <1>1, <2>1 DEF InferIInv
<1>4. QED
  BY <1>2, <1>3

(* The inductive invariant: the types; where a command of setupInference,  *)
(* of connect or of the helper's restart can be, given the helper of the   *)
(* host; that a proxy token on its way to the gateway is the one on disk.  *)
THEOREM InferInvariant == InferSpec => []InferIInv
<1>1. QED
  BY InferBegins, InferContinues, PTL DEF InferSpec

(* The gateway never presents a proxy token other than the one on disk     *)
(* (persistAndProbeOllamaProxy before upsertProvider; a restart takes the  *)
(* token from disk), whatever commands run, die or are repeated.           *)
THEOREM TokenCorrect == InferSpec => []TokenIsGateways
<1>1. InferIInv => TokenIsGateways
  BY DEF InferIInv
<1>2. QED
  BY <1>1, InferInvariant, PTL

(* No kill of the proxy or of the adapter ends a process that only has the *)
(* pid of a dead helper (killStaleProxy and killStaleAdapter look at the   *)
(* command line first).                                                    *)
THEOREM SpareCorrect == InferSpec => OthersAreSpared
<1>1. InferIInv /\ [InferNext]_inferVars
        => [helper # "router" => \A p \in Procs : proc[p].is = "other" => proc'[p].is = "other"]_inferVars
  BY ProcessesStep
<1>2. QED
  BY <1>1, InferInvariant, PTL DEF InferSpec, OthersAreSpared

(***************************************************************************)
(* What a command that reports its helper ready may rely on.               *)
(***************************************************************************)
AnswersTo(key)  == \E p \in Listening : proc[p].key = key
ListenersStay == \A p \in Listening : p \in Listening' /\ proc'[p].key = proc[p].key

Told    == {"route", "verify", "finish"}
Settled == {"healthy", "token", "upsert"} \cup Told

(* The proxy, for the command of an onboarding or of a connect.            *)
ProxyServes(x) ==
  /\ act[x].ready => /\ saved # NoSecret
                     /\ ~taken => AnswersTo(saved)
                     /\ IF x = "onboard" THEN act[x].pc \in Settled ELSE act[x].pc \notin Restarting
                     /\ x = "onboard" /\ act[x].pc \in Told => gwKey = saved
  /\ act[x].pc \in Restarting /\ ~FreshKey(x) => saved # NoSecret /\ act[x].mem = saved

AdapterServes ==
  /\ me.ready => /\ me.pc \in {"upsert"} \cup Told
                 /\ AnswersTo(saved)
                 /\ me.pc \in Told => gwKey = saved
  /\ me.pc = "keep" /\ me.calm => AnswersTo(me.mem)
  /\ me.pc = "upsert" => me.mem = saved

(* Before a router is reconciled only the one the session names may run;   *)
(* once the run has a child of its own, that and an old one not yet bound. *)
Before == {"select", "record", "apply", "other", "router", "stop", "reap", "start", "up", "recordpid"}
Own    == {"up", "recordpid"}
OnlyKnown ==
  \A p \in Procs : IsHelper(p) =>
    IF me.pc \in Own /\ p = me.child THEN proc[p].key = me.mem
    ELSE p = pidFile /\ proc[p].key = saved /\ (me.pc \in Own => ~proc[p].up)
RouterServes ==
  /\ me.ready => me.pc \in {"upsert"} \cup Told /\ (~taken => AnswersTo(saved))
  /\ me.calm /\ me.pc \in Before => OnlyKnown
  /\ me.calm /\ me.pc = "recordpid" /\ ~taken => Listening # {}

ConnectsUnready == \A c \in Connects : ~act[c].ready

Serves ==
  /\ helper = "proxy" => \A x \in Actors : ProxyServes(x)
  /\ helper = "adapter" => AdapterServes
  /\ helper = "router" => RouterServes
  /\ helper # "proxy" => ConnectsUnready

ServeIInv == InferIInv /\ Serves

(* With the invariant, what is ready serves.                               *)
LEMMA ServesGateway == ServeIInv => HelperServesGateway
<1> SUFFICES ASSUME ServeIInv, NEW a \in Actors, act[a].ready, ~taken,
                    IF a = O THEN act[a].pc \in {"verify", "finish"} /\ act[a].sel = "helper" ELSE gwKey # NoSecret
             PROVE  Serving
  BY DEF HelperServesGateway
<1>1. helper \in {"proxy", "adapter", "router"} /\ O = "onboard" /\ me = act[O]
  BY DEF ServeIInv, InferIInv, InferTypeOK, O, me
<1>2. CASE helper = "proxy"
  <2>1. ProxyServes(a) /\ gwKey \in {NoSecret, saved}
    BY <1>2 DEF ServeIInv, Serves, InferIInv, TokenIsGateways
  <2>2. AnswersTo(saved) /\ gwKey = saved
    BY <1>1, <2>1 DEF ProxyServes, Told
  <2>3. QED
    BY <2>2 DEF Serving, AnswersTo
<1>3. CASE helper # "proxy"
  <2>1. a = O
    BY <1>1, <1>3 DEF ServeIInv, Serves, ConnectsUnready, Actors
  <2>2. AnswersTo(saved) /\ (helper # "router" => gwKey = saved)
    BY <1>1, <1>3, <2>1 DEF ServeIInv, Serves, AdapterServes, RouterServes, Told
  <2>3. QED
    BY <2>2 DEF Serving, AnswersTo
<1>4. QED
  BY <1>2, <1>3

LEMMA ServeBegins == InferInit => Serves
<1> SUFFICES ASSUME InferInit
             PROVE  Serves
  OBVIOUS
<1>1. \A x \in Actors : act[x] = NoCommand
  BY DEF InferInit
<1>2. NoCommand.ready = FALSE /\ NoCommand.pc = "idle"
  BY DEF NoCommand
<1>3. "onboard" \in Actors /\ Connects \subseteq Actors
  BY DEF Actors
<1>4. me = NoCommand
  BY <1>1, <1>3 DEF me
<1>5. QED
  BY <1>1, <1>2, <1>3, <1>4 DEF Serves, ProxyServes, AdapterServes, RouterServes, ConnectsUnready,
                           Restarting, Before, Told

(***************************************************************************)
(* Moves of the commands.                                                  *)
(***************************************************************************)
LEMMA MoveActs ==
  ASSUME act \in [Actors -> Commands], NEW a \in Actors, NEW r, Go(a, r) \/ Alone(a, r)
  PROVE  /\ act'[a] = r
         /\ \A x \in Actors : x # a => act'[x] = Disturbed(act[x]) \/ (Go(a, r) /\ act'[x] = act[x])
  BY DEF Go, Alone

LEMMA DisturbedRecord ==
  ASSUME NEW r \in Commands
  PROVE  /\ Disturbed(r).ready = FALSE /\ Disturbed(r).calm = FALSE
         /\ Disturbed(r).pc = r.pc /\ Disturbed(r).ret = r.ret /\ Disturbed(r).mem = r.mem
         /\ Disturbed(r).child = r.child
  BY DEF Disturbed, Commands

LEMMA NoCommandRecord ==
  NoCommand.ready = FALSE /\ NoCommand.calm = TRUE /\ NoCommand.pc = "idle" /\ NoCommand.ret = "idle"
  BY DEF NoCommand

(* The early steps of an onboarding, up to the setup of the helper.        *)
EarlyStep ==
  \/ SelectRemote \/ SelectHermes \/ SelectVllm \/ SelectNim \/ SelectUnproxied \/ SelectBedrock
  \/ SelectRouted \/ AwaitProxy \/ SelectModel \/ RecordSelection \/ ApplySelection \/ SetupOther \/ CheckOllama
EarlyPc  == {"select", "await", "model", "record", "apply", "other", "check"}
EarlyPcs == {"select", "model", "record", "apply", "other", "verify", "finish", "check", "adapter", "router", "ensure"}

LEMMA PickMoves ==
  ASSUME me \in Commands, NEW pc \in {"select", "record"}, NEW sel, NEW named, Pick(pc, sel, named)
  PROVE  /\ \E r : /\ Go(O, r) /\ r.pc \in EarlyPcs /\ (r.ready => me.ready) /\ (r.calm => me.calm)
                   /\ r.ret = me.ret
         /\ me.pc = "select"
         /\ UNCHANGED <<keys, processes, taken>>
<1> DEFINE r == [me EXCEPT !.pc = pc, !.sel = sel, !.named = named]
<1>1. r.pc = pc /\ r.ready = me.ready /\ r.calm = me.calm /\ r.ret = me.ret
  BY DEF Commands
<1>2. Go(O, r) /\ me.pc = "select" /\ UNCHANGED <<keys, processes, taken>>
  BY DEF Pick, OnboardAt, World, SameHelper
<1> HIDE DEF r
<1>3. QED
  BY <1>1, <1>2 DEF EarlyPcs

LEMMA EarlyMoves ==
  ASSUME InferIInv, EarlyStep
  PROVE  /\ \E r : /\ Go(O, r) \/ Alone(O, r)
                   /\ r.pc \in EarlyPcs /\ (r.ready => me.ready) /\ (r.calm => me.calm)
         /\ me.pc \in EarlyPc
         /\ UNCHANGED <<keys, processes, taken>>
<1>0. me \in Commands /\ O = "onboard" /\ act[O] = me
  BY MeIn DEF InferIInv
<1>1. CASE SelectRemote \/ SelectHermes \/ SelectVllm \/ SelectNim \/ SelectUnproxied \/ SelectBedrock
           \/ SelectRouted
  <2>1. \E pc \in {"select", "record"} : \E sel, named : Pick(pc, sel, named)
    BY <1>1 DEF SelectRemote, SelectHermes, SelectVllm, SelectNim, SelectUnproxied, SelectBedrock, SelectRouted
  <2>2. QED
    BY <1>0, <2>1, PickMoves DEF EarlyPc
<1>2. CASE AwaitProxy
  <2> DEFINE r == [me EXCEPT !.pc = "model", !.sel = "helper", !.ret = "idle", !.child = NoProc]
  <2>1. r.pc = "model" /\ r.ready = me.ready /\ r.calm = me.calm
    BY <1>0 DEF Commands
  <2>2. Go(O, r) /\ me.pc = "await" /\ UNCHANGED <<keys, processes, taken>>
    BY <1>2 DEF AwaitProxy, OnboardAt, World, SameHelper
  <2> HIDE DEF r
  <2>3. QED
    BY <2>1, <2>2 DEF EarlyPcs, EarlyPc
<1>3. CASE SelectModel
  <2>1. me.pc = "model" /\ UNCHANGED <<keys, processes, taken>>
    BY <1>3 DEF SelectModel, OnboardAt, World, SameHelper
  <2> DEFINE r == [me EXCEPT !.pc = "record", !.named = TRUE]
             s == To(O, "select")
  <2>2. r.pc = "record" /\ r.ready = me.ready /\ r.calm = me.calm
    BY <1>0 DEF Commands
  <2>3. s.pc = "select" /\ s.ready = me.ready /\ s.calm = me.calm
    BY <1>0 DEF Commands, To
  <2>4. Go(O, r) \/ Go(O, s)
    BY <1>3 DEF SelectModel
  <2> HIDE DEF r, s
  <2>5. QED
    BY <2>1, <2>2, <2>3, <2>4 DEF EarlyPcs, EarlyPc
<1>4. CASE RecordSelection \/ ApplySelection \/ CheckOllama \/ SetupOther
  <2>1. me.pc \in EarlyPc /\ UNCHANGED <<keys, processes, taken>>
    BY <1>4 DEF RecordSelection, ApplySelection, CheckOllama, SetupOther, OnboardAt, World, SameHelper, EarlyPc
  <2>2. \/ \E pc \in EarlyPcs : Go(O, To(O, pc)) \/ Alone(O, To(O, pc))
        \/ \E pc \in EarlyPcs, ret \in InferPc : Go(O, Call(O, pc, ret))
        \/ Go(O, Back)
    <3>1. /\ {"apply", "finish", "other", "check", "adapter", "verify", "router", "ensure"} \subseteq EarlyPcs
          /\ {"finish", "upsert", "healthy", "token"} \subseteq InferPc
      BY DEF EarlyPcs, InferPc
    <3>2. CASE RecordSelection
      BY <3>1, <3>2 DEF RecordSelection
    <3>3. CASE ApplySelection
      <4>1. \/ Go(O, To(O, "finish")) \/ Go(O, To(O, "other")) \/ Go(O, To(O, "check")) \/ Go(O, To(O, "adapter"))
            \/ Go(O, Call(O, "router", "finish")) \/ Go(O, Call(O, "router", "upsert"))
        BY <3>3 DEF ApplySelection
      <4>2. QED
        BY <3>1, <4>1
    <3>4. CASE CheckOllama
      BY <3>1, <3>4 DEF CheckOllama
    <3>5. CASE SetupOther
      BY <3>1, <3>5 DEF SetupOther
    <3>6. QED
      BY <1>4, <3>2, <3>3, <3>4, <3>5
  <2>3. CASE \E pc \in EarlyPcs : Go(O, To(O, pc)) \/ Alone(O, To(O, pc))
    <3>1. PICK pc \in EarlyPcs : Go(O, To(O, pc)) \/ Alone(O, To(O, pc))
      BY <2>3
    <3>2. To(O, pc).pc = pc /\ To(O, pc).ready = me.ready /\ To(O, pc).calm = me.calm
      BY <1>0 DEF Commands, To
    <3>3. QED
      BY <2>1, <3>1, <3>2
  <2>4. CASE \E pc \in EarlyPcs, ret \in InferPc : Go(O, Call(O, pc, ret))
    <3>1. PICK pc \in EarlyPcs, ret \in InferPc : Go(O, Call(O, pc, ret))
      BY <2>4
    <3>2. Call(O, pc, ret).pc = pc /\ Call(O, pc, ret).ready = me.ready /\ Call(O, pc, ret).calm = me.calm
      BY <1>0 DEF Commands, Call
    <3>3. QED
      BY <2>1, <3>1, <3>2
  <2>5. CASE Go(O, Back)
    <3>1. Back.pc = "select" /\ Back.ready = FALSE /\ Back.calm = me.calm
      BY <1>0 DEF Commands, Back
    <3>2. QED
      BY <2>1, <2>5, <3>1 DEF EarlyPcs
  <2>6. QED
    BY <2>2, <2>3, <2>4, <2>5
<1>5. QED
  BY <1>1, <1>2, <1>3, <1>4 DEF EarlyStep

(* The late ones, from the gateway's provider on.                          *)
LateStep == UpsertHelper \/ ApplyRoute \/ VerifyRoute \/ FinishInference

LEMMA LateMoves ==
  ASSUME InferIInv, LateStep
  PROVE  /\ \E r : /\ Go(O, r) \/ Alone(O, r)
                   /\ r.pc \in Told \cup {"select", "idle"} /\ (r.pc = "select" => helper # "router")
                   /\ (r.ready => me.ready /\ r.pc \in Told /\ gwKey' = IF me.pc = "upsert" THEN me.mem ELSE gwKey)
                   /\ (r.calm => me.calm \/ r.pc = "idle")
         /\ me.pc \in {"upsert"} \cup Told
         /\ UNCHANGED <<saved, processes, taken>>
<1>0. me \in Commands /\ O = "onboard" /\ act[O] = me
  BY MeIn DEF InferIInv
<1>1. me.pc \in {"upsert"} \cup Told /\ UNCHANGED <<saved, processes, taken>>
  BY DEF LateStep, UpsertHelper, ApplyRoute, VerifyRoute, FinishInference, OnboardAt, World, SameHelper,
         keys, Told
<1>2. Back.pc = "select" /\ Back.ready = FALSE /\ Back.calm = me.calm
  BY <1>0 DEF Commands, Back
<1>3. CASE Go(O, Back) /\ helper # "router"
  BY <1>1, <1>2, <1>3
<1>4. CASE UpsertHelper /\ gwKey' = me.mem /\ Go(O, [me EXCEPT !.pc = "route", !.mem = NoSecret])
  <2> DEFINE r == [me EXCEPT !.pc = "route", !.mem = NoSecret]
  <2>1. r.pc = "route" /\ r.ready = me.ready /\ r.calm = me.calm
    BY <1>0 DEF Commands
  <2>2. Go(O, r) /\ me.pc = "upsert"
    BY <1>4 DEF UpsertHelper, OnboardAt
  <2> HIDE DEF r
  <2>3. QED
    BY <1>1, <1>4, <2>1, <2>2 DEF Told
<1>5. CASE UNCHANGED gwKey /\ me.pc # "upsert" /\ \E pc \in Told : Go(O, To(O, pc)) \/ Alone(O, To(O, pc))
  <2>1. PICK pc \in Told : Go(O, To(O, pc)) \/ Alone(O, To(O, pc))
    BY <1>5
  <2>2. To(O, pc).pc = pc /\ To(O, pc).ready = me.ready /\ To(O, pc).calm = me.calm
    BY <1>0 DEF Commands, To
  <2>3. pc # "select"
    BY DEF Told
  <2>4. QED
    BY <1>1, <1>5, <2>1, <2>2, <2>3
<1>6. CASE Go(O, NoCommand)
  BY <1>1, <1>6, NoCommandRecord
<1>7. QED
  <2>1. CASE UpsertHelper
    BY <2>1, <1>3, <1>4 DEF UpsertHelper
  <2>2. CASE ApplyRoute
    BY <2>2, <1>3, <1>5 DEF ApplyRoute, OnboardAt, Told, SameHelper, keys
  <2>3. CASE VerifyRoute
    BY <2>3, <1>5 DEF VerifyRoute, OnboardAt, Told, SameHelper, keys
  <2>4. CASE FinishInference
    BY <2>4, <1>6 DEF FinishInference
  <2>5. QED
    BY <2>1, <2>2, <2>3, <2>4 DEF LateStep

(* A connect.                                                              *)
LEMMA ConnectMoves ==
  ASSUME InferIInv, NEW c \in Connects, ConnectInfers(c)
  PROVE  /\ \E r : /\ Go(c, r) \/ Alone(c, r)
                   /\ r.pc \notin Restarting /\ (r.ready => act[c].ready)
         /\ UNCHANGED <<keys, processes, taken>>
<1>0. act[c] \in Commands
  BY DEF InferIInv, ActIn, Actors
<1>1. UNCHANGED <<keys, processes, taken>>
  BY DEF ConnectInfers, BeginConnect, SwapRoute, RepairRoute, VerifyDependencies, ResetRoute, World, SameHelper
<1>2. CASE BeginConnect(c)
  <2>1. PICK b \in Sandboxes, pc \in {"ensure", "swap"} :
               Go(c, [NoCommand EXCEPT !.pc = pc, !.ret = "swap", !.box = b])
    BY <1>2 DEF BeginConnect
  <2> DEFINE r == [NoCommand EXCEPT !.pc = pc, !.ret = "swap", !.box = b]
  <2>2. r.pc = pc /\ r.ready = FALSE
    BY DEF NoCommand
  <2>3. Go(c, r)
    BY <2>1
  <2> HIDE DEF r
  <2>4. QED
    BY <1>1, <2>2, <2>3 DEF Restarting
<1>3. CASE SwapRoute(c)
  <2> DEFINE r == [act[c] EXCEPT !.pc = "probe", !.sel = providerOf[act[c].box], !.mem = NoSecret]
  <2>1. r.pc = "probe" /\ r.ready = act[c].ready
    BY <1>0 DEF Commands
  <2>2. Go(c, r) \/ Alone(c, r)
    BY <1>3 DEF SwapRoute
  <2> HIDE DEF r
  <2>3. QED
    BY <1>1, <2>1, <2>2 DEF Restarting
<1>4. CASE RepairRoute(c) \/ VerifyDependencies(c) \/ ResetRoute(c)
  <2>1. \/ \E pc \in {"deps", "again", "reset", "last"} : Go(c, To(c, pc)) \/ Alone(c, To(c, pc))
        \/ \E ret : Go(c, Call(c, "ensure", ret))
    BY <1>4 DEF RepairRoute, VerifyDependencies, ResetRoute
  <2>2. \A pc : To(c, pc).pc = pc /\ To(c, pc).ready = act[c].ready
    BY <1>0 DEF Commands, To
  <2>3. \A ret : Call(c, "ensure", ret).pc = "ensure" /\ Call(c, "ensure", ret).ready = act[c].ready
    BY <1>0 DEF Commands, Call
  <2>4. QED
    BY <1>1, <2>1, <2>2, <2>3 DEF Restarting
<1>5. QED
  BY <1>2, <1>3, <1>4 DEF ConnectInfers

(* The environment and a destroy.                                          *)
LEMMA WorldMoves ==
  ASSUME InferIInv, Surroundings \/ \E b \in Sandboxes : DestroyUser(b)
  PROVE  /\ UNCHANGED keys /\ (taken => taken')
         /\ \/ \A x \in Actors : act'[x] \in {Disturbed(act[x]), NoCommand}
            \/ /\ \E p \in Procs : HelperBinds(p)
               /\ ListenersStay /\ UNCHANGED <<pidFile, taken>>
               /\ \A x \in Actors : act'[x] \in {act[x], Disturbed(act[x])}
<1>1. UNCHANGED keys
  BY DEF Surroundings, HelperBinds, HelperDies, OtherStarts, PortTaken, Reboot, Happens, DestroyUser, keys
<1>2. taken => taken'
  BY DEF Surroundings, HelperBinds, HelperDies, OtherStarts, PortTaken, Reboot, Happens, DestroyUser
<1>3. CASE \E p \in Procs : HelperBinds(p)
  <2>1. PICK p \in Procs : HelperBinds(p)
    BY <1>3
  <2>2. \A x \in Actors : act'[x] \in {act[x], Disturbed(act[x])}
    BY <2>1 DEF HelperBinds
  <2>3. \A q \in Procs : q # p => proc'[q] = proc[q]
    BY <2>1 DEF HelperBinds, InferIInv, InferTypeOK
  <2>4. p \notin Listening
    BY <2>1 DEF HelperBinds, Listening
  <2>5. ListenersStay
    BY <2>3, <2>4 DEF ListenersStay, Listening
  <2>6. UNCHANGED <<pidFile, taken>>
    BY <2>1 DEF HelperBinds
  <2>7. QED
    BY <1>1, <1>2, <2>1, <2>2, <2>5, <2>6
<1>4. CASE ~\E p \in Procs : HelperBinds(p)
  <2>1. \/ act' = [x \in Actors |-> Disturbed(act[x])]
        \/ act' = [x \in Actors |-> NoCommand]
    BY <1>4 DEF Surroundings, HelperDies, OtherStarts, PortTaken, Reboot, Happens, DestroyUser
  <2>2. \A x \in Actors : act'[x] \in {Disturbed(act[x]), NoCommand}
    BY <2>1
  <2>3. QED
    BY <1>1, <1>2, <2>2
<1>5. QED
  BY <1>3, <1>4

(* The helper's own steps: what becomes of the command, and of what        *)
(* listens where the command does not disturb the others.                  *)
LEMMA HelperFields ==
  ASSUME InferIInv, NEW a \in Actors
  PROVE  /\ act[a] \in Commands /\ Placed(helper, a, act[a])
         /\ \A pc : To(a, pc).pc = pc /\ To(a, pc).ready = act[a].ready /\ To(a, pc).calm = act[a].calm
                    /\ To(a, pc).ret = act[a].ret /\ To(a, pc).mem = act[a].mem /\ To(a, pc).child = act[a].child
         /\ \A ok : Return(a, ok).pc = act[a].ret /\ Return(a, ok).ready = (ok /\ act[a].calm)
                    /\ Return(a, ok).calm = act[a].calm /\ Return(a, ok).mem = act[a].mem
  BY DEF InferIInv, ActIn, Commands, To, Return

LEMMA StayUnchanged ==
  ASSUME UNCHANGED proc
  PROVE  ListenersStay
  BY DEF ListenersStay, Listening

LEMMA StaySpawned ==
  ASSUME InferIInv, NEW p \in Procs, proc[p].is = "free", NEW key, proc' = [proc EXCEPT ![p] = Child(key)]
  PROVE  /\ ListenersStay /\ Listening' = Listening /\ proc'[p] = Child(key)
         /\ \A q \in Procs : q # p => proc'[q] = proc[q]
<1>1. proc'[p] = Child(key) /\ \A q \in Procs : q # p => proc'[q] = proc[q]
  BY DEF InferIInv, InferTypeOK
<1>2. p \notin Listening /\ ~Child(key).up
  BY DEF Listening, Child
<1>3. Listening' = Listening
  BY <1>1, <1>2 DEF Listening
<1>4. QED
  BY <1>1, <1>2, <1>3 DEF ListenersStay, Listening

LEMMA StayAnswers ==
  ASSUME ListenersStay, NEW key
  PROVE  AnswersTo(key) => AnswersTo(key)'
  BY DEF ListenersStay, AnswersTo

(***************************************************************************)
(* The proxy.                                                              *)
(***************************************************************************)
(* A command that has not become ready keeps what it may rely on while the *)
(* listeners stay and the token on disk only appears.                      *)
LEMMA ProxyKeeps ==
  ASSUME NEW x \in Actors, ProxyServes(x), taken => taken',
         saved' = saved \/ (saved = NoSecret /\ ~act'[x].ready),
         act'[x].ready => /\ act[x].ready /\ ListenersStay
                          /\ IF x = "onboard" THEN act'[x].pc \in Settled ELSE act'[x].pc \notin Restarting
                          /\ x = "onboard" /\ act'[x].pc \in Told => gwKey' = saved,
         act'[x].pc \in Restarting /\ act'[x].ret \notin {"await", "health"} =>
           act[x].pc \in Restarting /\ act'[x].ret = act[x].ret /\ act'[x].mem = act[x].mem
  PROVE  ProxyServes(x)'
<1>1. act'[x].ready => saved' = saved /\ saved # NoSecret /\ (~taken' => AnswersTo(saved)')
  BY StayAnswers DEF ProxyServes, AnswersTo
<1>2. act'[x].pc \in Restarting /\ ~FreshKey(x)' => saved # NoSecret /\ act'[x].mem = saved
  BY DEF ProxyServes, FreshKey
<1>3. act'[x].pc \in Restarting /\ ~FreshKey(x)' => saved' # NoSecret /\ act'[x].mem = saved'
  BY <1>2
<1>4. QED
  BY <1>1, <1>3 DEF ProxyServes

LEMMA ProxyStill ==
  ASSUME InferIInv, \A x \in Actors : ProxyServes(x), taken => taken',
         NEW x \in Actors,
         saved' = saved \/ saved = NoSecret,
         x = "onboard" => gwKey' = gwKey,
         act'[x] \in {Disturbed(act[x]), NoCommand} \/ (act'[x] = act[x] /\ ListenersStay)
  PROVE  ProxyServes(x)'
<1>1. act[x] \in Commands
  BY DEF InferIInv, ActIn
<1>2. ProxyServes(x) /\ (saved = NoSecret => ~act[x].ready)
  BY DEF ProxyServes
<1>3. CASE act'[x] = Disturbed(act[x])
  BY <1>1, <1>2, <1>3, DisturbedRecord, ProxyKeeps
<1>4. CASE act'[x] = NoCommand
  <2>1. NoCommand.pc \notin Restarting
    BY NoCommandRecord DEF Restarting
  <2>2. QED
    BY <1>2, <1>4, <2>1, NoCommandRecord, ProxyKeeps
<1>5. CASE act'[x] = act[x] /\ ListenersStay
  <2>1. act[x].ready => IF x = "onboard" THEN act[x].pc \in Settled ELSE act[x].pc \notin Restarting
    BY <1>2 DEF ProxyServes
  <2>2. act[x].ready /\ x = "onboard" /\ act[x].pc \in Told => gwKey' = saved
    BY <1>2 DEF ProxyServes
  <2>3. QED
    BY <1>2, <1>5, <2>1, <2>2, ProxyKeeps
<1>6. QED
  BY <1>3, <1>4, <1>5

LEMMA ProxyMoves ==
  ASSUME InferIInv, \A x \in Actors : ProxyServes(x), taken' = taken,
         NEW a \in Actors, NEW r, (Go(a, r) /\ ListenersStay) \/ Alone(a, r),
         saved' = saved \/ saved = NoSecret, a = "onboard" \/ gwKey' = gwKey,
         act'[a] = r => ProxyServes(a)'
  PROVE  \A x \in Actors : ProxyServes(x)'
<1>1. act \in [Actors -> Commands]
  BY DEF InferIInv, ActIn
<1>2. /\ act'[a] = r
      /\ \A x \in Actors : x # a => act'[x] = Disturbed(act[x]) \/ (ListenersStay /\ act'[x] = act[x])
  BY <1>1 DEF Go, Alone
<1>3. \A x \in Actors : x # a => ProxyServes(x)'
  BY <1>2, ProxyStill
<1>4. QED
  BY <1>2, <1>3

(* A command at rest.                                                      *)
LEMMA ProxyRests ==
  ASSUME InferIInv, \A x \in Actors : ProxyServes(x), taken' = taken,
         NEW a \in Actors, NEW r, (Go(a, r) /\ ListenersStay) \/ Alone(a, r),
         UNCHANGED saved, a = "onboard" \/ gwKey' = gwKey,
         ~r.ready, r.pc \notin Restarting \/ r.ret \in {"await", "health"}
  PROVE  \A x \in Actors : ProxyServes(x)'
<1>1. ASSUME act'[a] = r PROVE ProxyServes(a)'
  BY <1>1, ProxyKeeps
<1>2. QED
  BY <1>1, ProxyMoves

LEMMA BeginMoves ==
  ASSUME InferIInv, BeginOnboard
  PROVE  /\ \E r : Go(O, r) /\ ~r.ready /\ r.pc \in {"select", "apply"}
                   /\ r.calm = ~Strays(pidFile', saved')
         /\ UNCHANGED <<gwKey, proc, taken>>
         /\ helper # "router" => UNCHANGED <<saved, pidFile>>
<1>1. UNCHANGED <<gwKey, proc, taken>> /\ (helper # "router" => UNCHANGED <<saved, pidFile>>)
  BY DEF BeginOnboard
<1>2. CASE /\ UNCHANGED <<saved, pidFile>>
           /\ Go(O, [NoCommand EXCEPT !.pc = IF sess.sel = "none" THEN "select" ELSE "apply", !.resume = TRUE,
                              !.box = sess.box, !.sel = IF sess.sel = "none" THEN @ ELSE sess.sel,
                              !.named = sess.sel # "none", !.calm = ~Strays(pidFile, saved)])
  <2> DEFINE pc == IF sess.sel = "none" THEN "select" ELSE "apply"
             sel == IF sess.sel = "none" THEN NoCommand.sel ELSE sess.sel
             calm == ~Strays(pidFile, saved)
             r == [NoCommand EXCEPT !.pc = pc, !.resume = TRUE, !.box = sess.box, !.sel = sel,
                                    !.named = sess.sel # "none", !.calm = calm]
  <2>1. pc \in {"select", "apply"}
    OBVIOUS
  <2>2. Go(O, r)
    BY <1>2
  <2>3. calm = ~Strays(pidFile', saved')
    BY <1>2
  <2> HIDE DEF pc, sel, calm
  <2>4. r.pc = pc /\ r.ready = FALSE /\ r.calm = calm
    BY DEF NoCommand
  <2> HIDE DEF r
  <2>5. QED
    BY <1>1, <2>1, <2>2, <2>3, <2>4
<1>3. CASE \E b \in Sandboxes : /\ Go(O, [NoCommand EXCEPT !.pc = "select", !.box = b,
                                                           !.calm = ~Strays(NoProc, NoSecret)])
                                /\ IF helper = "router" THEN saved' = NoSecret /\ pidFile' = NoProc
                                   ELSE UNCHANGED <<saved, pidFile>>
  <2> DEFINE calm == ~Strays(NoProc, NoSecret)
  <2>1. PICK b \in Sandboxes : /\ Go(O, [NoCommand EXCEPT !.pc = "select", !.box = b, !.calm = calm])
                               /\ IF helper = "router" THEN saved' = NoSecret /\ pidFile' = NoProc
                                  ELSE UNCHANGED <<saved, pidFile>>
    BY <1>3
  <2>2. calm = ~Strays(pidFile', saved')
    <3>1. CASE helper = "router"
      BY <2>1, <3>1
    <3>2. CASE helper # "router"
      BY <3>2 DEF Strays
    <3>3. QED
      BY <3>1, <3>2
  <2> DEFINE r == [NoCommand EXCEPT !.pc = "select", !.box = b, !.calm = calm]
  <2>3. Go(O, r)
    BY <2>1
  <2> HIDE DEF calm
  <2>4. r.pc = "select" /\ r.ready = FALSE /\ r.calm = calm
    BY DEF NoCommand
  <2> HIDE DEF r
  <2>5. QED
    BY <1>1, <2>2, <2>3, <2>4
<1>4. QED
  BY <1>2, <1>3 DEF BeginOnboard

AdapterSteps    == EnsureAdapter \/ AwaitAdapter \/ KeepAdapterToken
RouterMoves     == ReconcileRouter \/ StopRouter \/ ReapRouter \/ StartRouter \/ RouterUp \/ RecordRouter
ProxySteps      == SelectOllama \/ ProxyHealthy \/ PersistToken

LEMMA OnboardCases ==
  OnboardInfers => BeginOnboard \/ EarlyStep \/ LateStep \/ AdapterSteps \/ RouterMoves \/ ProxySteps
  BY DEF OnboardInfers, EarlyStep, LateStep, AdapterSteps, RouterMoves, ProxySteps

LEMMA OwnHelper ==
  ASSUME InferIInv
  PROVE  /\ AdapterSteps => helper = "adapter"
         /\ RouterMoves => helper = "router"
         /\ ProxySteps => helper = "proxy"
<1>1. Placed(helper, O, me) /\ me = act[O]
  BY MeIn DEF InferIInv
<1>2. QED
  BY <1>1 DEF AdapterSteps, RouterMoves, ProxySteps, Placed, OnboardAt, RouterSteps,
              EnsureAdapter, AwaitAdapter, KeepAdapterToken, ReconcileRouter, StopRouter, ReapRouter,
              StartRouter, RouterUp, RecordRouter, SelectOllama, ProxyHealthy, PersistToken

LEMMA ProxyOnboards ==
  ASSUME InferIInv, helper = "proxy", \A x \in Actors : ProxyServes(x), OnboardInfers
  PROVE  \A x \in Actors : ProxyServes(x)'
<1>0. /\ me \in Commands /\ O = "onboard" /\ act[O] = me /\ O \in Actors
      /\ Holds(helper, saved, me) /\ ProxyServes(O)
  BY MeIn DEF InferIInv
<1>1. CASE BeginOnboard
  <2>1. PICK r : Go(O, r) /\ ~r.ready /\ r.pc \in {"select", "apply"}
    BY <1>1, BeginMoves
  <2>2. UNCHANGED <<saved, taken>> /\ ListenersStay
    BY <1>1, BeginMoves, StayUnchanged
  <2>3. r.pc \notin Restarting
    BY <2>1 DEF Restarting
  <2>4. QED
    BY <1>0, <2>1, <2>2, <2>3, ProxyRests
<1>2. CASE EarlyStep
  <2>1. PICK r : (Go(O, r) \/ Alone(O, r)) /\ r.pc \in EarlyPcs /\ (r.ready => me.ready)
    BY <1>2, EarlyMoves
  <2>2. UNCHANGED <<saved, taken>> /\ ListenersStay /\ me.pc \in EarlyPc
    BY <1>2, EarlyMoves, StayUnchanged DEF keys, processes
  <2>3. ~r.ready /\ r.pc \notin Restarting
    BY <1>0, <2>1, <2>2 DEF ProxyServes, EarlyPc, EarlyPcs, Settled, Told, Restarting
  <2>4. QED
    BY <1>0, <2>1, <2>2, <2>3, ProxyRests
<1>3. CASE LateStep
  <2>1. PICK r : /\ Go(O, r) \/ Alone(O, r)
                 /\ r.pc \in Told \cup {"select", "idle"}
                 /\ (r.ready => me.ready /\ r.pc \in Told /\ gwKey' = IF me.pc = "upsert" THEN me.mem ELSE gwKey)
    BY <1>3, LateMoves
  <2>2. UNCHANGED <<saved, taken>> /\ ListenersStay /\ me.pc \in {"upsert"} \cup Told
    BY <1>3, LateMoves, StayUnchanged DEF processes
  <2>3. r.ready => gwKey' = saved
    BY <1>0, <2>1, <2>2 DEF ProxyServes, Holds
  <2>4. r.pc \notin Restarting
    BY <2>1 DEF Restarting, Told
  <2>5. ASSUME act'[O] = r PROVE ProxyServes(O)'
    BY <1>0, <2>1, <2>2, <2>3, <2>4, <2>5, ProxyKeeps DEF Settled
  <2>6. QED
    BY <1>0, <2>1, <2>2, <2>5, ProxyMoves
<1>4. CASE SelectOllama
  <2> DEFINE r == [me EXCEPT !.pc = "kill", !.ret = "await", !.ready = FALSE]
  <2>1. r.ret = "await" /\ r.ready = FALSE
    BY <1>0 DEF Commands
  <2>2. Go(O, r) /\ UNCHANGED <<saved, taken>> /\ ListenersStay
    BY <1>4, StayUnchanged DEF SelectOllama, World, SameHelper, keys, processes
  <2> HIDE DEF r
  <2>3. QED
    BY <1>0, <2>1, <2>2, ProxyRests
<1>5. CASE ProxyHealthy
  <2> DEFINE r == To(O, "token")
  <2>1. r.pc = "token" /\ r.ready = me.ready
    BY <1>0, HelperFields
  <2>2. Go(O, r) /\ UNCHANGED <<saved, taken, gwKey>> /\ ListenersStay
    BY <1>5, StayUnchanged DEF ProxyHealthy, World, SameHelper, keys, processes
  <2> HIDE DEF r
  <2>3. r.pc \in Settled /\ r.pc \notin Told /\ r.pc \notin Restarting
    BY <2>1 DEF Settled, Told, Restarting
  <2>4. ASSUME act'[O] = r PROVE ProxyServes(O)'
    BY <1>0, <2>1, <2>2, <2>3, <2>4, ProxyKeeps
  <2>5. QED
    BY <1>0, <2>2, <2>4, ProxyMoves
<1>6. CASE PersistToken
  <2> DEFINE r == [me EXCEPT !.pc = "upsert", !.mem = Token]
  <2>1. r.pc = "upsert" /\ r.ready = me.ready
    BY <1>0 DEF Commands
  <2>2. Go(O, r) /\ UNCHANGED <<taken, gwKey>> /\ ListenersStay /\ saved' = Token /\ me.pc = "token"
    BY <1>6, StayUnchanged DEF PersistToken, World, processes, OnboardAt
  <2>3. saved = NoSecret \/ me.mem = saved
    BY <1>0, <2>2 DEF Holds, ToOnboard
  <2>4. saved' = saved \/ saved = NoSecret
    BY <2>2, <2>3 DEF Token
  <2> HIDE DEF r
  <2>5. r.pc \in Settled /\ r.pc \notin Told /\ r.pc \notin Restarting
    BY <2>1 DEF Settled, Told, Restarting
  <2>6. saved = NoSecret => ~me.ready
    BY <1>0 DEF ProxyServes
  <2>7. ASSUME act'[O] = r PROVE ProxyServes(O)'
    BY <1>0, <2>1, <2>2, <2>4, <2>5, <2>6, <2>7, ProxyKeeps
  <2>8. QED
    BY <1>0, <2>2, <2>4, <2>7, ProxyMoves
<1>7. QED
  BY <1>1, <1>2, <1>3, <1>4, <1>5, <1>6, OnboardCases, OwnHelper DEF ProxySteps

LEMMA ProxyConnects ==
  ASSUME InferIInv, helper = "proxy", \A x \in Actors : ProxyServes(x), NEW c \in Connects, ConnectInfers(c)
  PROVE  \A x \in Actors : ProxyServes(x)'
<1>1. PICK r : (Go(c, r) \/ Alone(c, r)) /\ r.pc \notin Restarting /\ (r.ready => act[c].ready)
  BY ConnectMoves
<1>2. UNCHANGED <<saved, gwKey, taken>> /\ ListenersStay
  BY ConnectMoves, StayUnchanged DEF keys, processes
<1>3. c \in Actors /\ c # "onboard"
  BY NamesApart DEF Actors
<1>4. ASSUME act'[c] = r PROVE ProxyServes(c)'
  BY <1>1, <1>2, <1>3, <1>4, ProxyKeeps
<1>5. QED
  BY <1>1, <1>2, <1>3, <1>4, ProxyMoves

LEMMA ProxyRestarts ==
  ASSUME InferIInv, helper = "proxy", \A x \in Actors : ProxyServes(x), NEW a \in Actors, HelperSteps(a)
  PROVE  \A x \in Actors : ProxyServes(x)'
<1>0. act[a] \in Commands /\ Placed(helper, a, act[a]) /\ ProxyServes(a) /\ UNCHANGED <<gwKey, taken, saved>>
  BY HelperFields DEF HelperSteps, KillStale, Ensure, SpawnHelper, Spawned, PersistPid, EnsurePoll, CommandEnds,
                      World, SameHelper, keys
<1>1. CASE KillStale(a) \/ PersistPid(a)
  <2>1. PICK pc \in {"spawn", "poll", "await"} : Alone(a, To(a, pc)) /\ (pc = "await" => FreshKey(a))
    <3>1. CASE KillStale(a)
      BY <3>1 DEF KillStale
    <3>2. CASE PersistPid(a)
      <4>1. FreshKey(a) => act[a].ret = "await"
        BY <1>0, <3>2 DEF PersistPid, FreshKey, Placed, Restarting, ToOnboard, ToConnect
      <4>2. QED
        BY <3>2, <4>1 DEF PersistPid
    <3>3. QED
      BY <1>1, <3>1, <3>2
  <2>2. act[a].pc \in Restarting /\ ~act[a].ready
    <3>1. act[a].pc \in Restarting
      BY <1>1 DEF KillStale, PersistPid, Restarting
    <3>2. QED
      BY <1>0, <3>1 DEF ProxyServes, Settled, Told, Restarting
  <2> DEFINE r == To(a, pc)
  <2>3. r.pc = pc /\ ~r.ready /\ r.ret = act[a].ret /\ r.mem = act[a].mem
    BY <2>2, HelperFields
  <2> HIDE DEF r
  <2>4. ASSUME act'[a] = r PROVE ProxyServes(a)'
    BY <1>0, <2>2, <2>3, <2>4, ProxyKeeps
  <2>5. Alone(a, r)
    BY <2>1 DEF r
  <2>6. QED
    BY <1>0, <2>4, <2>5, ProxyMoves
<1>2. CASE SpawnHelper(a)
  <2>1. PICK p \in Procs : Alone(a, [act[a] EXCEPT !.pc = "pid", !.mem = KeyOf(a), !.child = p])
    BY <1>2 DEF SpawnHelper, Spawned
  <2> DEFINE r == [act[a] EXCEPT !.pc = "pid", !.mem = KeyOf(a), !.child = p]
  <2>2. act[a].pc \in Restarting /\ ~act[a].ready
    <3>1. act[a].pc = "spawn"
      BY <1>2 DEF SpawnHelper, Spawned
    <3>2. QED
      BY <1>0, <3>1 DEF ProxyServes, Settled, Told, Restarting
  <2>3. ~r.ready /\ r.ret = act[a].ret /\ r.mem = KeyOf(a)
    BY <1>0, <2>2 DEF Commands
  <2>4. r.ret \notin {"await", "health"} => r.mem = act[a].mem
    BY <2>3 DEF KeyOf, FreshKey
  <2>5. Alone(a, r)
    BY <2>1
  <2> HIDE DEF r
  <2>6. ASSUME act'[a] = r PROVE ProxyServes(a)'
    BY <1>0, <2>2, <2>3, <2>4, <2>6, ProxyKeeps
  <2>7. QED
    BY <1>0, <2>5, <2>6, ProxyMoves
<1>3. CASE Ensure(a)
  <2>0. /\ act[a].ret \notin Restarting \cup Told /\ (a = "onboard" => act[a].ret \in Settled)
        /\ ListenersStay
    <3>1. act[a].pc = "ensure" /\ UNCHANGED proc
      BY <1>3 DEF Ensure, SameHelper, processes
    <3>2. QED
      BY <1>0, <3>1, StayUnchanged DEF Placed, Restarting, ToOnboard, ToConnect, Told, Settled
  <2>1. CASE Go(a, Return(a, FALSE))
    <3>1. Return(a, FALSE).pc = act[a].ret /\ ~Return(a, FALSE).ready
      BY HelperFields
    <3>2. QED
      BY <1>0, <2>0, <2>1, <3>1, ProxyRests
  <2>2. CASE Kept /\ saved # NoSecret /\ Go(a, [Return(a, TRUE) EXCEPT !.mem = saved])
    <3> DEFINE r == [Return(a, TRUE) EXCEPT !.mem = saved]
    <3>1. r.pc = act[a].ret
      BY <1>0, HelperFields DEF Return, Commands
    <3> HIDE DEF r
    <3>2. ~taken => AnswersTo(saved)
      BY <2>2 DEF Kept, Accepts, AnswersTo
    <3>3. ~taken' => AnswersTo(saved)'
      BY <1>0, <2>0, <3>2, StayAnswers DEF AnswersTo
    <3>4. ASSUME act'[a] = r PROVE ProxyServes(a)'
      BY <1>0, <2>0, <2>2, <3>1, <3>3, <3>4 DEF ProxyServes
    <3>5. Go(a, r)
      BY <2>2 DEF r
    <3>6. QED
      BY <1>0, <2>0, <3>4, <3>5, ProxyMoves
  <2>3. CASE saved # NoSecret /\ Go(a, [act[a] EXCEPT !.pc = "kill", !.mem = saved, !.ready = FALSE])
    <3> DEFINE r == [act[a] EXCEPT !.pc = "kill", !.mem = saved, !.ready = FALSE]
    <3>1. ~r.ready /\ r.mem = saved
      BY <1>0 DEF Commands
    <3> HIDE DEF r
    <3>2. ASSUME act'[a] = r PROVE ProxyServes(a)'
      BY <1>0, <2>3, <3>1, <3>2 DEF ProxyServes
    <3>3. Go(a, r)
      BY <2>3 DEF r
    <3>4. QED
      BY <1>0, <2>0, <3>2, <3>3, ProxyMoves
  <2>4. QED
    BY <1>3, <2>1, <2>2, <2>3 DEF Ensure
<1>4. CASE EnsurePoll(a)
  <2>0. /\ act[a].ret \notin Restarting \cup Told /\ (a = "onboard" => act[a].ret \in Settled)
        /\ ListenersStay /\ saved # NoSecret /\ act[a].mem = saved
    <3>1. act[a].pc = "poll" /\ UNCHANGED proc
      BY <1>4 DEF EnsurePoll, SameHelper, processes
    <3>2. ~FreshKey(a) /\ act[a].pc \in Restarting
      BY <1>0, <3>1 DEF Placed, Restarting, ToOnboard, ToConnect, FreshKey
    <3>3. saved # NoSecret /\ act[a].mem = saved
      BY <1>0, <3>2 DEF ProxyServes
    <3>4. act[a].ret \in ToOnboard \cup ToConnect /\ (a = "onboard" => act[a].ret \in ToOnboard)
      BY <1>0, <3>1, <3>2 DEF Placed, FreshKey
    <3>5. QED
      BY <3>1, <3>3, <3>4, StayUnchanged DEF Restarting, ToOnboard, ToConnect, Told, Settled
  <2>1. CASE Go(a, Return(a, FALSE))
    <3>1. Return(a, FALSE).pc = act[a].ret /\ ~Return(a, FALSE).ready
      BY HelperFields
    <3>2. QED
      BY <1>0, <2>0, <2>1, <3>1, ProxyRests
  <2>2. CASE Accepts(act[a].mem) /\ Go(a, Return(a, TRUE))
    <3>1. Return(a, TRUE).pc = act[a].ret
      BY HelperFields
    <3>2. ~taken => AnswersTo(saved)
      BY <2>0, <2>2 DEF Accepts, AnswersTo
    <3>3. ~taken' => AnswersTo(saved)'
      BY <1>0, <2>0, <3>2, StayAnswers DEF AnswersTo
    <3>4. ASSUME act'[a] = Return(a, TRUE) PROVE ProxyServes(a)'
      BY <1>0, <2>0, <3>1, <3>3, <3>4 DEF ProxyServes
    <3>5. QED
      BY <1>0, <2>0, <2>2, <3>4, ProxyMoves
  <2>3. QED
    BY <1>4, <2>1, <2>2 DEF EnsurePoll
<1>5. CASE CommandEnds(a)
  <2>1. Go(a, NoCommand) /\ ListenersStay
    BY <1>5, StayUnchanged DEF CommandEnds, SameHelper, processes
  <2>2. NoCommand.pc \notin Restarting
    BY NoCommandRecord DEF Restarting
  <2>3. QED
    BY <1>0, <2>1, <2>2, NoCommandRecord, ProxyRests
<1>6. QED
  BY <1>1, <1>2, <1>3, <1>4, <1>5 DEF HelperSteps

LEMMA ProxyStep ==
  ASSUME InferIInv, helper = "proxy", \A x \in Actors : ProxyServes(x), InferNext
  PROVE  \A x \in Actors : ProxyServes(x)'
<1>1. CASE Surroundings \/ \E b \in Sandboxes : DestroyUser(b)
  BY <1>1, WorldMoves, ProxyStill DEF keys
<1>2. QED
  BY <1>1, ProxyOnboards, ProxyConnects, ProxyRestarts DEF InferNext

(***************************************************************************)
(* The adapter and the router: only the onboarding depends on them.        *)
(***************************************************************************)
(* A connect never restarts them.                                          *)
LEMMA ConnectsAway ==
  ASSUME InferIInv, helper # "proxy", ConnectsUnready, NEW c \in Connects, ConnectInfers(c) \/ HelperSteps(c)
  PROVE  /\ UNCHANGED <<keys, processes, taken>>
         /\ me' \in {me, Disturbed(me)}
         /\ ConnectsUnready'
<1>0. /\ c \in Actors /\ c # "onboard" /\ act[c] \in Commands /\ Placed(helper, c, act[c])
      /\ act \in [Actors -> Commands]
      /\ \A x \in Connects : ~act[x].ready
  BY NamesApart DEF Actors, InferIInv, ActIn, ConnectsUnready
<1>1. ASSUME HelperSteps(c)
      PROVE  UNCHANGED <<keys, processes, taken>> /\ \E r : Go(c, r) /\ ~r.ready
  <2>1. Ensure(c) \/ CommandEnds(c)
    BY <1>0, <1>1 DEF HelperSteps, KillStale, SpawnHelper, Spawned, PersistPid, EnsurePoll, Placed, Restarting
  <2>2. Go(c, Return(c, FALSE)) \/ Go(c, NoCommand)
    BY <1>0, <2>1 DEF Ensure, CommandEnds
  <2>3. UNCHANGED <<keys, processes, taken>>
    BY <2>1 DEF Ensure, CommandEnds, World, SameHelper
  <2>4. ~Return(c, FALSE).ready /\ ~NoCommand.ready
    BY <1>0, HelperFields, NoCommandRecord
  <2>5. QED
    BY <2>2, <2>3, <2>4
<1>2. PICK r : (Go(c, r) \/ Alone(c, r)) /\ ~r.ready
  BY <1>0, <1>1, ConnectMoves
<1>3. UNCHANGED <<keys, processes, taken>>
  BY <1>1, ConnectMoves
<1>4. act'[c] = r /\ \A x \in Actors : x # c => act'[x] \in {act[x], Disturbed(act[x])}
  BY <1>0, <1>2, MoveActs
<1>5. me' \in {me, Disturbed(me)}
  BY <1>0, <1>4, NamesApart DEF me
<1>6. ASSUME NEW x \in Connects PROVE ~act'[x].ready
  <2>1. x \in Actors /\ act[x] \in Commands
    BY <1>0 DEF Actors
  <2>2. QED
    BY <1>0, <1>2, <1>4, <2>1, DisturbedRecord
<1>7. QED
  BY <1>3, <1>5, <1>6 DEF ConnectsUnready

LEMMA OnboardUnready ==
  ASSUME InferIInv, ConnectsUnready,
         \/ \E r : Go(O, r) \/ Alone(O, r)
         \/ \A x \in Actors : act'[x] \in {act[x], Disturbed(act[x]), NoCommand}
  PROVE  ConnectsUnready'
<1>0. act \in [Actors -> Commands] /\ O \in Actors /\ \A x \in Connects : x \in Actors /\ x # O /\ act[x] \in Commands
  BY NamesApart, MeIn DEF Actors, InferIInv, ActIn
<1>1. \A x \in Connects : act'[x] \in {act[x], Disturbed(act[x]), NoCommand}
  BY <1>0, MoveActs
<1>2. QED
  BY <1>0, <1>1, DisturbedRecord, NoCommandRecord DEF ConnectsUnready

(* What the onboarding itself does to its command.                         *)
LEMMA MyMove ==
  ASSUME InferIInv, NEW r, Go(O, r) \/ Alone(O, r)
  PROVE  me' = r
  BY MoveActs, MeIn DEF InferIInv, ActIn, me

(***************************************************************************)
(* The adapter.                                                            *)
(***************************************************************************)
LEMMA AdapterStill ==
  ASSUME InferIInv, AdapterServes, UNCHANGED keys,
         me' \in {Disturbed(me), NoCommand} \/ (me' = me /\ ListenersStay)
  PROVE  AdapterServes'
<1>1. me \in Commands
  BY MeIn DEF InferIInv
<1>2. UNCHANGED <<saved, gwKey>>
  BY DEF keys
<1>3. CASE me' = Disturbed(me)
  <2>1. ~me'.ready /\ ~me'.calm /\ me'.pc = me.pc /\ me'.mem = me.mem
    BY <1>1, <1>3, DisturbedRecord
  <2>2. QED
    BY <1>2, <2>1 DEF AdapterServes
<1>4. CASE me' = NoCommand
  BY <1>4, NoCommandRecord DEF AdapterServes
<1>5. CASE me' = me /\ ListenersStay
  <2>1. \A key : AnswersTo(key) => AnswersTo(key)'
    BY <1>5, StayAnswers
  <2>2. AnswersTo(saved) => AnswersTo(saved)'
    BY <1>2, <2>1 DEF AnswersTo
  <2>3. AnswersTo(me.mem) => AnswersTo(me.mem)'
    BY <1>5, <2>1 DEF AnswersTo
  <2>4. QED
    BY <1>2, <1>5, <2>2, <2>3 DEF AdapterServes
<1>6. QED
  BY <1>3, <1>4, <1>5

LEMMA AdapterRests ==
  ASSUME InferIInv, NEW r, Go(O, r) \/ Alone(O, r), ~r.ready, r.pc \notin {"keep", "upsert"}
  PROVE  AdapterServes'
<1>1. me' = r
  BY MyMove
<1>2. QED
  BY <1>1 DEF AdapterServes

LEMMA AdapterOnboards ==
  ASSUME InferIInv, helper = "adapter", AdapterServes, OnboardInfers \/ HelperSteps(O)
  PROVE  AdapterServes' /\ \E r : Go(O, r) \/ Alone(O, r)
<1>0. me \in Commands /\ O = "onboard" /\ act[O] = me /\ O \in Actors /\ Placed(helper, O, me)
  BY MeIn DEF InferIInv
<1>1. CASE BeginOnboard
  BY <1>1, BeginMoves, AdapterRests
<1>2. CASE EarlyStep
  <2>1. PICK r : (Go(O, r) \/ Alone(O, r)) /\ r.pc \in EarlyPcs /\ (r.ready => me.ready)
    BY <1>2, EarlyMoves
  <2>2. me.pc \in EarlyPc
    BY <1>2, EarlyMoves
  <2>3. ~r.ready /\ r.pc \notin {"keep", "upsert"}
    BY <2>1, <2>2 DEF AdapterServes, EarlyPc, EarlyPcs, Told
  <2>4. QED
    BY <2>1, <2>3, AdapterRests
<1>3. CASE LateStep
  <2>1. PICK r : /\ Go(O, r) \/ Alone(O, r)
                 /\ r.pc \in Told \cup {"select", "idle"}
                 /\ (r.ready => me.ready /\ r.pc \in Told /\ gwKey' = IF me.pc = "upsert" THEN me.mem ELSE gwKey)
    BY <1>3, LateMoves
  <2>2. UNCHANGED saved /\ ListenersStay /\ me.pc \in {"upsert"} \cup Told
    BY <1>3, LateMoves, StayUnchanged DEF processes
  <2>3. AnswersTo(saved) => AnswersTo(saved)'
    BY <2>2, StayAnswers DEF AnswersTo
  <2>4. r.ready => gwKey' = saved /\ AnswersTo(saved)
    BY <2>1, <2>2 DEF AdapterServes
  <2>5. r.pc \notin {"keep", "upsert"}
    BY <2>1 DEF Told
  <2>6. me' = r
    BY <2>1, MyMove
  <2>7. QED
    BY <2>1, <2>2, <2>3, <2>4, <2>5, <2>6 DEF AdapterServes
<1>4. CASE EnsureAdapter
  <2>1. UNCHANGED saved /\ ListenersStay /\ me.pc = "adapter" /\ ~me.ready
    BY <1>4, StayUnchanged DEF EnsureAdapter, SameHelper, keys, processes, OnboardAt, AdapterServes, Told
  <2>2. CASE AnswersTo(saved) /\ Go(O, [me EXCEPT !.pc = "upsert", !.mem = saved, !.ready = me.calm])
    <3> DEFINE r == [me EXCEPT !.pc = "upsert", !.mem = saved, !.ready = me.calm]
    <3>1. r.pc = "upsert" /\ r.mem = saved
      BY <1>0 DEF Commands
    <3>2. Go(O, r)
      BY <2>2
    <3> HIDE DEF r
    <3>3. me' = r /\ AnswersTo(saved)'
      BY <2>1, <2>2, <3>2, MyMove, StayAnswers DEF AnswersTo
    <3>4. QED
      BY <2>1, <3>1, <3>2, <3>3 DEF AdapterServes, Told
  <2>3. CASE Go(O, Call(O, "kill", "health"))
    <3>1. Call(O, "kill", "health").pc = "kill" /\ ~Call(O, "kill", "health").ready
      BY <1>0, <2>1 DEF Commands, Call
    <3>2. QED
      BY <2>3, <3>1, AdapterRests
  <2>4. QED
    BY <1>4, <2>2, <2>3 DEF EnsureAdapter, AnswersTo
<1>5. CASE AwaitAdapter
  <2>1. UNCHANGED saved /\ ListenersStay /\ me.pc = "health" /\ ~me.ready
    BY <1>5, StayUnchanged DEF AwaitAdapter, SameHelper, keys, processes, OnboardAt, AdapterServes, Told
  <2>2. CASE AnswersTo(me.mem) /\ Go(O, To(O, "keep"))
    <3>1. To(O, "keep").pc = "keep" /\ ~To(O, "keep").ready /\ To(O, "keep").mem = me.mem
      BY <1>0, <2>1, HelperFields
    <3>2. me' = To(O, "keep")
      BY <2>2, MyMove
    <3>3. AnswersTo(me.mem)'
      BY <2>1, <2>2, <3>1, <3>2, StayAnswers DEF AnswersTo
    <3>4. QED
      BY <2>2, <3>1, <3>2, <3>3 DEF AdapterServes
  <2>3. CASE Go(O, Back)
    <3>1. Back.pc = "select" /\ ~Back.ready
      BY <1>0 DEF Commands, Back
    <3>2. QED
      BY <2>3, <3>1, AdapterRests
  <2>4. QED
    BY <1>5, <2>2, <2>3 DEF AwaitAdapter, AnswersTo
<1>6. CASE KeepAdapterToken
  <2> DEFINE r == [me EXCEPT !.pc = "upsert", !.ret = "idle", !.child = NoProc, !.ready = me.calm]
  <2>1. r.pc = "upsert" /\ r.mem = me.mem /\ r.ready = me.calm
    BY <1>0 DEF Commands
  <2>2. Go(O, r) /\ saved' = me.mem /\ me.pc = "keep" /\ ListenersStay
    BY <1>6, StayUnchanged DEF KeepAdapterToken, OnboardAt, processes
  <2> HIDE DEF r
  <2>3. me' = r
    BY <2>2, MyMove
  <2>4. me.calm => AnswersTo(saved)'
    BY <2>2, StayAnswers DEF AdapterServes, AnswersTo
  <2>5. QED
    BY <2>1, <2>2, <2>3, <2>4 DEF AdapterServes, Told
<1>7. CASE HelperSteps(O) /\ ~CommandEnds(O)
  <2>1. KillStale(O) \/ SpawnHelper(O) \/ PersistPid(O)
    BY <1>0, <1>7 DEF HelperSteps, Ensure, EnsurePoll, Placed, Restarting
  <2>2. ~me.ready /\ (PersistPid(O) => FreshKey(O) /\ me.ret = "health")
    BY <1>0, <2>1 DEF KillStale, SpawnHelper, Spawned, PersistPid, AdapterServes, Told, FreshKey, Placed, Restarting
  <2>3. CASE KillStale(O) \/ PersistPid(O)
    <3>1. \E pc \in {"spawn", "health"} : Alone(O, To(O, pc))
      BY <1>0, <2>2, <2>3 DEF KillStale, PersistPid
    <3>2. \A pc : To(O, pc).pc = pc /\ To(O, pc).ready = me.ready
      BY <1>0, HelperFields
    <3>3. QED
      BY <2>2, <3>1, <3>2, AdapterRests
  <2>4. CASE SpawnHelper(O)
    <3>1. PICK p \in Procs : Alone(O, [me EXCEPT !.pc = "pid", !.mem = KeyOf(O), !.child = p])
      BY <1>0, <2>4 DEF SpawnHelper, Spawned
    <3> DEFINE r == [me EXCEPT !.pc = "pid", !.mem = KeyOf(O), !.child = p]
    <3>2. r.pc = "pid" /\ ~r.ready
      BY <1>0, <2>2 DEF Commands
    <3>3. Alone(O, r)
      BY <3>1
    <3> HIDE DEF r
    <3>4. QED
      BY <3>2, <3>3, AdapterRests
  <2>5. QED
    BY <2>1, <2>3, <2>4
<1>8. CASE CommandEnds(O)
  <2>1. Go(O, NoCommand)
    BY <1>8 DEF CommandEnds
  <2>2. QED
    BY <2>1, NoCommandRecord, AdapterRests
<1>9. QED
  BY <1>1, <1>2, <1>3, <1>4, <1>5, <1>6, <1>7, <1>8, OnboardCases, OwnHelper DEF AdapterSteps

LEMMA AdapterStep ==
  ASSUME InferIInv, helper = "adapter", AdapterServes, ConnectsUnready, InferNext
  PROVE  AdapterServes' /\ ConnectsUnready'
<1>0. O = "onboard" /\ me = act["onboard"] /\ me' = act'["onboard"] /\ "onboard" \in Actors
  BY NamesApart DEF O, me
<1>1. CASE Surroundings \/ \E b \in Sandboxes : DestroyUser(b)
  <2>1. UNCHANGED keys
    BY <1>1, WorldMoves
  <2>2. CASE \A x \in Actors : act'[x] \in {Disturbed(act[x]), NoCommand}
    BY <1>0, <2>1, <2>2, AdapterStill, OnboardUnready
  <2>3. CASE ListenersStay /\ \A x \in Actors : act'[x] \in {act[x], Disturbed(act[x])}
    BY <1>0, <2>1, <2>3, AdapterStill, OnboardUnready
  <2>4. QED
    BY <1>1, <2>2, <2>3, WorldMoves
<1>2. CASE OnboardInfers \/ HelperSteps(O)
  BY <1>2, AdapterOnboards, OnboardUnready
<1>3. CASE \E c \in Connects : ConnectInfers(c) \/ HelperSteps(c)
  <2>1. PICK c \in Connects : ConnectInfers(c) \/ HelperSteps(c)
    BY <1>3
  <2>2. UNCHANGED <<keys, processes>> /\ me' \in {me, Disturbed(me)} /\ ConnectsUnready'
    BY <2>1, ConnectsAway
  <2>3. UNCHANGED keys /\ ListenersStay
    BY <2>2, StayUnchanged DEF processes
  <2>4. QED
    BY <2>2, <2>3, AdapterStill
<1>4. QED
  BY <1>0, <1>1, <1>2, <1>3 DEF InferNext, Actors

(***************************************************************************)
(* The router.                                                             *)
(***************************************************************************)
LEMMA RouterStill ==
  ASSUME InferIInv, RouterServes, UNCHANGED <<keys>>, taken => taken',
         me' \in {Disturbed(me), NoCommand} \/ (me' = me /\ UNCHANGED <<processes, taken>>)
  PROVE  RouterServes'
<1>1. me \in Commands
  BY MeIn DEF InferIInv
<1>2. CASE me' = Disturbed(me)
  <2>1. ~me'.ready /\ ~me'.calm
    BY <1>1, <1>2, DisturbedRecord
  <2>2. QED
    BY <2>1 DEF RouterServes
<1>3. CASE me' = NoCommand
  <2>1. ~me'.ready /\ me'.pc = "idle"
    BY <1>3, NoCommandRecord
  <2>2. me'.pc \notin Before
    BY <2>1 DEF Before
  <2>3. QED
    BY <2>1, <2>2 DEF RouterServes
<1>4. CASE me' = me /\ UNCHANGED <<processes, taken>>
  <2>1. UNCHANGED <<saved, pidFile, proc, taken>> /\ me' = me
    BY <1>4 DEF keys, processes
  <2>2. UNCHANGED Listening /\ UNCHANGED OnlyKnown
    BY <2>1 DEF Listening, OnlyKnown, IsHelper
  <2>3. UNCHANGED AnswersTo(saved)
    BY <2>1, <2>2 DEF AnswersTo
  <2>4. QED
    BY <2>1, <2>2, <2>3 DEF RouterServes
<1>5. QED
  BY <1>2, <1>3, <1>4

(* A helper that binds its port, or dies of finding it taken.              *)
LEMMA RouterBinds ==
  ASSUME InferIInv, helper = "router", RouterServes, NEW p \in Procs, HelperBinds(p)
  PROVE  RouterServes'
<1>0. me \in Commands /\ O \in Actors /\ me = act[O] /\ me' = act'[O] /\ proc \in [Procs -> Processes]
  BY MeIn DEF InferIInv, InferTypeOK, me, O
<1>1. UNCHANGED <<keys, saved, pidFile, taken>>
  BY DEF HelperBinds, keys
<1>2. CASE me.child # p
  <2>1. me' = Disturbed(me)
    BY <1>0, <1>2 DEF HelperBinds
  <2>2. QED
    BY <1>1, <2>1, RouterStill
<1>3. CASE me.child = p
  <2>1. me' = me
    BY <1>0, <1>3 DEF HelperBinds
  <2>2. \A q \in Procs : q # p => proc'[q] = proc[q]
    BY <1>0 DEF HelperBinds
  <2>3. proc'[p] = Free \/ proc'[p] = [proc[p] EXCEPT !.up = TRUE]
    BY <1>0 DEF HelperBinds
  <2>4. Free.is = "free" /\ [proc[p] EXCEPT !.up = TRUE].key = proc[p].key
        /\ [proc[p] EXCEPT !.up = TRUE].is = proc[p].is
    BY <1>0 DEF Free, Processes
  <2>5. IsHelper(p) /\ ~proc[p].up
    BY DEF HelperBinds
  <2>6. \A q \in Listening : q \in Listening' /\ proc'[q].key = proc[q].key
    BY <2>2, <2>5 DEF Listening
  <2>7. AnswersTo(saved) => AnswersTo(saved)'
    BY <1>1, <2>6 DEF AnswersTo
  <2>8. OnlyKnown => OnlyKnown'
    <3>1. SUFFICES ASSUME OnlyKnown, NEW q \in Procs, IsHelper(q)'
                   PROVE  IF me.pc \in Own /\ q = me.child THEN proc'[q].key = me.mem
                          ELSE q = pidFile /\ proc'[q].key = saved /\ (me.pc \in Own => ~proc'[q].up)
      BY <1>1, <2>1 DEF OnlyKnown
    <3>2. CASE q = p
      BY <1>3, <2>3, <2>4, <2>5, <3>1, <3>2 DEF OnlyKnown, IsHelper
    <3>3. CASE q # p
      BY <2>2, <3>1, <3>3 DEF OnlyKnown, IsHelper
    <3>4. QED
      BY <3>2, <3>3
  <2>9. Listening # {} => Listening' # {}
    BY <2>6
  <2>10. QED
    BY <1>1, <2>1, <2>7, <2>8, <2>9 DEF RouterServes
<1>4. QED
  BY <1>2, <1>3

(* A step before the run's own child is there.                             *)
LEMMA RouterFewer ==
  ASSUME InferIInv, RouterServes, NEW r, Go(O, r) \/ Alone(O, r), ~r.ready, r.calm => me.calm,
         me.pc \in Before \ Own, r.pc \notin Own, UNCHANGED <<saved, pidFile>>,
         \A p \in Procs : proc'[p] = proc[p] \/ proc'[p] = Free
  PROVE  RouterServes'
<1>1. me' = r
  BY MyMove
<1>2. Free.is # "helper"
  BY DEF Free
<1>3. me.calm /\ OnlyKnown => OnlyKnown'
  BY <1>1, <1>2 DEF OnlyKnown, IsHelper
<1>4. r.pc # "recordpid"
  BY DEF Own
<1>5. QED
  BY <1>1, <1>3, <1>4 DEF RouterServes

LEMMA RouterReconciles ==
  ASSUME InferIInv, helper = "router", RouterServes, ReconcileRouter
  PROVE  RouterServes' /\ \E r : Go(O, r)
<1>0. me \in Commands /\ O = "onboard" /\ act[O] = me /\ O \in Actors /\ Placed(helper, O, me)
  BY MeIn DEF InferIInv
<1>1. /\ me.pc = "router" /\ me.ret \in {"upsert", "finish"} /\ UNCHANGED <<saved, pidFile, proc, taken>>
  BY <1>0 DEF ReconcileRouter, OnboardAt, Placed, RouterSteps, World, SameHelper, keys, processes
<1>2. me.pc \in Before \ Own /\ ~me.ready
  BY <1>1 DEF Before, Own, RouterServes, Told
<1>3. PICK key \in Secrets, healthy \in {Listening # {}, PortAnswers} :
        \/ Go(O, [me EXCEPT !.mem = key, !.child = pidFile, !.pc = "start"])
        \/ Go(O, [me EXCEPT !.mem = key, !.child = pidFile, !.pc = "stop"])
        \/ healthy /\ Go(O, [Return(O, TRUE) EXCEPT !.mem = key])
  BY DEF ReconcileRouter
<1>4. ASSUME NEW pc \in {"start", "stop"}, Go(O, [me EXCEPT !.mem = key, !.child = pidFile, !.pc = pc])
      PROVE  RouterServes' /\ \E r : Go(O, r)
  <2> DEFINE r == [me EXCEPT !.mem = key, !.child = pidFile, !.pc = pc]
  <2>1. r.pc = pc /\ ~r.ready /\ r.calm = me.calm
    BY <1>0, <1>2 DEF Commands
  <2>2. Go(O, r)
    BY <1>4
  <2> HIDE DEF r
  <2>3. r.pc \notin Own
    BY <2>1 DEF Own
  <2>4. QED
    BY <1>1, <1>2, <2>1, <2>2, <2>3, RouterFewer
<1>5. CASE healthy /\ Go(O, [Return(O, TRUE) EXCEPT !.mem = key])
  <2> DEFINE r == [Return(O, TRUE) EXCEPT !.mem = key]
  <2>1. r.pc = me.ret /\ r.ready = me.calm
    BY <1>0 DEF Commands, Return
  <2>2. Go(O, r)
    BY <1>5
  <2> HIDE DEF r
  <2>3. me' = r
    BY <2>2, MyMove
  <2>4. me.calm /\ ~taken => AnswersTo(saved)
    <3>1. ~taken => Listening # {}
      BY <1>5 DEF PortAnswers
    <3>2. me.calm => OnlyKnown /\ me.pc \notin Own
      BY <1>2 DEF RouterServes
    <3>3. \A p \in Listening : p \in Procs /\ proc[p].is = "helper"
      BY DEF Listening
    <3>4. NoProc \notin Procs
      BY InferNames
    <3>5. QED
      BY <3>1, <3>2, <3>3, <3>4 DEF OnlyKnown, AnswersTo, IsHelper
  <2>5. AnswersTo(saved)' = AnswersTo(saved)
    BY <1>1 DEF AnswersTo, Listening
  <2>6. r.pc \in {"upsert"} \cup Told /\ r.pc \notin Before
    BY <1>1, <2>1 DEF Told, Before
  <2>7. r.pc # "recordpid"
    BY <2>6 DEF Before
  <2>8. QED
    BY <1>1, <2>1, <2>2, <2>3, <2>4, <2>5, <2>6, <2>7 DEF RouterServes
<1>6. QED
  BY <1>3, <1>4, <1>5

LEMMA RouterStarts ==
  ASSUME InferIInv, helper = "router", RouterServes, StopRouter \/ ReapRouter \/ StartRouter \/ RouterUp
  PROVE  RouterServes' /\ \E r : Go(O, r) \/ Alone(O, r)
<1>0. me \in Commands /\ O = "onboard" /\ act[O] = me /\ O \in Actors /\ proc \in [Procs -> Processes]
  BY MeIn DEF InferIInv, InferTypeOK
<1>1. UNCHANGED <<saved, pidFile, taken>> /\ me.pc \in {"stop", "reap", "start", "up"}
  BY DEF StopRouter, ReapRouter, StartRouter, RouterUp, World, keys, OnboardAt
<1>2. me.pc \in Before /\ ~me.ready
  BY <1>1 DEF Before, RouterServes, Told
<1>3. \A pc : To(O, pc).pc = pc /\ To(O, pc).ready = me.ready /\ To(O, pc).calm = me.calm
              /\ To(O, pc).mem = me.mem /\ To(O, pc).child = me.child
  BY <1>0, HelperFields
<1>4. CASE StopRouter \/ ReapRouter
  <2>1. \E pc \in {"reap", "start"} : Alone(O, To(O, pc))
    BY <1>4 DEF StopRouter, ReapRouter
  <2>2. \A p \in Procs : proc'[p] = proc[p] \/ proc'[p] = Free
    BY <1>0, <1>4 DEF StopRouter, ReapRouter
  <2>3. me.pc \notin Own
    BY <1>4 DEF StopRouter, ReapRouter, OnboardAt, Own
  <2>4. \A pc \in {"reap", "start"} : pc \notin Own
    BY DEF Own
  <2>5. QED
    BY <1>1, <1>2, <1>3, <2>1, <2>2, <2>3, <2>4, RouterFewer
<1>5. CASE StartRouter
  <2>1. PICK p \in Procs : /\ proc[p].is = "free" /\ proc' = [proc EXCEPT ![p] = Child(me.mem)]
                           /\ Alone(O, [me EXCEPT !.pc = "up", !.child = p])
    BY <1>5 DEF StartRouter
  <2> DEFINE r == [me EXCEPT !.pc = "up", !.child = p]
  <2>2. r.pc = "up" /\ ~r.ready /\ r.calm = me.calm /\ r.child = p /\ r.mem = me.mem
    BY <1>0, <1>2 DEF Commands
  <2>3. Alone(O, r)
    BY <2>1
  <2> HIDE DEF r
  <2>4. me' = r
    BY <2>3, MyMove
  <2>5. Listening = {} /\ me.pc \notin Own
    BY <1>5 DEF StartRouter, OnboardAt, Own
  <2>6. proc'[p] = Child(me.mem) /\ \A q \in Procs : q # p => proc'[q] = proc[q]
    BY <2>1, StaySpawned
  <2>7. Child(me.mem).key = me.mem
    BY DEF Child
  <2>8. me.calm => OnlyKnown'
    <3>1. SUFFICES ASSUME me.calm, NEW q \in Procs, IsHelper(q)'
                   PROVE  IF q = p THEN proc'[q].key = me.mem
                          ELSE q = pidFile /\ proc'[q].key = saved /\ ~proc'[q].up
      BY <1>1, <2>2, <2>4 DEF OnlyKnown, Own
    <3>2. OnlyKnown
      BY <1>2, <3>1 DEF RouterServes
    <3>3. CASE q # p
      <4>1. IsHelper(q) /\ proc'[q] = proc[q]
        BY <2>6, <3>1, <3>3 DEF IsHelper
      <4>2. q = pidFile /\ proc[q].key = saved
        BY <2>5, <3>2, <4>1 DEF OnlyKnown
      <4>3. ~proc[q].up
        BY <2>5, <4>1 DEF Listening, IsHelper
      <4>4. QED
        BY <3>3, <4>1, <4>2, <4>3
    <3>4. QED
      BY <2>6, <2>7, <3>3
  <2>9. QED
    BY <2>2, <2>3, <2>4, <2>8 DEF RouterServes
<1>6. CASE RouterUp /\ PortAnswers /\ Go(O, To(O, "recordpid")) /\ UNCHANGED proc
  <2>1. me' = To(O, "recordpid")
    BY <1>6, MyMove
  <2>2. UNCHANGED Listening
    BY <1>6 DEF Listening
  <2>3. ~taken => Listening # {}
    BY <1>6 DEF PortAnswers
  <2>4. me.pc = "up"
    BY <1>6 DEF RouterUp, OnboardAt
  <2>5. me.calm /\ OnlyKnown => OnlyKnown'
    BY <1>1, <1>3, <1>6, <2>1, <2>4 DEF OnlyKnown, IsHelper, Own
  <2>6. QED
    BY <1>1, <1>2, <1>3, <1>6, <2>1, <2>2, <2>3, <2>5 DEF RouterServes
<1>7. CASE Alone(O, NoCommand)
  <2>1. me' = NoCommand
    BY <1>7, MyMove
  <2>2. ~me'.ready /\ me'.pc \notin Before
    BY <2>1, NoCommandRecord DEF Before
  <2>3. me'.pc # "recordpid"
    BY <2>2 DEF Before
  <2>4. QED
    BY <1>7, <2>2, <2>3 DEF RouterServes
<1>8. QED
  BY <1>4, <1>5, <1>6, <1>7 DEF RouterUp

LEMMA RouterRecords ==
  ASSUME InferIInv, helper = "router", RouterServes, RecordRouter
  PROVE  RouterServes' /\ \E r : Go(O, r)
<1>0. me \in Commands /\ O = "onboard" /\ act[O] = me /\ O \in Actors /\ Placed(helper, O, me)
  BY MeIn DEF InferIInv
<1>1. /\ me.pc = "recordpid" /\ me.ret \in {"upsert", "finish"} /\ UNCHANGED <<proc, taken>>
      /\ saved' = me.mem /\ Go(O, Return(O, TRUE))
  BY <1>0 DEF RecordRouter, OnboardAt, Placed, RouterSteps, World
<1>2. me' = Return(O, TRUE) /\ me'.pc = me.ret /\ me'.ready = me.calm
  <2>1. me' = Return(O, TRUE)
    BY <1>1, MyMove
  <2>2. Return(O, TRUE).pc = me.ret /\ Return(O, TRUE).ready = me.calm
    BY <1>0 DEF Commands, Return
  <2>3. QED
    BY <2>1, <2>2
<1>3. me.calm /\ ~taken => AnswersTo(saved)'
  <2>1. SUFFICES ASSUME me.calm, ~taken PROVE \E p \in Listening' : proc'[p].key = saved'
    BY DEF AnswersTo
  <2>2. OnlyKnown /\ Listening # {} /\ me.pc \in Own
    BY <1>1, <2>1 DEF RouterServes, Before, Own
  <2>3. PICK p \in Listening : TRUE
    BY <2>2
  <2>4. IsHelper(p) /\ p \in Procs /\ proc[p].up
    BY InferNames DEF Listening, IsHelper
  <2>5. proc[p].key = me.mem
    BY <2>2, <2>4 DEF OnlyKnown
  <2>6. p \in Listening'
    BY <1>1 DEF Listening
  <2>7. QED
    BY <1>1, <2>5, <2>6
<1>4. me'.pc \in {"upsert"} \cup Told /\ me'.pc \notin Before
  BY <1>1, <1>2 DEF Told, Before
<1>5. me'.pc # "recordpid"
  BY <1>4 DEF Before
<1>6. QED
  BY <1>1, <1>2, <1>3, <1>4, <1>5 DEF RouterServes

LEMMA RouterOnboards ==
  ASSUME InferIInv, helper = "router", RouterServes, OnboardInfers \/ HelperSteps(O)
  PROVE  RouterServes' /\ \E r : Go(O, r) \/ Alone(O, r)
<1>0. me \in Commands /\ O = "onboard" /\ act[O] = me /\ O \in Actors /\ Placed(helper, O, me)
      /\ proc \in [Procs -> Processes]
  BY MeIn DEF InferIInv, InferTypeOK
<1>1. CASE BeginOnboard
  <2>1. PICK r : Go(O, r) /\ ~r.ready /\ r.pc \in {"select", "apply"} /\ r.calm = ~Strays(pidFile', saved')
    BY <1>1, BeginMoves
  <2>2. UNCHANGED proc /\ me' = r
    BY <1>1, <2>1, BeginMoves, MyMove
  <2>3. r.pc \notin Own
    BY <2>1 DEF Own
  <2>4. r.calm => OnlyKnown'
    <3>1. r.calm => \A p \in Procs : IsHelper(p) => p = pidFile' /\ proc[p].key = saved'
      BY <2>1 DEF Strays
    <3>2. QED
      BY <2>2, <2>3, <3>1 DEF OnlyKnown, IsHelper
  <2>5. r.pc # "recordpid"
    BY <2>1
  <2>6. QED
    BY <2>1, <2>2, <2>4, <2>5 DEF RouterServes
<1>2. CASE EarlyStep
  <2>1. PICK r : (Go(O, r) \/ Alone(O, r)) /\ r.pc \in EarlyPcs /\ (r.ready => me.ready) /\ (r.calm => me.calm)
    BY <1>2, EarlyMoves
  <2>2. me.pc \in EarlyPc /\ UNCHANGED <<saved, pidFile, proc>>
    BY <1>2, EarlyMoves DEF keys, processes
  <2>3. me.pc \in Before \ Own /\ r.pc \notin Own
    BY <1>0, <2>1, <2>2 DEF Placed, EarlyPc, EarlyPcs, Before, Own
  <2>4. ~r.ready
    BY <2>1, <2>2 DEF RouterServes, EarlyPc, Told
  <2>5. QED
    BY <2>1, <2>2, <2>3, <2>4, RouterFewer
<1>3. CASE LateStep
  <2>1. PICK r : /\ Go(O, r) \/ Alone(O, r)
                 /\ r.pc \in Told \cup {"select", "idle"} /\ (r.pc = "select" => helper # "router")
                 /\ (r.ready => me.ready /\ r.pc \in Told)
    BY <1>3, LateMoves
  <2>2. UNCHANGED <<saved, proc, taken>>
    BY <1>3, LateMoves DEF processes
  <2>3. UNCHANGED AnswersTo(saved)
    BY <2>2 DEF AnswersTo, Listening
  <2>4. r.pc \notin Before
    BY <2>1 DEF Before, Told
  <2>5. r.pc # "recordpid"
    BY <2>4 DEF Before
  <2>6. me' = r
    BY <2>1, MyMove
  <2>7. QED
    BY <2>1, <2>2, <2>3, <2>4, <2>5, <2>6 DEF RouterServes
<1>4. CASE RouterMoves
  BY <1>4, RouterReconciles, RouterStarts, RouterRecords DEF RouterMoves
<1>5. CASE HelperSteps(O)
  <2>1. CommandEnds(O)
    BY <1>0, <1>5 DEF HelperSteps, Ensure, KillStale, SpawnHelper, Spawned, PersistPid, EnsurePoll,
                      Placed, Restarting
  <2>2. Go(O, NoCommand)
    BY <2>1 DEF CommandEnds
  <2>3. me' = NoCommand
    BY <2>2, MyMove
  <2>4. ~me'.ready /\ me'.pc \notin Before
    BY <2>3, NoCommandRecord DEF Before
  <2>5. me'.pc # "recordpid"
    BY <2>4 DEF Before
  <2>6. QED
    BY <2>2, <2>4, <2>5 DEF RouterServes
<1>6. QED
  BY <1>1, <1>2, <1>3, <1>4, <1>5, OnboardCases, OwnHelper

LEMMA RouterStep ==
  ASSUME InferIInv, helper = "router", RouterServes, ConnectsUnready, InferNext
  PROVE  RouterServes' /\ ConnectsUnready'
<1>0. O = "onboard" /\ me = act["onboard"] /\ me' = act'["onboard"] /\ "onboard" \in Actors
  BY NamesApart DEF O, me
<1>1. CASE Surroundings \/ \E b \in Sandboxes : DestroyUser(b)
  <2>1. UNCHANGED keys /\ (taken => taken')
    BY <1>1, WorldMoves
  <2>2. CASE \A x \in Actors : act'[x] \in {Disturbed(act[x]), NoCommand}
    BY <1>0, <2>1, <2>2, RouterStill, OnboardUnready
  <2>3. CASE (\E p \in Procs : HelperBinds(p)) /\ \A x \in Actors : act'[x] \in {act[x], Disturbed(act[x])}
    BY <2>3, RouterBinds, OnboardUnready
  <2>4. QED
    BY <1>1, <2>2, <2>3, WorldMoves
<1>2. CASE OnboardInfers \/ HelperSteps(O)
  BY <1>2, RouterOnboards, OnboardUnready
<1>3. CASE \E c \in Connects : ConnectInfers(c) \/ HelperSteps(c)
  <2>1. PICK c \in Connects : ConnectInfers(c) \/ HelperSteps(c)
    BY <1>3
  <2>2. UNCHANGED <<keys, processes, taken>> /\ me' \in {me, Disturbed(me)} /\ ConnectsUnready'
    BY <2>1, ConnectsAway
  <2>3. UNCHANGED keys /\ UNCHANGED <<processes, taken>>
    BY <2>2
  <2>4. QED
    BY <2>2, <2>3, RouterStill
<1>4. QED
  BY <1>0, <1>1, <1>2, <1>3 DEF InferNext, Actors

(***************************************************************************)
(* All of it.                                                              *)
(***************************************************************************)
LEMMA ServesStill == ServeIInv /\ UNCHANGED inferVars => Serves'
<1> SUFFICES ASSUME ServeIInv, UNCHANGED inferVars
             PROVE  Serves'
  OBVIOUS
<1>1. UNCHANGED <<helper, saved, gwKey, pidFile, proc, taken, act>>
  BY DEF inferVars, keys, processes
<1>2. UNCHANGED Listening /\ UNCHANGED me
  BY <1>1 DEF Listening, me
<1>3. \A x \in Actors : ProxyServes(x) => ProxyServes(x)'
  BY <1>1, <1>2 DEF ProxyServes, AnswersTo, FreshKey
<1>4. AdapterServes => AdapterServes'
  BY <1>1, <1>2 DEF AdapterServes, AnswersTo
<1>5. RouterServes => RouterServes'
  BY <1>1, <1>2 DEF RouterServes, OnlyKnown, AnswersTo, IsHelper
<1>6. ConnectsUnready => ConnectsUnready'
  BY <1>1 DEF ConnectsUnready
<1>7. QED
  BY <1>1, <1>3, <1>4, <1>5, <1>6 DEF ServeIInv, Serves

LEMMA ServeContinues == ServeIInv /\ [InferNext]_inferVars => ServeIInv'
<1> SUFFICES ASSUME ServeIInv, [InferNext]_inferVars
             PROVE  ServeIInv'
  OBVIOUS
<1>1. InferIInv'
  BY InferContinues DEF ServeIInv
<1>2. CASE InferNext
  <2>1. helper' = helper /\ helper \in {"proxy", "adapter", "router"}
    BY <1>2, KeysStep DEF ServeIInv, InferIInv, InferTypeOK
  <2>2. ASSUME helper = "proxy" PROVE Serves'
    BY <1>2, <2>1, <2>2, ProxyStep DEF ServeIInv, Serves
  <2>3. ASSUME helper = "adapter" PROVE Serves'
    BY <1>2, <2>1, <2>3, AdapterStep DEF ServeIInv, Serves
  <2>4. ASSUME helper = "router" PROVE Serves'
    BY <1>2, <2>1, <2>4, RouterStep DEF ServeIInv, Serves
  <2>5. Serves'
    BY <2>1, <2>2, <2>3, <2>4
  <2>6. QED
    BY <1>1, <2>5 DEF ServeIInv
<1>3. CASE UNCHANGED inferVars
  BY <1>1, <1>3, ServesStill DEF ServeIInv
<1>4. QED
  BY <1>2, <1>3

(* What setupInference of an onboarding or the ensure of a connect reports *)
(* ready serves the gateway: the helper that answers its port has the key  *)
(* the gateway presents, unless another command or the environment has     *)
(* interfered, a router was left from an earlier run, or the port belongs  *)
(* to someone else (ensureOllamaAuthProxy, ensureBedrockRuntimeAdapter,    *)
(* reconcileModelRouter, and the key each hands to upsertProvider).        *)
THEOREM ServeCorrect == InferSpec => []HelperServesGateway
<1>1. InferInit => ServeIInv
  BY InferBegins, ServeBegins DEF ServeIInv
<1>2. QED
  BY <1>1, ServeContinues, ServesGateway, PTL DEF InferSpec

(***************************************************************************)
(* Lifecycle, Create, Snapshot and Inference side by side.                 *)
(***************************************************************************)
(* What the run checks are behaviours of each of the four: of the rebuild  *)
(* and its like, createSandbox, the snapshot commands and the inference    *)
(* helpers; each property then needs its own component's theorem alone.    *)
THEOREM HostBySide == HostSpec => LifecycleSpec /\ MakeSpec /\ SnapSpec /\ InferSpec
<1>1. HostInit => LifecycleInit /\ MakeInit /\ SnapInit /\ InferInit
  BY DEF HostInit
<1>2. [HostNext]_hostVars =>
        /\ [LifecycleNext]_lifecycleVars /\ [MakeNext]_makeVars
        /\ [SnapNext]_snapVars /\ [InferNext]_inferVars
  BY DEF HostNext, hostVars, Living, Making, Snapping, Inferring
<1>3. QED
  BY <1>1, <1>2, PTL DEF HostSpec, LifecycleSpec, MakeSpec, SnapSpec, InferSpec

(* So everything that run checks holds for every value of the constants:   *)
(* the types of the registry entry, the sandbox, the create stream, the    *)
(* snapshots and the keys, what a rebuild, a destroy, a recreation, a      *)
(* snapshot and an onboarding's helper keep, and what no step of them does.*)
THEOREM HostCorrect ==
  HostSpec =>
    /\ [](HostTypeOK /\ RemovedStaysRemoved /\ RecordedIsLive /\ DestroyedLeavesNothing)
    /\ [](FilesAreKept /\ BackedUpIsRestored /\ PatchLeavesOne)
    /\ [](RestoredIsTruth /\ NamesAreUnique /\ PresetsFollow)
    /\ [](TokenIsGateways /\ HelperServesGateway)
    /\ UnwantedIsNotBuilt /\ LockedRebuildRelocks /\ RebuildKeepsConfiguration
    /\ RegisteredIsReal /\ VersionsStay /\ OthersAreSpared
<1>1. HostTypeOK <=> LifecycleTypeOK /\ MakeTypeOK /\ SnapTypeOK /\ InferTypeOK
  BY DEF HostTypeOK
<1>2. InferIInv => InferTypeOK
  BY DEF InferIInv
<1>3. HostSpec => [](LifecycleTypeOK /\ RemovedStaysRemoved /\ RecordedIsLive /\ DestroyedLeavesNothing)
  BY HostBySide, LifecycleTypeCorrect, RemovedIsForgotten, RecordIsKept, DestroyCorrect, PTL
<1>4. HostSpec => [](MakeTypeOK /\ FilesAreKept /\ BackedUpIsRestored /\ PatchLeavesOne)
  BY HostBySide, MakeTypeCorrect, FilesCorrect, BackupComesBack, PatchKeepsOne, PTL
<1>5. HostSpec => [](SnapTypeOK /\ RestoredIsTruth /\ NamesAreUnique /\ PresetsFollow)
  BY HostBySide, SnapTypeCorrect, RestoreIsTrue, OneNameOneSnapshot, PresetsAreBack, PTL
<1>6. HostSpec => [](InferTypeOK /\ TokenIsGateways /\ HelperServesGateway)
  BY <1>2, HostBySide, InferInvariant, TokenCorrect, ServeCorrect, PTL
<1>7. HostSpec => UnwantedIsNotBuilt /\ LockedRebuildRelocks /\ RebuildKeepsConfiguration
  BY HostBySide, UnwantedStaysOut, RelockCorrect, RebuildKeeps, PTL
<1>8. HostSpec => RegisteredIsReal /\ VersionsStay /\ OthersAreSpared
  BY HostBySide, RegisterCorrect, VersionsAreKept, SpareCorrect, PTL
<1>9. QED
  BY <1>1, <1>3, <1>4, <1>5, <1>6, <1>7, <1>8, PTL
=============================================================================
