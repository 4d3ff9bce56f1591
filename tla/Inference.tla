------------------------------ MODULE Inference ------------------------------
(***************************************************************************)
(* How a sandbox gets its inference: the provider selection and the setup  *)
(* of `onboard' (setupNim and setupInference of src/lib/onboard.ts, under  *)
(* handleProviderInferenceState), the repair `connect' makes               *)
(* (src/lib/actions/sandbox/connect.ts), and the detached helper process   *)
(* between gateway and model: the Ollama auth proxy                        *)
(* (src/lib/inference/ollama/proxy.ts), the Bedrock adapter or the model   *)
(* router.  A behaviour has one of the three helpers; a provider without a *)
(* helper is "other".                                                      *)
(*                                                                         *)
(* One onboarding runs at a time (OnboardLock), beside connects and        *)
(* destroys.  A step is one call to the gateway, one kill, spawn or probe  *)
(* of the helper, or one file written.                                     *)
(***************************************************************************)
EXTENDS Naturals

CONSTANTS Sandboxes,       \* sandboxes that share the gateway
          Connects,        \* processes that run `connect'
          Secrets, Procs,  \* keys of helpers; process ids
          NoSecret, NoProc,
          MaxInferCmds,    \* bound: commands in a behaviour
          MaxInferFaults   \* bound: events of the environment

ASSUME InferBounds == MaxInferCmds \in Nat /\ MaxInferFaults \in Nat
ASSUME InferNames  == NoSecret \notin Secrets /\ NoProc \notin Procs
                      /\ "onboard" \notin Connects
                      /\ Secrets # {} /\ Procs # {} /\ Sandboxes # {}

VARIABLES
  helper,   \* which helper this host uses: "proxy", "adapter" or "router"
  saved,    \* its key on disk: token file, or the hash kept in the session
  pidFile,  \* its recorded pid: pid file, or the pid kept in the session
  proc,     \* what runs under each pid
  taken,    \* an unrelated service owns the helper's port
  gwKey,    \* the key the gateway presents to the helper
  route,    \* the provider of the gateway's inference route
  providerOf, \* the provider in each sandbox's registry entry
  sess,     \* the session: open, the recorded selection and the sandbox
  act,      \* the running commands
  inferCmds, infFaults

keys      == <<saved, gwKey>>
processes == <<pidFile, proc>>
routing   == <<route, providerOf>>
inferVars == <<helper, keys, processes, taken, routing, sess, act, inferCmds, infFaults>>

Actors    == {"onboard"} \cup Connects
Providers == {"none", "other", "helper"}
InferPc   == {"idle", "select", "await", "model", "record", "apply", "other", "check", "healthy",
              "token", "adapter", "health", "keep", "router", "stop", "reap", "start", "up", "recordpid",
              "upsert", "route", "verify", "finish", "ensure", "kill", "spawn", "pid", "poll",
              "swap", "probe", "deps", "reset", "again", "last"}

Free       == [is |-> "free", key |-> NoSecret, up |-> FALSE]
Other      == [is |-> "other", key |-> NoSecret, up |-> FALSE]
Child(key) == [is |-> "helper", key |-> key, up |-> FALSE]
NoCommand  == [pc |-> "idle", box |-> CHOOSE b \in Sandboxes : TRUE, resume |-> FALSE,
               sel |-> "other", named |-> FALSE, mem |-> NoSecret,
               child |-> NoProc, ret |-> "idle", calm |-> TRUE, ready |-> FALSE]

Processes  == [is : {"free", "other", "helper"}, key : Secrets \cup {NoSecret}, up : BOOLEAN]
Commands   == [pc : InferPc, box : Sandboxes, resume : BOOLEAN, sel : Providers, named : BOOLEAN,
               mem : Secrets \cup {NoSecret}, child : Procs \cup {NoProc}, ret : InferPc,
               calm : BOOLEAN, ready : BOOLEAN]

InferTypeOK ==
  /\ helper \in {"proxy", "adapter", "router"}
  /\ saved \in Secrets \cup {NoSecret} /\ gwKey \in Secrets \cup {NoSecret}
  /\ pidFile \in Procs \cup {NoProc} /\ proc \in [Procs -> Processes]
  /\ taken \in BOOLEAN
  /\ route \in Providers /\ providerOf \in [Sandboxes -> Providers]
  /\ sess \in [open : BOOLEAN, sel : Providers, box : Sandboxes]
  /\ act \in [Actors -> Commands]
  /\ inferCmds \in 0 .. MaxInferCmds /\ infFaults \in 0 .. MaxInferFaults

Running(p)   == p # NoProc /\ proc[p].is # "free"
IsHelper(p)  == p # NoProc /\ proc[p].is = "helper"     \* by its command line
Listening    == {p \in Procs : proc[p].is = "helper" /\ proc[p].up}
PortAnswers      == taken \/ Listening # {}
(* Any answer but 401 counts as accepted, whoever gives it.                *)
Accepts(key) == taken \/ \E p \in Listening : proc[p].key = key
Serving      == \E p \in Listening : proc[p].key = saved /\ (helper # "router" => saved = gwKey)

(* calm: nothing but this command has touched helper or route since it     *)
(* began, and no router was left from an earlier run then.  ready: so far, *)
(* and it has seen the helper answer with its key.                         *)
Go(a, r)         == act' = [act EXCEPT ![a] = r]
Disturbed(r)     == [r EXCEPT !.calm = FALSE, !.ready = FALSE]
Alone(a, r)      == act' = [x \in Actors |-> IF x = a THEN r ELSE Disturbed(act[x])]
To(a, pc)        == [act[a] EXCEPT !.pc = pc]
Call(a, pc, ret) == [act[a] EXCEPT !.pc = pc, !.ret = ret]
Return(a, ok)    == [act[a] EXCEPT !.pc = act[a].ret, !.ret = "idle", !.child = NoProc,
                                   !.ready = ok /\ act[a].calm]
World            == UNCHANGED <<helper, taken, inferCmds, infFaults>>
SameHelper       == UNCHANGED <<keys, processes>>
SameRoute        == UNCHANGED <<routing, sess>>

O      == "onboard"
me     == act["onboard"]
OnboardAt(pc) == me.pc = pc
Back   == [me EXCEPT !.pc = "select", !.resume = FALSE, !.ready = FALSE]

Unused == {key \in Secrets : key \notin {saved, gwKey} /\ \A p \in Procs : proc[p].key # key}

-----------------------------------------------------------------------------
(* proxy.ts, and what the adapter and the router share with it.            *)

(* The processes a kill ends.  Only the proxy is also looked for behind    *)
(* its port, and only a process whose command line is the helper's.        *)
(* Mutant: whatever runs under the recorded pid.                           *)
VictimsByPid(a) == {p \in Procs : p = pidFile \/ (helper = "proxy" /\ p \in Listening)}
Victims(a)      == {p \in VictimsByPid(a) : IsHelper(p)}

Killed(a) == proc' = [p \in Procs |-> IF p \in Victims(a) THEN Free ELSE proc[p]]

(* killStaleProxy, killStaleAdapter.                                       *)
KillStale(a) ==
  /\ act[a].pc = "kill"
  /\ Killed(a) /\ pidFile' = NoProc
  /\ Alone(a, To(a, "spawn"))
  /\ World /\ SameRoute /\ UNCHANGED keys

(* startOllamaAuthProxy and ensureBedrockRuntimeAdapter make a new key     *)
(* that stays in memory; ensureOllamaAuthProxy takes the one on disk.      *)
FreshKey(a) == act[a].ret \in {"await", "health"}
KeyOf(a) == IF FreshKey(a) THEN CHOOSE key \in Unused : TRUE ELSE act[a].mem
Spawned(a) ==
  /\ act[a].pc = "spawn" /\ (FreshKey(a) => Unused # {})
  /\ \E p \in Procs :
       /\ proc[p].is = "free"
       /\ proc' = [proc EXCEPT ![p] = Child(KeyOf(a))]
       /\ Alone(a, [act[a] EXCEPT !.pc = "pid", !.mem = KeyOf(a), !.child = p])
  /\ World /\ SameRoute /\ UNCHANGED <<gwKey, pidFile>>

(* Mutant: the new key is saved at once.                                   *)
SpawnAndSave(a) == Spawned(a) /\ saved' = KeyOf(a)
SpawnHelper(a)  == Spawned(a) /\ UNCHANGED saved

PersistPid(a) ==
  /\ act[a].pc = "pid"
  /\ pidFile' = act[a].child
  /\ Alone(a, To(a, IF FreshKey(a) THEN act[a].ret ELSE "poll"))
  /\ World /\ SameRoute /\ UNCHANGED <<keys, proc>>

(* ensureOllamaAuthProxy: nothing to do without a token on disk; a process *)
(* that accepts it is kept.  Mutant: a process that runs is kept.          *)
KeptByPid == IsHelper(pidFile)
Kept      == IsHelper(pidFile) /\ Accepts(saved)
Ensure(a) ==
  /\ act[a].pc = "ensure"
  /\ Go(a, IF helper # "proxy" \/ saved = NoSecret THEN Return(a, FALSE)
           ELSE IF Kept THEN [Return(a, TRUE) EXCEPT !.mem = saved]
           ELSE [act[a] EXCEPT !.pc = "kill", !.mem = saved, !.ready = FALSE])
  /\ World /\ SameHelper /\ SameRoute

(* Ten polls; a failure is printed only.                                   *)
EnsurePoll(a) ==
  /\ act[a].pc = "poll"
  /\ \/ IsHelper(act[a].child) /\ Accepts(act[a].mem) /\ Go(a, Return(a, TRUE))
     \/ Go(a, Return(a, FALSE))
  /\ World /\ SameHelper /\ SameRoute

-----------------------------------------------------------------------------
(* setupNim: the selection loop.                                           *)

(* A router runs that the session does not name, or with another key.      *)
Strays(pid, key) ==
  helper = "router" /\ \E p \in Procs : IsHelper(p) /\ ~(p = pid /\ proc[p].key = key)

(* A new session forgets the router of the old one.                        *)
BeginOnboard ==
  /\ OnboardAt("idle") /\ inferCmds < MaxInferCmds /\ inferCmds' = inferCmds + 1
  /\ \/ /\ sess.open
        /\ Go(O, [NoCommand EXCEPT !.pc = IF sess.sel = "none" THEN "select" ELSE "apply", !.resume = TRUE,
                              !.box = sess.box, !.sel = IF sess.sel = "none" THEN @ ELSE sess.sel,
                              !.named = sess.sel # "none", !.calm = ~Strays(pidFile, saved)])
        /\ UNCHANGED <<sess, saved, pidFile>>
     \/ \E b \in Sandboxes :
        /\ Go(O, [NoCommand EXCEPT !.pc = "select", !.box = b,
                                   !.calm = ~Strays(NoProc, NoSecret)])
        /\ sess' = [open |-> TRUE, sel |-> "none", box |-> b]
        /\ IF helper = "router" THEN saved' = NoSecret /\ pidFile' = NoProc
           ELSE UNCHANGED <<saved, pidFile>>
  /\ UNCHANGED <<helper, gwKey, proc, taken, routing, infFaults>>

(* provider and model are carried round the loop: what was picked before a *)
(* way back to the menu is kept, and NIM on a GPU that no model fits goes  *)
(* on with it.                                                             *)
Pick(pc, sel, named) ==
  /\ OnboardAt("select") /\ Go(O, [me EXCEPT !.pc = pc, !.sel = sel, !.named = named])
  /\ World /\ SameHelper /\ SameRoute

(* Back at the endpoint or the key, at the model, or after the validation. *)
SelectRemote == Pick("record", "other", TRUE) \/ \E named \in BOOLEAN : Pick("select", "other", named)
SelectHermes == Pick("record", "other", TRUE) \/ \E named \in {FALSE, me.named} : Pick("select", "other", named)
SelectVllm   == \E pc \in {"select", "record"} : Pick(pc, "other", TRUE)
SelectNim    == \/ \E pc \in {"select", "record"} : Pick(pc, "other", TRUE)
                \/ Pick("select", me.sel, TRUE)                        \* back at the NGC key
                \/ me.named /\ Pick("record", me.sel, TRUE)             \* no model fits
SelectUnproxied == helper # "proxy" /\ (Pick("record", "other", TRUE) \/ Pick("select", "other", me.named))

(* Bedrock and the router only record the choice.                          *)
SelectBedrock == helper = "adapter" /\ (Pick("record", "helper", TRUE) \/ Pick("select", "helper", me.named))
SelectRouted  == helper = "router" /\ Pick("record", "helper", TRUE)

(* The proxy is started with a new token, whatever runs.                   *)
SelectOllama ==
  /\ OnboardAt("select") /\ helper = "proxy"
  /\ Go(O, [me EXCEPT !.pc = "kill", !.ret = "await", !.ready = FALSE])
  /\ World /\ SameHelper /\ SameRoute

(* waitForPort, then the look at the child that was spawned.               *)
AwaitProxy ==
  /\ OnboardAt("await") /\ PortAnswers /\ IsHelper(me.child)
  /\ Go(O, [me EXCEPT !.pc = "model", !.sel = "helper", !.ret = "idle", !.child = NoProc])
  /\ World /\ SameHelper /\ SameRoute

(* selectAndValidateOllamaModel: a model, or back to the providers.        *)
SelectModel ==
  /\ OnboardAt("model")
  /\ \/ Go(O, [me EXCEPT !.pc = "record", !.named = TRUE])
     \/ Go(O, To(O, "select"))
  /\ World /\ SameHelper /\ SameRoute

-----------------------------------------------------------------------------
(* handleProviderInferenceState and setupInference.                        *)

RecordSelection ==
  /\ OnboardAt("record")
  /\ Go(O, To(O, "apply"))
  /\ sess' = [sess EXCEPT !.sel = me.sel]
  /\ World /\ SameHelper /\ UNCHANGED routing

(* A resumed run skips a setup whose route is in place; the router is      *)
(* reconciled even then, the Bedrock adapter is always set up.             *)
Skips == /\ me.resume /\ route = me.sel
         /\ me.sel = "helper" => helper # "adapter" /\ ~(helper = "router" /\ gwKey = NoSecret)
ApplySelection ==
  /\ OnboardAt("apply")
  /\ \/ Skips /\ Go(O, IF me.sel = "helper" /\ helper = "router" THEN Call(O, "router", "finish")
                       ELSE To(O, "finish"))
     \/ ~Skips /\ Go(O, IF me.sel = "other" THEN To(O, "other")
                       ELSE IF helper = "proxy" THEN To(O, "check")
                       ELSE IF helper = "adapter" THEN To(O, "adapter") ELSE Call(O, "router", "upsert"))
     \/ me.sel = "other" /\ Go(O, To(O, "other"))    \* the provider is missing, or Hermes
  /\ World /\ SameHelper /\ SameRoute

(* upsertProvider and `inference set' for a provider without a helper.     *)
SetupOther ==
  /\ OnboardAt("other")
  /\ \/ Go(O, Back) /\ UNCHANGED route
     \/ route' = "other" /\ Alone(O, To(O, "verify"))
  /\ World /\ SameHelper /\ UNCHANGED <<providerOf, sess>>

(* Ollama: where a container cannot reach the model the proxy has to be    *)
(* healthy, otherwise it is only ensured.                                  *)
CheckOllama ==
  /\ OnboardAt("check")
  /\ \E ret \in {"healthy", "token"} : Go(O, Call(O, "ensure", ret))
  /\ World /\ SameHelper /\ SameRoute

(* isProxyHealthy: the endpoint answers the token on disk, or the recorded *)
(* process runs.                                                           *)
ProxyHealthy ==
  /\ OnboardAt("healthy") /\ (Accepts(saved) \/ IsHelper(pidFile))
  /\ Go(O, To(O, "token"))
  /\ World /\ SameHelper /\ SameRoute

(* getOllamaProxyToken and persistAndProbeOllamaProxy.                     *)
Token == IF me.mem # NoSecret THEN me.mem ELSE saved
PersistToken ==
  /\ OnboardAt("token") /\ Token # NoSecret
  /\ saved' = Token
  /\ Go(O, [me EXCEPT !.pc = "upsert", !.mem = Token])
  /\ World /\ SameRoute /\ UNCHANGED <<gwKey, processes>>

(* ensureBedrockRuntimeAdapter: an adapter for the same endpoint, region   *)
(* and credential that answers with the hash of the saved token is kept.   *)
EnsureAdapter ==
  /\ OnboardAt("adapter")
  /\ \/ /\ saved # NoSecret /\ IsHelper(pidFile)
        /\ \E p \in Listening : proc[p].key = saved
        /\ Go(O, [me EXCEPT !.pc = "upsert", !.mem = saved, !.ready = me.calm])
     \/ Go(O, Call(O, "kill", "health"))
  /\ World /\ SameHelper /\ SameRoute

(* Healthy within two seconds, or back to the selection.                   *)
AwaitAdapter ==
  /\ OnboardAt("health")
  /\ \/ /\ \E p \in Listening : proc[p].key = me.mem
        /\ Go(O, To(O, "keep"))
     \/ Go(O, Back)
  /\ World /\ SameHelper /\ SameRoute

KeepAdapterToken ==
  /\ OnboardAt("keep")
  /\ saved' = me.mem
  /\ Go(O, [me EXCEPT !.pc = "upsert", !.ret = "idle", !.child = NoProc, !.ready = me.calm])
  /\ World /\ SameRoute /\ UNCHANGED <<gwKey, processes>>

(* reconcileModelRouter: a healthy router is kept or stopped only when the *)
(* session's pid names it; one that it does not name ends the run.  Any    *)
(* service behind the port may pass for a healthy one.                     *)
ReconcileRouter ==
  /\ OnboardAt("router")
  /\ \E key \in Secrets, healthy \in {Listening # {}, PortAnswers} :
       LET run == [me EXCEPT !.mem = key, !.child = pidFile] IN
       /\ healthy => IsHelper(pidFile)
       /\ Go(O, IF ~healthy THEN [run EXCEPT !.pc = "start"]
                ELSE IF saved = key THEN [Return(O, TRUE) EXCEPT !.mem = key]
                ELSE [run EXCEPT !.pc = "stop"])
  /\ World /\ SameHelper /\ SameRoute

(* stopModelRouterProcess: SIGTERM, which may take its time, then SIGKILL  *)
(* to whatever has the pid after ten looks.                                *)
StopRouter ==
  /\ OnboardAt("stop")
  /\ \/ Running(me.child) /\ proc' = [proc EXCEPT ![me.child] = Free]
     \/ UNCHANGED proc
  /\ Alone(O, To(O, "reap"))
  /\ World /\ SameRoute /\ UNCHANGED <<keys, pidFile>>

ReapRouter ==
  /\ OnboardAt("reap")
  /\ proc' = [p \in Procs |-> IF p = me.child THEN Free ELSE proc[p]]
  /\ Alone(O, To(O, "start"))
  /\ World /\ SameRoute /\ UNCHANGED <<keys, pidFile>>

(* startModelRouter refuses a port that answers; its pid is recorded once  *)
(* the router is healthy.                                                  *)
StartRouter ==
  /\ OnboardAt("start") /\ Listening = {}
  /\ \E p \in Procs :
       /\ proc[p].is = "free"
       /\ proc' = [proc EXCEPT ![p] = Child(me.mem)]
       /\ Alone(O, [me EXCEPT !.pc = "up", !.child = p])
  /\ World /\ SameRoute /\ UNCHANGED <<keys, pidFile>>

RouterUp ==
  /\ OnboardAt("up")
  /\ \/ PortAnswers /\ Running(me.child) /\ Go(O, To(O, "recordpid")) /\ UNCHANGED proc
     \/ /\ proc' = [proc EXCEPT ![me.child] = Free]
        /\ Alone(O, NoCommand)
  /\ World /\ SameRoute /\ UNCHANGED <<keys, pidFile>>

RecordRouter ==
  /\ OnboardAt("recordpid")
  /\ saved' = me.mem /\ pidFile' = me.child
  /\ Go(O, Return(O, TRUE))
  /\ World /\ SameRoute /\ UNCHANGED <<gwKey, proc>>

(* upsertProvider with the helper's key.                                   *)
UpsertHelper ==
  /\ OnboardAt("upsert")
  /\ \/ gwKey' = me.mem /\ Go(O, [me EXCEPT !.pc = "route", !.mem = NoSecret])
     \/ helper = "adapter" /\ Go(O, Back) /\ UNCHANGED gwKey
  /\ World /\ SameRoute /\ UNCHANGED <<saved, processes>>

(* applyLocalInferenceRoute, and `inference set' of the other two.         *)
ApplyRoute ==
  /\ OnboardAt("route")
  /\ \/ helper # "router" /\ Go(O, Back) /\ UNCHANGED route
     \/ route' = "helper" /\ Alone(O, To(O, "verify"))
  /\ World /\ SameHelper /\ UNCHANGED <<providerOf, sess>>

(* The entry of a sandbox that exists already.                             *)
VerifyRoute ==
  /\ OnboardAt("verify")
  /\ providerOf' = [providerOf EXCEPT ![me.box] = IF @ = "none" THEN @ ELSE me.sel]
  /\ Go(O, To(O, "finish"))
  /\ World /\ SameHelper /\ UNCHANGED <<route, sess>>

(* The rest of the onboarding registers the sandbox.                       *)
FinishInference ==
  /\ OnboardAt("finish")
  /\ providerOf' = [providerOf EXCEPT ![me.box] = me.sel]
  /\ sess' = [sess EXCEPT !.open = FALSE]
  /\ Go(O, NoCommand)
  /\ World /\ SameHelper /\ UNCHANGED route

-----------------------------------------------------------------------------
(* connect and destroy.                                                    *)

(* With --probe-only the proxy is not ensured first.                       *)
BeginConnect(c) ==
  /\ act[c].pc = "idle" /\ inferCmds < MaxInferCmds /\ inferCmds' = inferCmds + 1
  /\ \E b \in Sandboxes, pc \in {"ensure", "swap"} :
       Go(c, [NoCommand EXCEPT !.pc = pc, !.ret = "swap", !.box = b])
  /\ UNCHANGED <<helper, keys, processes, taken, routing, sess, infFaults>>

(* ensureSandboxInferenceRoute: the route is the gateway's, the provider   *)
(* the sandbox's own.  A swap that fails is reported only.                 *)
SwapRoute(c) ==
  /\ act[c].pc = "swap" /\ providerOf[act[c].box] # "none"
  /\ LET on == [act[c] EXCEPT !.pc = "probe", !.sel = providerOf[act[c].box], !.mem = NoSecret] IN
     \/ route' = on.sel /\ IF route = on.sel THEN Go(c, on) ELSE Alone(c, on)
     \/ Go(c, on) /\ UNCHANGED route
  /\ World /\ SameHelper /\ UNCHANGED <<providerOf, sess>>

(* repairSandboxInferenceRouteIfNeeded did not help; it has set the route  *)
(* again for a VM sandbox.                                                 *)
RepairRoute(c) ==
  /\ act[c].pc = "probe"
  /\ route' \in {route, act[c].sel}
  /\ Alone(c, To(c, "deps"))
  /\ World /\ SameHelper /\ UNCHANGED <<providerOf, sess>>

(* resetManagedInferenceRoute: dependencies, route, dependencies, probe.   *)
VerifyDependencies(c) ==
  /\ act[c].pc \in {"deps", "again"}
  /\ LET next == IF act[c].pc = "deps" THEN "reset" ELSE "last" IN
     Go(c, IF act[c].sel = "helper" THEN Call(c, "ensure", next) ELSE To(c, next))
  /\ World /\ SameHelper /\ SameRoute

ResetRoute(c) ==
  /\ act[c].pc = "reset"
  /\ route' = act[c].sel
  /\ Alone(c, To(c, "again"))
  /\ World /\ SameHelper /\ UNCHANGED <<providerOf, sess>>

(* The proxy goes with every sandbox that used it.                         *)
DestroyUser(b) ==
  /\ inferCmds < MaxInferCmds /\ inferCmds' = inferCmds + 1 /\ providerOf[b] # "none"
  /\ IF providerOf[b] = "helper" /\ helper = "proxy" THEN Killed(O) /\ pidFile' = NoProc
     ELSE UNCHANGED processes
  /\ providerOf' \in {providerOf, [providerOf EXCEPT ![b] = "none"]}
  /\ act' = [a \in Actors |-> Disturbed(act[a])]
  /\ UNCHANGED <<helper, keys, taken, route, sess, infFaults>>

-----------------------------------------------------------------------------
(* The processes and the environment.                                      *)

(* A helper that finds its port taken dies of it.  A router left by a run  *)
(* that was killed interferes when it answers for one that is starting.    *)
HelperBinds(p) ==
  /\ IsHelper(p) /\ ~proc[p].up
  /\ proc' = [proc EXCEPT ![p] = IF PortAnswers THEN Free ELSE [@ EXCEPT !.up = TRUE]]
  /\ act' = [a \in Actors |-> IF helper = "router" /\ act[a].child # p THEN Disturbed(act[a]) ELSE act[a]]
  /\ UNCHANGED <<helper, keys, pidFile, taken, routing, sess, inferCmds, infFaults>>

Happens == infFaults < MaxInferFaults /\ infFaults' = infFaults + 1
           /\ act' = [a \in Actors |-> Disturbed(act[a])]
           /\ UNCHANGED <<helper, keys, pidFile, routing, sess, inferCmds>>
HelperDies(p)  == Happens /\ IsHelper(p) /\ proc' = [proc EXCEPT ![p] = Free] /\ UNCHANGED taken
OtherStarts(p) == Happens /\ ~Running(p) /\ proc' = [proc EXCEPT ![p] = Other] /\ UNCHANGED taken
PortTaken      == Happens /\ ~PortAnswers /\ taken' = TRUE /\ UNCHANGED proc

Reboot ==
  /\ infFaults < MaxInferFaults /\ infFaults' = infFaults + 1
  /\ proc' = [p \in Procs |-> IF IsHelper(p) THEN Free ELSE proc[p]]
  /\ act' = [a \in Actors |-> NoCommand]
  /\ UNCHANGED <<helper, keys, pidFile, taken, routing, sess, inferCmds>>

(* A command exits by itself, or is killed, anywhere.                      *)
CommandEnds(a) ==
  /\ act[a].pc # "idle" /\ Go(a, NoCommand)
  /\ World /\ SameHelper /\ SameRoute

(* Nothing set up yet, or an earlier onboarding's helper in use.           *)
InitKey == CHOOSE key \in Secrets : TRUE
InitPid == CHOOSE p \in Procs : TRUE
InferInit ==
  /\ helper \in {"proxy", "adapter", "router"}
  /\ taken = FALSE
  /\ \/ /\ saved = NoSecret /\ gwKey = NoSecret /\ pidFile = NoProc
        /\ proc = [p \in Procs |-> Free]
        /\ route = "none" /\ providerOf = [b \in Sandboxes |-> "none"]
     \/ /\ saved = InitKey /\ gwKey = InitKey /\ pidFile = InitPid
        /\ proc = [p \in Procs |-> IF p = InitPid THEN [Child(InitKey) EXCEPT !.up = TRUE] ELSE Free]
        /\ route = "helper" /\ providerOf = [b \in Sandboxes |-> "helper"]
  /\ sess = [open |-> FALSE, sel |-> "none", box |-> NoCommand.box]
  /\ act = [a \in Actors |-> NoCommand]
  /\ inferCmds = 0 /\ infFaults = 0

OnboardInfers ==
  \/ BeginOnboard \/ SelectRemote \/ SelectHermes \/ SelectVllm \/ SelectNim
  \/ SelectUnproxied \/ SelectBedrock \/ SelectRouted \/ SelectOllama \/ AwaitProxy \/ SelectModel
  \/ RecordSelection \/ ApplySelection \/ SetupOther \/ CheckOllama \/ ProxyHealthy
  \/ PersistToken \/ EnsureAdapter \/ AwaitAdapter \/ KeepAdapterToken
  \/ ReconcileRouter \/ StopRouter \/ ReapRouter \/ StartRouter \/ RouterUp \/ RecordRouter
  \/ UpsertHelper \/ ApplyRoute \/ VerifyRoute \/ FinishInference
ConnectInfers(c) ==
  BeginConnect(c) \/ SwapRoute(c) \/ RepairRoute(c) \/ VerifyDependencies(c) \/ ResetRoute(c)
HelperSteps(a) ==
  \/ Ensure(a) \/ KillStale(a) \/ SpawnHelper(a) \/ PersistPid(a) \/ EnsurePoll(a) \/ CommandEnds(a)
Surroundings ==
  \/ \E p \in Procs : HelperBinds(p) \/ HelperDies(p) \/ OtherStarts(p)
  \/ PortTaken \/ Reboot

InferNext ==
  \/ OnboardInfers
  \/ \E c \in Connects : ConnectInfers(c)
  \/ \E a \in Actors : HelperSteps(a)
  \/ \E b \in Sandboxes : DestroyUser(b)
  \/ Surroundings

InferSpec == InferInit /\ [][InferNext]_inferVars

-----------------------------------------------------------------------------
(* The gateway never holds a proxy token other than the one on disk, from  *)
(* which alone the proxy is ever restarted (persistProxyToken waits for    *)
(* the confirmed provider).                                                *)
TokenIsGateways == helper = "proxy" => gwKey \in {NoSecret, saved}

(* What a command reports ready serves the gateway: after the setup of an  *)
(* onboarding, and after the ensure of a connect, the helper that answers  *)
(* its port has the key the gateway presents, unless another command or    *)
(* the environment has interfered, or the port belongs to someone else.    *)
HelperServesGateway ==
  \A a \in Actors :
    /\ act[a].ready /\ ~taken
    /\ IF a = O THEN act[a].pc \in {"verify", "finish"} /\ act[a].sel = "helper" ELSE gwKey # NoSecret
    => Serving

(* No process is ended that merely has the pid of a dead helper.  (The     *)
(* router's SIGKILL does not look again.)                                  *)
OthersAreSpared ==
  [][helper # "router" => \A p \in Procs : proc[p].is = "other" => proc'[p].is = "other"]_inferVars
=============================================================================
