------------------------------- MODULE Registry -------------------------------
(***************************************************************************)
(* What the sandbox registry promises (src/lib/state/registry.ts): every   *)
(* withLock operation reads and rewrites sandboxes.json in one step, but   *)
(* for one whose read failed: readConfigFile answers that with an empty    *)
(* registry, and what the operation saves has lost all other entries.      *)
(* RegistryLock is shown to implement this.                                *)
(*                                                                         *)
(* The fields of a sandbox entry are abstracted to one value.              *)
(***************************************************************************)
EXTENDS Naturals, FiniteSets

CONSTANTS Name, Value, NoName, NoEntry

VARIABLES
  registry,  \* sandboxes.json: the entry of each name, and the default
  blind,     \* an operation could not read it and took it for empty
  failures   \* calls that have failed

registryVars == <<registry, blind, failures>>

Registries == [entry : [Name -> Value \cup {NoEntry}], default : Name \cup {NoName}]
Empty      == [entry |-> [n \in Name |-> NoEntry], default |-> NoName]

(* The mutating operations.  addCustomPolicy, removeCustomPolicyByName and *)
(* setChannelDisabled rewrite a field of one entry: they are updates.      *)
Op == [kind : {"register", "update"}, name : Name, value : Value]
        \cup [kind : {"remove", "setDefault"}, name : Name]
        \cup [kind : {"clearAll"}]

Names(r) == {n \in Name : r.entry[n] # NoEntry}

(* An operation on a sandbox that is not registered saves nothing.         *)
Applies(op, r) ==
  op.kind \in {"update", "remove", "setDefault"} => op.name \in Names(r)

(* registerSandbox keeps a default that is set, registered or not.         *)
Registered(op, r) ==
  {[entry   |-> [r.entry EXCEPT ![op.name] = op.value],
    default |-> IF r.default = NoName THEN op.name ELSE r.default]}

(* Mutant: the default is left behind when its sandbox goes.               *)
RemovedKeepsDefault(op, r) ==
  {[entry |-> [r.entry EXCEPT ![op.name] = NoEntry], default |-> r.default]}

(* removeSandbox moves the default to the first of the remaining names in  *)
(* the file's key order, here any of them.                                 *)
Removed(op, r) ==
  LET left == Names(r) \ {op.name} IN
  {[entry |-> [r.entry EXCEPT ![op.name] = NoEntry], default |-> d] :
     d \in IF r.default # op.name THEN {r.default}
           ELSE IF left = {} THEN {NoName} ELSE left}

Outcomes(op, r) ==
  CASE op.kind = "register"   -> Registered(op, r)
    [] op.kind = "update"     -> {[r EXCEPT !.entry = [@ EXCEPT ![op.name] = op.value]]}
    [] op.kind = "remove"     -> Removed(op, r)
    [] op.kind = "setDefault" -> {[r EXCEPT !.default = op.name]}
    [] op.kind = "clearAll"   -> {Empty}

Init == registry = Empty /\ blind = FALSE /\ failures = 0

(* An operation, on what the last one saved.                               *)
Apply(op) ==
  /\ ~blind /\ Applies(op, registry) /\ registry' \in Outcomes(op, registry)
  /\ UNCHANGED <<blind, failures>>

(* A failing call saves nothing by itself; a failing read may blind the    *)
(* operation that made it.                                                 *)
Fails == failures' = failures + 1 /\ ~(blind /\ blind') /\ UNCHANGED registry

(* An operation that took the registry for empty saves what that makes, or *)
(* nothing.                                                                *)
Afresh(op) ==
  /\ blind /\ blind' = FALSE /\ Applies(op, Empty) /\ registry' \in Outcomes(op, Empty)
  /\ UNCHANGED failures
GiveUp == blind' = FALSE /\ UNCHANGED <<registry, failures>>

Next == Fails \/ GiveUp \/ \E op \in Op : Apply(op) \/ Afresh(op)
Spec == Init /\ [][Next]_registryVars

(* The default sandbox, when there is one, is registered: no sequence of   *)
(* operations leaves commands without a name pointing at a removed sandbox.*)
DefaultRegistered(r) == r.default # NoName => r.default \in Names(r)
=============================================================================
