--------------------------- MODULE MCRegistryLock ---------------------------
(* RegistryLock instantiated for TLC.                                      *)
EXTENDS RegistryLock, TLC

(* Pids, sandbox names and entry values are interchangeable.               *)
Symmetry == Permutations(Proc) \cup Permutations(Name) \cup Permutations(Value)
=============================================================================
