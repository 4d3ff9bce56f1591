------------------------------ MODULE MCShields ------------------------------
(* Shields instantiated for TLC.                                           *)
EXTENDS Shields, TLC

(* Command processes, tokens, pids and snapshot names are interchangeable. *)
Symmetry ==
  Permutations(Cli) \cup Permutations(Token) \cup Permutations(Pid) \cup Permutations(Snap)
=============================================================================
