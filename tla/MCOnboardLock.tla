---------------------------- MODULE MCOnboardLock ----------------------------
(* OnboardLock instantiated for TLC.                                       *)
EXTENDS OnboardLock, TLC

(* Pids and inode numbers are interchangeable.                             *)
Symmetry == Permutations(Proc) \cup Permutations(File)
==============================================================================
