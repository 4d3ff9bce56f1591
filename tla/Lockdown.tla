------------------------------ MODULE Lockdown ------------------------------
(***************************************************************************)
(* What the shields of a sandbox promise an operator (src/lib/shields),    *)
(* whichever command or timer carries it out.  A sandbox is opened only if *)
(* its record does not say that it is open; closing it opens nothing; it   *)
(* is recorded locked only when it is; and when nobody is at work the      *)
(* record is true and an open sandbox has somebody to close it.  Shields   *)
(* is shown to implement this.                                             *)
(*                                                                         *)
(* The promise covers one failing call, but not that of a killed process   *)
(* or of an opening that fails after it relaxed and before its record.     *)
(***************************************************************************)
EXTENDS Integers

VARIABLES
  said,         \* shieldsDown as recorded: "undef", "yes" (open), "no" (locked)
  policy, cfg,  \* the live policy and the permissions of the config
  watched,      \* somebody will close the sandbox
  at,           \* what is under way: "rest", "opening", "closing"
  harm          \* failing calls so far; 2 when the promise no longer covers it

lockdownVars == <<said, policy, cfg, watched, at, harm>>

Shut == policy = "restrictive" /\ cfg = "locked"

(* At rest the record is true (only of an open sandbox is the policy       *)
(* permissive), and a window is watched unless a call has failed.          *)
Promise ==
  harm < 2 /\ at = "rest" =>
    /\ said # "yes" => policy = "restrictive"
    /\ said = "no" => cfg = "locked"
    /\ said = "yes" /\ harm = 0 => watched

Init ==
  /\ said = "undef" /\ policy = "restrictive" /\ cfg = "mutable"
  /\ watched = FALSE /\ at = "rest" /\ harm = 0

(* At rest nothing moves until somebody begins, and none opens twice.      *)
Begin ==
  /\ at = "rest" /\ (at' = "opening" => said # "yes")
  /\ UNCHANGED <<said, policy, cfg>> /\ harm' \in {harm, harm + 1}

(* Opening relaxes policy and config in any order, and then records it.    *)
Open ==
  /\ at = "opening" /\ at' = "opening"
  /\ said' = said /\ harm' \in {harm, harm + 1}
Opened ==
  /\ at = "opening" /\ at' = "rest" /\ said' = "yes"
  /\ UNCHANGED <<policy, cfg, harm>>

(* An opening that fails may stop at once only where the promise holds.    *)
Failed ==
  /\ at = "opening" /\ at' # "opening"
  /\ said' = said /\ harm' = harm + 1

(* Closing, which may give up: also the way back from a failed opening.    *)
(* One who takes over from the timer may tear the record it was writing,   *)
(* and so may a failing write.                                             *)
Close ==
  /\ at = "closing" /\ at' # "opening"
  /\ policy' \in {policy, "restrictive"} /\ (cfg = "locked" => cfg' = "locked")
  /\ said' = said \/ (said' = "undef" /\ (at' = "closing" \/ harm' = harm + 1))
  /\ harm' \in {harm, harm + 1}
Closed ==
  /\ at = "closing" /\ at' # "opening" /\ Shut /\ said' = "no"
  /\ UNCHANGED <<policy, cfg, harm>>

(* Past what the promise covers anything may happen.                       *)
Lose == harm' = 2

Next == Lose \/ (harm < 2 /\ (Begin \/ Open \/ Opened \/ Failed \/ Close \/ Closed) /\ Promise')

Spec == Init /\ [][Next]_lockdownVars
=============================================================================
