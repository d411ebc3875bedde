-------------------------- MODULE MCIdentityEvents --------------------------
(* Small instances of IdentityEvents for TLC. *)
EXTENDS IdentityEvents, TLC

CONSTANTS old, new, h1, h2, catchup

TwoProcesses == {old, new}
OneProcess == {old}
OneHandler == {h1}
TwoHandlers == {h1, h2}

(* The processes of a rollout, and the handler slots, are interchangeable. *)
Symmetric == Permutations(TwoProcesses)
=============================================================================
