---------------------------- MODULE MCPbxScreen -----------------------------
(* Small instances of PbxScreen for TLC. *)
EXTENDS PbxScreen

CONSTANTS sales, support, x100

TwoContexts == {sales, support}
OneContext == {sales}
OneNumber == {x100}

(* The primary context comes and goes; without it the second is primary. *)
PrimaryComesAndGoes == {<<sales, support>>, <<support>>}
(* The primary context changes. *)
PrimaryMoves == {<<sales, support>>, <<support, sales>>}
Fixed == {<<sales, support>>}
OnlyOne == {<<sales>>}

(* OfficePulse starts without the extension: others may create it. *)
StartsEmpty == commits = 0 => \A c \in Context : pbx[c] = {}

(* The creation form is never opened: deletions only. *)
FormClosed == form = None
=============================================================================
