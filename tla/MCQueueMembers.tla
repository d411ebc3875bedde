--------------------------- MODULE MCQueueMembers ---------------------------
(* Small instances of QueueMembers for TLC. *)
EXTENDS QueueMembers, TLC

CONSTANTS sales, x100, x101, low, high

OneContext == {sales}
OnlyOne == {<<sales>>}
OneExtension == {x100}
TwoExtensions == {x100, x101}
OneSetting == {low}
TwoSettings == {low, high}

SymmetricExtensions == Permutations(TwoExtensions)
SymmetricSettings == Permutations(TwoSettings)
=============================================================================
