--------------------------- MODULE MCTenantConfig ---------------------------
(* Small instances of TenantConfig for TLC. *)
EXTENDS TenantConfig, TLC

CONSTANTS t1, t2, sales, support, n1, n2, e1, e2

TwoTenants == {t1, t2}
TwoContexts == {sales, support}
TwoNames == {n1, n2}
OneName == {n1}
OneEditor == {e1}
TwoEditors == {e1, e2}

(* n2 is n1, disabled. *)
Enabled == [n \in Name |-> n1]

Symmetric == Permutations(TwoTenants) \cup Permutations(TwoContexts)
                \cup Permutations(TwoEditors)
=============================================================================
