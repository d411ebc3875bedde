--------------------------- MODULE MCProfileRouting ---------------------------
(* Small instances of ProfileRouting for TLC. *)
EXTENDS ProfileRouting, TLC

CONSTANTS acme, other, sales, support, d1, s, t1, t2

Tenants == {acme, other}
Contexts == {sales, support}
OneDid == {d1}
OneSetting == {s}
TwoTabs == {t1, t2}
Tabs == Permutations(TwoTabs)
HeldByAcme == [d \in OneDid |-> acme]

(* sales moves to other; acme keeps support.                               *)
Before == [t \in Tenants |-> IF t = acme THEN <<sales, support>> ELSE <<>>]
After == [t \in Tenants |-> IF t = acme THEN <<support>> ELSE <<sales>>]
Moved == {After}

Row(tenant, key, value) ==
    [tenant |-> tenant, key |-> key, value |-> value, revision |-> 1, by |-> 0]
ProfileOf(tenant) == Row(tenant, None, [text |-> 0, enabled |-> TRUE])
Default == <<Row(acme, [context |-> sales, did |-> None], 1)>>

Begin(number, route, rows, p, q, used) ==
    [contexts |-> Before, numbers |-> [d \in OneDid |-> number],
     routes |-> [d \in OneDid |-> route], assignments |-> rows,
     profiles |-> <<ProfileOf(acme), ProfileOf(other)>>,
     place |-> [t \in TwoTabs |-> IF t = t1 THEN p ELSE q], turns |-> used]

On(tenant, page) == [tenant |-> tenant, page |-> page]
Numbers == On(acme, "numbers")
Profiles == On(acme, "profiles")
Brands == On(acme, "appearance")
Away == On(acme, "elsewhere")
Enabled1 == [enabled |-> TRUE, version |-> 1]
InSupport == [context |-> support, set |-> s]

(* Two tabs with nothing else happening, and one with a turn to spend.     *)
Situations == {
    Begin(None, Unconfigured, <<>>, Numbers, Numbers, 1),
    Begin(Enabled1, Unconfigured, <<>>, Numbers, Numbers, 1),
    Begin(Enabled1, Unconfigured, Default, Profiles, Profiles, 1),
    Begin(None, Unconfigured, <<>>, Brands, Brands, 1),
    Begin(None, Unconfigured, <<>>, Numbers, Away, 0),
    Begin(Enabled1, InSupport, <<>>, Numbers, Away, 0),
    Begin(None, Unconfigured, Default, On(other, "profiles"), Away, 0),
    Begin(None, Unconfigured, <<>>, Brands, Away, 0)}
=============================================================================
