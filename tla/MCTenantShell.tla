--------------------------- MODULE MCTenantShell ----------------------------
(* Small instances of TenantShell for TLC. *)
EXTENDS TenantShell

CONSTANTS t1, t2, tab1, tab2

TwoTenants == {t1, t2}
OneTab == {tab1}
TwoTabs == {tab1, tab2}

Everywhere == [t \in Tenant |-> "TENANT_ADMIN"]
SuperAdmin == [super |-> TRUE, role |-> Everywhere, enabled |-> Tenant]
TenantAdmin == [super |-> FALSE, role |-> Everywhere, enabled |-> Tenant]
Member == [super |-> FALSE, role |-> [t \in Tenant |-> "USER"], enabled |-> Tenant]

Elsewhere == [super |-> FALSE, enabled |-> Tenant,
              role |-> [t \in Tenant |-> IF t = t1 THEN "TENANT_ADMIN" ELSE "USER"]]

(* The first tab is opened first; opening the second one is an act. *)
OneTabFirst == tabs[tab2].view # "closed" => tabs[tab1].view # "closed"

AnyUser == {SuperAdmin, TenantAdmin, Member}
SuperAdmins == {SuperAdmin}
TenantAdmins == {TenantAdmin, Elsewhere}
=============================================================================
