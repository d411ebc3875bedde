---------------------------- MODULE TenantShell -----------------------------
(***************************************************************************)
(* The application shell of a browser's tabs (web/src/App.tsx, TenantPage, *)
(* TenantContextBanner and the polling of OperationsScreen) over the       *)
(* application session that Identity holds for them: whether it is active, *)
(* what its user may administer, and the tenant it has selected.           *)
(*                                                                         *)
(* Every call to the BFF introspects the session in the middleware, most   *)
(* introspect it again in their handler, and some then store a selection;  *)
(* other tabs, and Identity's administrators, act between those steps.  A  *)
(* tab keeps the answer of its last session load until the next one.       *)
(*                                                                         *)
(* One page stands for all the screens of a tenant.  Their own requests,   *)
(* the calls' details and signing in are left out.                         *)
(***************************************************************************)
EXTENDS Naturals, Sequences, SequencesExt

CONSTANTS
    Tenant,         \* the tenants Identity knows
    Tab,            \* tabs of one browser, which share the session's cookie
    NoTenant,       \* no tenant selected
    FirstUsers,     \* what Identity may know of the user at first
    MaxCalls,       \* bound on the calls of a tab in flight
    MaxActs,        \* bound on what the user does once the tabs are open
    MaxChanges      \* bound on the changes made in Identity

ASSUME ShellBounds == MaxCalls \in Nat \ {0} /\ MaxActs \in Nat /\ MaxChanges \in Nat
ASSUME NamesAreApart == {NoTenant, "home", "operations", "all"} \cap Tenant = {}
                        /\ NoTenant \notin {"home", "operations", "all"}

VARIABLES
    central,        \* the application session and its user, in Identity
    tabs,           \* what each tab shows, and its calls in flight
    acts,           \* what the user did so far
    changes         \* changes in Identity so far

vars == <<central, tabs, acts, changes>>

Paths == Tenant \cup {"home", "operations"}
Scopes == Tenant \cup {"all"}
User == [super: BOOLEAN, role: [Tenant -> {"NONE", "USER", "TENANT_ADMIN"}],
         enabled: SUBSET Tenant]
ASSUME UsersAreKnown == FirstUsers \subseteq User

Call == [kind: {"session", "select", "list", "logout"},
         from: {"app", "banner", "page"},
         tenant: Scopes \cup {NoTenant},    \* asked for; in the end, answered
         at: Paths,                         \* the path the banner was at
         stage: {"sent", "scoping", "storing", "answered"},
         super: BOOLEAN,                    \* the session the middleware saw
         selected: Tenant \cup {NoTenant},
         result: {"none", "ok", "unauthenticated", "forbidden", "error"},
         hears: {"mounted", "unmounted", "gone"},   \* who made it, by now
         ever: SUBSET Scopes]               \* allowed at some time since it was sent

(* Every tab and call is one the code can produce. *)
TypeOK ==
    /\ central.active \in BOOLEAN /\ central.selected \in Tenant \cup {NoTenant}
    /\ [super |-> central.super, role |-> central.role, enabled |-> central.enabled] \in User
    /\ acts \in 0..MaxActs /\ changes \in 0..MaxChanges
    /\ \A b \in Tab :
         LET t == tabs[b] IN
         /\ t.view \in {"closed", "loading", "unauthenticated", "forbidden", "error", "authenticated"}
         /\ t.banner \in Tenant \cup {NoTenant} /\ t.path \in Paths
         /\ t.listed \in Scopes \cup {NoTenant}
         /\ {t.super, t.busy, t.pageError} \subseteq BOOLEAN
         /\ Len(t.calls) \in 0..MaxCalls /\ \A i \in DOMAIN t.calls : t.calls[i] \in Call
         /\ t.view # "authenticated" =>
              /\ t.banner = NoTenant /\ t.listed = NoTenant
              /\ ~t.super /\ ~t.busy /\ ~t.pageError

-----------------------------------------------------------------------------
(* Identity and what the BFF makes of an introspection. *)

(* What the user may see: Identity's roles, and for a Super Admin all. *)
Entitlements(c) ==
    IF c.active THEN {t \in c.enabled : c.super \/ c.role[t] = "TENANT_ADMIN"}
                       \cup (IF c.super THEN {"all"} ELSE {})
                ELSE {}

(* The tenants the middleware puts into the request's session. *)
Administered == {t \in central.enabled : central.super \/ central.role[t] = "TENANT_ADMIN"}

(* Fault: any member of an enabled tenant is let in. *)
AdmissionOfMembers ==
    IF central.active /\ (central.super \/ \E t \in central.enabled : central.role[t] # "NONE")
    THEN "session" ELSE "unauthenticated"

(* How the middleware lets a request through. *)
Admission ==
    IF ~central.active THEN "unauthenticated"
    ELSE IF central.super \/ Administered # {} THEN "session"
    ELSE IF \E t \in central.enabled : central.role[t] = "USER" THEN "forbidden"
    ELSE "unauthenticated"

SelectedTenant == IF central.selected \in Administered THEN central.selected ELSE NoTenant

(* The second introspection, of the handlers that need the roles. *)
Selectable ==
    IF central.active
    THEN {t \in central.enabled : central.super \/ central.role[t] = "TENANT_ADMIN"} ELSE {}

(* Identity lists tenants in an order of its own; the first is always the same. *)
FirstOf(tenants) == CHOOSE t \in tenants : TRUE

-----------------------------------------------------------------------------
(* A tab. *)

NewCall(kind, from, tenant, at) ==
    [kind |-> kind, from |-> from, tenant |-> tenant, at |-> at, stage |-> "sent",
     super |-> FALSE, selected |-> NoTenant, result |-> "none", hears |-> "mounted",
     ever |-> Entitlements(central)]

Send(t, call) == [t EXCEPT !.calls = Append(@, call)]
HasRoom(t) == Len(t.calls) < MaxCalls

Matches(t) == t.path = t.banner
(* TenantPage shows "Selecting tenant". *)
Selecting(t) ==
    t.view = "authenticated" /\ t.path \in Tenant /\ ~Matches(t) /\ t.super /\ ~t.pageError

(* The poll of a screen that unmounts is dropped with it, for it only      *)
(* reads; LIVE has at most one.                                            *)
Polls(calls) == {i \in DOMAIN calls : calls[i].kind = "list"}
WithoutPolls(calls) ==
    IF Polls(calls) = {} THEN calls ELSE RemoveAt(calls, CHOOSE i \in Polls(calls) : TRUE)
Deafen(calls, from) ==
    [i \in DOMAIN calls |-> IF calls[i].from = from /\ calls[i].hears = "mounted"
                            THEN [calls[i] EXCEPT !.hears = "unmounted"] ELSE calls[i]]

(* The effects of the component the path shows, when it mounts. *)
Enter(t) ==
    IF t.path \in Tenant /\ ~Matches(t) /\ t.super
      THEN Send(t, NewCall("select", "page", t.path, "home"))
    ELSE IF t.path = "operations" THEN Send(t, NewCall("list", "page", NoTenant, "home"))
    ELSE t

(* And their cleanup. *)
Leave(t) == [t EXCEPT !.listed = NoTenant, !.calls = Deafen(WithoutPolls(@), "page")]

(* The shell gives way to another screen. *)
Unmount(t, view) ==
    [Leave(t) EXCEPT !.view = view, !.banner = NoTenant, !.super = FALSE, !.busy = FALSE,
                     !.pageError = FALSE, !.calls = Deafen(@, "banner")]

(* Fault: the shell's state survives the load that replaces it. *)
StartLoadKeeping(t) ==
    Send([t EXCEPT !.view = "loading"], NewCall("session", "app", NoTenant, "home"))

StartLoad(t) == Send(Unmount(t, "loading"), NewCall("session", "app", NoTenant, "home"))

(* Fault: a session load that fails is not answered to the shell. *)
ShowSessionThrowing(t, c) ==
    LET new == [t EXCEPT !.banner = c.tenant, !.super = c.super] IN
    IF c.result = "error" THEN t
    ELSE IF c.result # "ok" THEN Unmount(t, c.result)
    ELSE IF t.view # "authenticated" THEN Enter([new EXCEPT !.view = "authenticated"])
    ELSE new

(* setState with the answer of a session load, whichever load it was. *)
ShowSession(t, c) ==
    LET new == [t EXCEPT !.banner = c.tenant, !.super = c.super] IN
    IF c.result # "ok" THEN Unmount(t, c.result)
    ELSE IF t.view # "authenticated" THEN Enter([new EXCEPT !.view = "authenticated"])
    ELSE IF c.tenant # t.banner THEN Enter([Leave(new) EXCEPT !.pageError = FALSE])
    ELSE IF c.super # t.super /\ t.path \in Tenant
      THEN Enter([new EXCEPT !.calls = Deafen(@, "page")])
    ELSE new

(* TenantPage's effect hears of its selection, unless it was cleaned up. *)
PageSelected(t, c) ==
    IF c.hears # "mounted" THEN t
    ELSE IF c.result = "ok" THEN StartLoad(t) ELSE [t EXCEPT !.pageError = TRUE]

(* Fault: the banner is released only when the selection succeeds. *)
BannerSelectedLocking(t, c) ==
    IF c.result = "ok"
    THEN StartLoad([t EXCEPT !.path = IF c.at \in Tenant THEN c.tenant ELSE c.at])
    ELSE t

(* The banner's `select` goes on after its banner is unmounted: it moves   *)
(* to the path its click had in mind and loads the session again.          *)
BannerSelected(t, c) ==
    IF c.result = "ok"
    THEN StartLoad([t EXCEPT !.path = IF c.at \in Tenant THEN c.tenant ELSE c.at])
    ELSE [t EXCEPT !.busy = @ /\ c.hears # "mounted"]

Hear(t, c) ==
    CASE c.kind = "session" -> ShowSession(t, c)
      [] c.kind = "select"  -> IF c.from = "page" THEN PageSelected(t, c) ELSE BannerSelected(t, c)
      [] c.kind = "list"    -> [t EXCEPT !.listed = IF c.result = "ok" THEN c.tenant ELSE NoTenant]
      [] c.kind = "logout"  -> StartLoad(t)

Blank(path) == [view |-> "loading", banner |-> NoTenant, super |-> FALSE, path |-> path,
                pageError |-> FALSE, busy |-> FALSE, listed |-> NoTenant, calls |-> <<>>]

Closed == [Blank("home") EXCEPT !.view = "closed"]

(* One tab is opened; the user may open the others later. *)
Init ==
    /\ \E u \in FirstUsers, s \in Tenant \cup {NoTenant} :
         central = [active |-> TRUE, super |-> u.super, role |-> u.role, enabled |-> u.enabled,
                    selected |-> s]
    /\ \E b \in Tab, p \in Paths :
         tabs = [other \in Tab |-> IF other = b THEN StartLoad(Blank(p)) ELSE Closed]
    /\ acts = 0 /\ changes = 0

Acts == acts < MaxActs /\ acts' = acts + 1 /\ UNCHANGED <<central, changes>>
Becomes(b, t) == tabs' = [tabs EXCEPT ![b] = t]
CallBecomes(b, i, c) == tabs' = [tabs EXCEPT ![b].calls[i] = c]

(* A link, a direct address, a reload or a new tab: the browser loads the  *)
(* shell anew.                                                             *)
Open(b, p) ==
    LET calls == WithoutPolls(tabs[b].calls)
        left == [i \in DOMAIN calls |-> [calls[i] EXCEPT !.hears = "gone"]] IN
    /\ HasRoom(tabs[b])
    /\ Becomes(b, StartLoad([Blank(p) EXCEPT !.calls = left]))
    /\ Acts

(* A link of the shell, or back to a page the tab has shown before. *)
Navigate(b, p) ==
    LET t == tabs[b]
        stays == t.path \in Tenant /\ p \in Tenant IN
    /\ t.view = "authenticated" /\ p # t.path /\ HasRoom(t)
    /\ Becomes(b, Enter([Leave(t) EXCEPT !.path = p, !.pageError = stays /\ @]))
    /\ Acts

(* The banner's selector. *)
BannerSelect(b, x) ==
    LET t == tabs[b] IN
    /\ t.view = "authenticated" /\ t.super /\ ~t.busy /\ x # t.banner /\ HasRoom(t)
    /\ Becomes(b, Send([t EXCEPT !.busy = TRUE], NewCall("select", "banner", x, t.path)))
    /\ Acts

SignOut(b) ==
    LET t == tabs[b] IN
    /\ t.view = "authenticated" /\ HasRoom(t)
    /\ Becomes(b, Send(t, NewCall("logout", "app", NoTenant, "home")))
    /\ Acts

(* Two seconds after a poll LIVE asks again. *)
Poll(b) ==
    LET t == tabs[b] IN
    /\ t.view = "authenticated" /\ t.path = "operations" /\ HasRoom(t)
    /\ Polls(t.calls) = {}
    /\ Becomes(b, Send(t, NewCall("list", "page", NoTenant, "home")))
    /\ UNCHANGED <<central, acts, changes>>

Retry(b) ==
    /\ tabs[b].view = "error" /\ HasRoom(tabs[b]) /\ Becomes(b, StartLoad(tabs[b]))
    /\ Acts

(* An answer arrives; the page that asked may be gone. *)
Deliver(b, i) ==
    LET t == tabs[b]
        c == t.calls[i]
        rest == [t EXCEPT !.calls = RemoveAt(@, i)] IN
    /\ c.stage = "answered"
    /\ Becomes(b, IF c.hears = "gone" THEN rest ELSE Hear(rest, c))
    /\ UNCHANGED <<central, acts, changes>>

-----------------------------------------------------------------------------
(* The BFF. *)

(* An answer carries no more than its reader looks at. *)
Answered(c, result, tenant) ==
    LET reads == result = "ok" /\ c.kind \in {"session", "list"} IN
    [c EXCEPT !.stage = "answered", !.result = result, !.tenant = tenant, !.selected = NoTenant,
              !.super = reads /\ @, !.ever = IF reads THEN @ ELSE {}]
Refused(c, result) == Answered(c, result, c.tenant)

Scoping(c) == [c EXCEPT !.stage = "scoping", !.super = central.super, !.selected = SelectedTenant]

(* What the handlers do with the session before they wait again: GET       *)
(* /api/session, POST /api/session/tenant and GET /runtime/calls.          *)
GetSession(c) ==
    IF SelectedTenant = NoTenant /\ central.super
    THEN [Answered(c, "ok", NoTenant) EXCEPT !.super = TRUE] ELSE Scoping(c)

SelectTenant(c) == IF central.super THEN Scoping(c) ELSE Refused(c, "forbidden")

ListCalls(c) ==
    IF SelectedTenant # NoTenant THEN Scoping(c)
    ELSE IF central.super THEN Answered(c, "ok", "all") ELSE Refused(c, "forbidden")

Admitted(c) ==
    CASE c.kind = "session" -> GetSession(c)
      [] c.kind = "select" -> SelectTenant(c)
      [] c.kind = "list" -> ListCalls(c)

(* sessionMiddleware, and the start of the handler. *)
Introspect(b, i) ==
    LET c == tabs[b].calls[i] IN
    /\ c.stage = "sent" /\ c.kind # "logout"
    /\ CallBecomes(b, i, IF Admission = "session" THEN Admitted(c) ELSE Refused(c, Admission))
    /\ UNCHANGED <<central, acts, changes>>

Storing(c, t) == [c EXCEPT !.stage = "storing", !.tenant = t]

(* Fault: Tenant Admins are left to choose their tenant. *)
SessionTenantUnentered(c) ==
    Answered(c, "ok", IF c.selected \in Selectable THEN c.selected ELSE NoTenant)

(* And after selectableTenants: the session's tenant, or for a Tenant Admin *)
(* without one the first they administer.                                  *)
SessionTenant(c) ==
    IF c.selected = NoTenant /\ Selectable # {} THEN Storing(c, FirstOf(Selectable))
    ELSE Answered(c, "ok", IF c.selected \in Selectable THEN c.selected ELSE NoTenant)

AllowSelection(c) ==
    IF c.tenant \in Selectable THEN Storing(c, c.tenant) ELSE Refused(c, "forbidden")

ListedTenant(c) ==
    IF c.selected \in Selectable THEN Answered(c, "ok", c.selected) ELSE Refused(c, "forbidden")

Scoped(c) ==
    CASE c.kind = "session" -> SessionTenant(c)
      [] c.kind = "select" -> AllowSelection(c)
      [] c.kind = "list" -> ListedTenant(c)

Scope(b, i) ==
    LET c == tabs[b].calls[i] IN
    /\ c.stage = "scoping"
    /\ CallBecomes(b, i, Scoped(c))
    /\ UNCHANGED <<central, acts, changes>>

(* setSelectedTenant: Identity stores the selection with the session. *)
Store(b, i) ==
    LET c == tabs[b].calls[i] IN
    /\ c.stage = "storing" /\ central.active
    /\ central' = [central EXCEPT !.selected = c.tenant]
    /\ CallBecomes(b, i, Answered(c, "ok", c.tenant))
    /\ UNCHANGED <<acts, changes>>

(* Identity or the network fails at any point, also after the call took effect. *)
CallFails(b, i) ==
    LET c == tabs[b].calls[i] IN
    /\ c.result # "error"
    /\ CallBecomes(b, i, Refused(c, "error"))
    /\ UNCHANGED <<central, acts, changes>>

(* Identity changes under the calls in flight. *)
Noted(ts, c) ==
    [b \in Tab |-> [ts[b] EXCEPT !.calls =
        [i \in DOMAIN ts[b].calls |->
            IF ts[b].calls[i].stage = "answered" THEN ts[b].calls[i]
            ELSE [ts[b].calls[i] EXCEPT !.ever = @ \cup Entitlements(c)]]]]

Revoke(b, i) ==
    LET c == tabs[b].calls[i]
        ended == [central EXCEPT !.active = FALSE] IN
    /\ c.kind = "logout" /\ c.stage = "sent"
    /\ central' = ended
    /\ tabs' = Noted([tabs EXCEPT ![b].calls[i] = Refused(c, "ok")], ended)
    /\ UNCHANGED <<acts, changes>>

(* An administrator changes the user or a tenant, or the session ends. *)
IdentityChange ==
    /\ changes < MaxChanges
    /\ \/ \E t \in Tenant, r \in {"NONE", "USER", "TENANT_ADMIN"} :
            central.role[t] # r /\ central' = [central EXCEPT !.role[t] = r]
       \/ \E t \in Tenant :
            central' = [central EXCEPT !.enabled = IF t \in @ THEN @ \ {t} ELSE @ \cup {t}]
       \/ central' = [central EXCEPT !.super = ~@]
       \/ central.active /\ central' = [central EXCEPT !.active = FALSE]
    /\ tabs' = Noted(tabs, central')
    /\ changes' = changes + 1
    /\ UNCHANGED acts

-----------------------------------------------------------------------------
Serve(b, i) == Introspect(b, i) \/ Scope(b, i) \/ Store(b, i) \/ Revoke(b, i) \/ Deliver(b, i)

Next ==
    \/ \E b \in Tab :
         \/ \E p \in Paths : Open(b, p) \/ Navigate(b, p)
         \/ \E x \in Tenant : BannerSelect(b, x)
         \/ SignOut(b) \/ Poll(b) \/ Retry(b)
         \/ \E i \in DOMAIN tabs[b].calls : Serve(b, i) \/ CallFails(b, i)
    \/ IdentityChange

Spec == Init /\ [][Next]_vars

(* A call of one kind and origin is served or fails, or its answer is      *)
(* delivered.                                                              *)
Progress(b, kind, from) ==
    \E i \in DOMAIN tabs[b].calls :
        /\ tabs[b].calls[i].kind = kind /\ tabs[b].calls[i].from = from
        /\ Serve(b, i) \/ CallFails(b, i)

(* Servers answer and browsers deliver; nothing makes a user act, a poll   *)
(* fire or a call fail.                                                    *)
Fairness ==
    \A b \in Tab : /\ WF_vars(Progress(b, "session", "app"))
                   /\ WF_vars(Progress(b, "select", "page"))
                   /\ WF_vars(Progress(b, "select", "banner"))
                   /\ WF_vars(Progress(b, "logout", "app"))

FairSpec == Spec /\ Fairness

-----------------------------------------------------------------------------
(* Properties. *)

(* Access that was missing in Identity from before a call was sent until   *)
(* it is answered is never given by the answer: neither the shell, nor a   *)
(* tenant in the banner, nor its calls, nor everybody's calls ("membership *)
(* removal and session/privilege revocation take effect on the next        *)
(* request", README.md:21).  A selection stored before, or stored by a     *)
(* slower call, and the role seen by the first of two introspections must  *)
(* not outlive them.                                                       *)
RevokedIsRefused ==
    \A b \in Tab : \A i \in DOMAIN tabs[b].calls :
        LET c == tabs[b].calls[i] IN
        c.stage = "answered" /\ c.result = "ok" =>
            /\ c.kind = "session" => /\ c.ever # {} /\ c.tenant \in c.ever \cup {NoTenant}
                                     /\ c.super => "all" \in c.ever
            /\ c.kind = "list" => c.tenant \in c.ever

(* "Tenant Admins enter their tenant automatically" (README.md:28): one    *)
(* who administers a tenant is not shown a shell without one, whatever     *)
(* selection a former role left behind.                                    *)
TenantAdminNeverOutside ==
    \A b \in Tab :
        tabs[b].view = "authenticated" /\ ~tabs[b].super /\ Entitlements(central) # {}
            => tabs[b].banner # NoTenant

(* It holds as long as nothing changes in Identity.                        *)
TenantAdminEnters == changes = 0 => TenantAdminNeverOutside

(* The shell gives each user the access Identity grants, no more, no less. *)
AccessIsCurrent == TypeOK /\ RevokedIsRefused /\ TenantAdminEnters

(* "LIVE shows only current calls for the selected tenant"                 *)
(* (README.md:211), the one the banner names above them; nothing is        *)
(* claimed while the tab itself is selecting or loading.                   *)
LiveMatchesBanner ==
    \A b \in Tab :
        LET t == tabs[b] IN
        t.banner # NoTenant /\ (\A i \in DOMAIN t.calls : t.calls[i].kind = "list")
            => t.listed \in {NoTenant, t.banner}

(* No tab stays at "Loading" or "Selecting tenant": the page comes, or an  *)
(* error or a refusal, or the user goes elsewhere ("selecting a tenant     *)
(* updates both the central session and the current tenant page",          *)
(* README.md:27).  The only thing that keeps it there is another tab that  *)
(* stores its selection in the session they share again and again; the     *)
(* code does not prevent that (TenantPage.tsx:22).                         *)
Unsettled(b) == tabs[b].view = "loading" \/ Selecting(tabs[b])
StoredByOthers(b) ==
    \E other \in Tab \ {b} : \E i \in DOMAIN tabs[other].calls : Store(other, i)
ScreenSettles ==
    \A b \in Tab : \/ Unsettled(b) ~> ~Unsettled(b)
                   \/ []<><<StoredByOthers(b)>>_vars

(* And without the exception. *)
EveryTabSettles == \A b \in Tab : Unsettled(b) ~> ~Unsettled(b)

(* The selector of the banner is released whatever becomes of a selection. *)
BannerReleased == \A b \in Tab : tabs[b].busy ~> ~tabs[b].busy

(* Neither a page nor the banner waits for ever.                           *)
NothingWaits == ScreenSettles /\ BannerReleased
=============================================================================
