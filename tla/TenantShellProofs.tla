-------------------------- MODULE TenantShellProofs --------------------------
(***************************************************************************)
(* The safety of the application shell, for any number of tabs, tenants,   *)
(* calls in flight and changes in Identity.                                *)
(***************************************************************************)
EXTENDS TenantShell, SequenceTheorems, TLAPS

Known == [active: BOOLEAN, super: BOOLEAN, role: [Tenant -> {"NONE", "USER", "TENANT_ADMIN"}],
          enabled: SUBSET Tenant, selected: Tenant \cup {NoTenant}]

Views == {"closed", "loading", "unauthenticated", "forbidden", "error", "authenticated"}
Shell == [view: Views, banner: Tenant \cup {NoTenant}, super: BOOLEAN, path: Paths,
          pageError: BOOLEAN, busy: BOOLEAN, listed: Scopes \cup {NoTenant}, calls: Seq(Call)]

(* What a call asks for, and how it goes on.                               *)
CallFits(c) ==
    /\ c \in Call
    /\ c.kind = "session" => c.tenant \in Tenant \cup {NoTenant}
    /\ c.kind = "select" => c.tenant \in Tenant
    /\ c.kind = "list" => c.from = "page" /\ c.hears = "mounted"
    /\ c.kind = "logout" => c.stage \in {"sent", "answered"}
    /\ c.stage = "storing" => c.kind \in {"session", "select"} /\ c.tenant \in Tenant
    /\ c.stage = "answered" => c.result # "none"

(* What a call in flight has seen was allowed since it was sent, and so is *)
(* what Identity, `id`, allows now.                                        *)
SeenIsAllowed(c, id) ==
    /\ c.stage # "answered" => Entitlements(id) \subseteq c.ever
    /\ c.kind = "session" /\ c.stage \in {"scoping", "storing"} =>
         /\ c.ever # {}
         /\ c.super => "all" \in c.ever
         /\ c.stage = "storing" => c.tenant \in c.ever

(* What the answer of a call gives was allowed. *)
GivenIsAllowed(c) ==
    c.stage = "answered" /\ c.result = "ok" =>
        /\ c.kind = "session" => /\ c.ever # {} /\ c.tenant \in c.ever \cup {NoTenant}
                                 /\ c.super => "all" \in c.ever
        /\ c.kind = "list" => c.tenant \in c.ever

(* Without changes in Identity, what a session load has seen is still so.  *)
LoadIsCurrent(c, id) ==
    c.kind = "session" =>
        /\ c.stage \in {"scoping", "storing"} => c.super = id.super
        /\ c.stage = "scoping" /\ id.active => c.selected \in Entitlements(id) \cup {NoTenant}
        /\ c.stage = "answered" /\ c.result = "ok" /\ ~c.super /\ Entitlements(id) # {}
             => c.tenant # NoTenant

CallInv(c, id, n) ==
    CallFits(c) /\ SeenIsAllowed(c, id) /\ GivenIsAllowed(c) /\ (n = 0 => LoadIsCurrent(c, id))

(* Of the calls of a tab, those whose component hears belong to a shell    *)
(* that is on screen, `auth`, and LIVE has at most one poll.               *)
CallsInv(s, auth, id, n) ==
    /\ s \in Seq(Call)
    /\ \A i \in DOMAIN s :
         /\ CallInv(s[i], id, n)
         /\ s[i].from = "page" /\ s[i].hears = "mounted" => auth
    /\ \A i, j \in Polls(s) : i = j

(* A shell that is not on screen shows nothing. *)
ShellFits(t) ==
    /\ t \in Shell
    /\ Len(t.calls) <= MaxCalls
    /\ t.view # "authenticated" =>
         t.banner = NoTenant /\ t.listed = NoTenant /\ ~t.super /\ ~t.busy /\ ~t.pageError

(* A Tenant Admin is in a tenant. *)
Entered(t, id) ==
    t.view = "authenticated" /\ ~t.super /\ Entitlements(id) # {} => t.banner # NoTenant

TabInv(t, id, n) ==
    /\ ShellFits(t)
    /\ CallsInv(t.calls, t.view = "authenticated", id, n)
    /\ t.path # "operations" => Polls(t.calls) = {}
    /\ n = 0 => Entered(t, id)

IInv ==
    /\ central \in Known /\ acts \in 0..MaxActs /\ changes \in 0..MaxChanges
    /\ DOMAIN tabs = Tab
    /\ \A b \in Tab : TabInv(tabs[b], central, changes)
-----------------------------------------------------------------------------
(* Sequences of calls.                                                     *)
LEMMA RemoveAtFacts ==
  ASSUME NEW S, NEW s \in Seq(S), NEW i \in 1..Len(s)
  PROVE  /\ RemoveAt(s, i) \in Seq(S) /\ Len(RemoveAt(s, i)) = Len(s) - 1
         /\ \A j \in 1..(Len(s) - 1) : RemoveAt(s, i)[j] = IF j < i THEN s[j] ELSE s[j + 1]
<1> DEFINE a == SubSeq(s, 1, i - 1)
           z == SubSeq(s, i + 1, Len(s))
<1>1. Len(s) \in Nat /\ i \in Int
  OBVIOUS
<1>2. a \in Seq(S) /\ Len(a) = i - 1 /\ \A j \in 1..(i - 1) : a[j] = s[j]
  BY <1>1, SubSeqProperties
<1>3. z \in Seq(S) /\ Len(z) = Len(s) - i /\ \A j \in 1..(Len(s) - i) : z[j] = s[i + j]
  BY <1>1, SubSeqProperties
<1> HIDE DEF a, z
<1>4. /\ a \o z \in Seq(S) /\ Len(a \o z) = Len(a) + Len(z)
      /\ \A j \in 1..(Len(a) + Len(z)) : (a \o z)[j] = IF j <= Len(a) THEN a[j] ELSE z[j - Len(a)]
  BY <1>2, <1>3, ConcatProperties
<1>5. Len(a) + Len(z) = Len(s) - 1
  BY <1>1, <1>2, <1>3
<1>6. ASSUME NEW j \in 1..(Len(s) - 1)
      PROVE  (a \o z)[j] = IF j < i THEN s[j] ELSE s[j + 1]
  <2>1. (a \o z)[j] = IF j <= i - 1 THEN a[j] ELSE z[j - (i - 1)]
    BY <1>2, <1>4, <1>5
  <2>2. CASE j < i
    BY <1>1, <1>2, <2>1, <2>2
  <2>3. CASE ~(j < i)
    <3>1. j - (i - 1) \in 1..(Len(s) - i) /\ i + (j - (i - 1)) = j + 1 /\ ~(j <= i - 1)
      BY <1>1, <2>3
    <3> QED BY <1>3, <2>1, <2>3, <3>1
  <2> QED BY <2>2, <2>3
<1>7. RemoveAt(s, i) = a \o z
  BY DEF RemoveAt, a, z
<1> QED BY <1>4, <1>5, <1>6, <1>7

LEMMA RemoveKeeps ==
  ASSUME NEW auth \in BOOLEAN, NEW s, CallsInv(s, auth, central, changes), NEW i \in DOMAIN s
  PROVE  /\ CallsInv(RemoveAt(s, i), auth, central, changes)
         /\ Len(RemoveAt(s, i)) = Len(s) - 1
         /\ i \in Polls(s) \/ Polls(s) = {} => Polls(RemoveAt(s, i)) = {}
<1> DEFINE r == RemoveAt(s, i)
           K(j) == IF j < i THEN j ELSE j + 1
<1>1. s \in Seq(Call) /\ DOMAIN s = 1..Len(s) /\ Len(s) \in Nat /\ i \in 1..Len(s)
  BY DEF CallsInv
<1>2. /\ r \in Seq(Call) /\ Len(r) = Len(s) - 1
      /\ \A j \in 1..(Len(s) - 1) : r[j] = IF j < i THEN s[j] ELSE s[j + 1]
  BY <1>1, RemoveAtFacts
<1>3. DOMAIN r = 1..(Len(s) - 1)
  BY <1>2
<1> HIDE DEF r
<1>4. \A j \in DOMAIN r : K(j) \in DOMAIN s /\ K(j) # i /\ r[j] = s[K(j)]
  BY <1>1, <1>2, <1>3
<1>5. \A j, k \in DOMAIN r : K(j) = K(k) => j = k
  BY <1>1, <1>3
<1> HIDE DEF K
<1>6. \A j, k \in Polls(r) : j = k
  BY <1>4, <1>5 DEF Polls, CallsInv
<1>7. i \in Polls(s) \/ Polls(s) = {} => Polls(r) = {}
  BY <1>4 DEF Polls, CallsInv
<1>8. CallsInv(r, auth, central, changes)
  BY <1>2, <1>4, <1>6 DEF CallsInv
<1> QED BY <1>2, <1>7, <1>8 DEF r

LEMMA WithoutPollsKeeps ==
  ASSUME NEW auth \in BOOLEAN, NEW s, CallsInv(s, auth, central, changes)
  PROVE  /\ CallsInv(WithoutPolls(s), auth, central, changes)
         /\ Len(WithoutPolls(s)) \in Nat /\ Len(WithoutPolls(s)) <= Len(s)
         /\ Polls(WithoutPolls(s)) = {}
<1>1. s \in Seq(Call) /\ Len(s) \in Nat
  BY DEF CallsInv
<1>2. CASE Polls(s) = {}
  BY <1>1, <1>2 DEF WithoutPolls
<1>3. CASE Polls(s) # {}
  <2> DEFINE i == CHOOSE i \in Polls(s) : TRUE
  <2>1. i \in Polls(s) /\ i \in DOMAIN s
    BY <1>3 DEF Polls
  <2> HIDE DEF i
  <2>2. /\ CallsInv(RemoveAt(s, i), auth, central, changes)
        /\ Len(RemoveAt(s, i)) = Len(s) - 1 /\ Polls(RemoveAt(s, i)) = {}
    BY <2>1, RemoveKeeps
  <2>3. WithoutPolls(s) = RemoveAt(s, i)
    BY <1>3 DEF WithoutPolls, i
  <2>4. Len(RemoveAt(s, i)) \in Nat
    BY <2>2 DEF CallsInv
  <2> QED BY <1>1, <2>2, <2>3, <2>4
<1> QED BY <1>2, <1>3

LEMMA DeafenFacts ==
  ASSUME NEW s \in Seq(Call), NEW from
  PROVE  /\ DOMAIN Deafen(s, from) = DOMAIN s
         /\ Deafen(s, from) \in Seq(Call) /\ Len(Deafen(s, from)) = Len(s)
         /\ \A i \in DOMAIN s :
              Deafen(s, from)[i] = IF s[i].from = from /\ s[i].hears = "mounted"
                                   THEN [s[i] EXCEPT !.hears = "unmounted"] ELSE s[i]
<1>1. \A c \in Call : [c EXCEPT !.hears = "unmounted"] \in Call
  BY DEF Call
<1>2. Deafen(s, from) \in [1..Len(s) -> Call]
  BY <1>1 DEF Deafen
<1> QED BY <1>1, <1>2 DEF Deafen

(* What is known of a call does not depend on who hears of it. *)
LEMMA DeafCall ==
  ASSUME NEW c, CallInv(c, central, changes), c.kind # "list", NEW h \in {"unmounted", "gone"}
  PROVE  CallInv([c EXCEPT !.hears = h], central, changes)
<1> DEFINE d == [c EXCEPT !.hears = h]
<1>1. c \in Call
  BY DEF CallInv, CallFits
<1>2. /\ d \in Call /\ d.kind = c.kind /\ d.from = c.from /\ d.tenant = c.tenant /\ d.stage = c.stage
      /\ d.super = c.super /\ d.selected = c.selected /\ d.result = c.result /\ d.ever = c.ever
  BY <1>1 DEF Call
<1> HIDE DEF d
<1> QED
  BY <1>2 DEF CallInv, CallFits, SeenIsAllowed, GivenIsAllowed, LoadIsCurrent, d

(* Deafened, the calls of a page that has none of LIVE's polls.            *)
LEMMA DeafenKeeps ==
  ASSUME NEW auth \in BOOLEAN, NEW s, CallsInv(s, auth, central, changes),
         NEW from, from = "page" => Polls(s) = {}, from \in {"page", "banner"}
  PROVE  /\ CallsInv(Deafen(s, from), IF from = "page" THEN FALSE ELSE auth, central, changes)
         /\ Len(Deafen(s, from)) = Len(s)
         /\ Polls(Deafen(s, from)) = Polls(s)
<1> DEFINE d == Deafen(s, from)
<1>1. s \in Seq(Call) /\ \A i \in DOMAIN s : s[i] \in Call
  BY DEF CallsInv
<1>2. /\ DOMAIN d = DOMAIN s /\ d \in Seq(Call) /\ Len(d) = Len(s)
      /\ \A i \in DOMAIN s :
           d[i] = IF s[i].from = from /\ s[i].hears = "mounted"
                  THEN [s[i] EXCEPT !.hears = "unmounted"] ELSE s[i]
  BY <1>1, DeafenFacts
<1> HIDE DEF d
<1>3. \A i \in DOMAIN s : /\ d[i].kind = s[i].kind /\ d[i].from = s[i].from
                          /\ d[i].hears = "mounted" => s[i].hears = "mounted" /\ s[i].from # from
  BY <1>1, <1>2 DEF Call
<1>4. Polls(d) = Polls(s)
  BY <1>2, <1>3 DEF Polls
<1>5. ASSUME NEW i \in DOMAIN s PROVE CallInv(d[i], central, changes)
  <2>1. CallInv(s[i], central, changes)
    BY DEF CallsInv
  <2>2. CASE s[i].from = from /\ s[i].hears = "mounted"
    <3>1. s[i].kind # "list"
      BY <2>1, <2>2 DEF CallInv, CallFits, Polls
    <3> QED BY <1>2, <2>1, <2>2, <3>1, DeafCall
  <2> QED BY <1>2, <2>1, <2>2
<1>6. CallsInv(d, IF from = "page" THEN FALSE ELSE auth, central, changes)
  BY <1>2, <1>3, <1>4, <1>5 DEF CallsInv
<1> QED BY <1>2, <1>4, <1>6 DEF d

LEMMA AppendKeeps ==
  ASSUME NEW auth \in BOOLEAN, NEW s, CallsInv(s, auth, central, changes),
         NEW c, CallInv(c, central, changes), c.kind = "list" => Polls(s) = {},
         c.from = "page" /\ c.hears = "mounted" => auth
  PROVE  CallsInv(Append(s, c), auth, central, changes) /\ Len(Append(s, c)) = Len(s) + 1
<1> DEFINE z == Append(s, c)
<1>1. s \in Seq(Call) /\ c \in Call /\ Len(s) \in Nat /\ DOMAIN s = 1..Len(s)
  BY DEF CallsInv, CallInv, CallFits
<1>2. /\ z \in Seq(Call) /\ Len(z) = Len(s) + 1 /\ DOMAIN z = 1..(Len(s) + 1)
      /\ z[Len(s) + 1] = c /\ \A i \in 1..Len(s) : z[i] = s[i]
  BY <1>1
<1> HIDE DEF z
<1>3. \A i, j \in Polls(z) : i = j
  BY <1>1, <1>2 DEF Polls, CallsInv
<1>4. \A i \in DOMAIN z : /\ CallInv(z[i], central, changes)
                          /\ z[i].from = "page" /\ z[i].hears = "mounted" => auth
  BY <1>1, <1>2 DEF CallsInv
<1> QED BY <1>2, <1>3, <1>4 DEF CallsInv, z

LEMMA ReplaceKeeps ==
  ASSUME NEW auth \in BOOLEAN, NEW s, CallsInv(s, auth, central, changes), NEW i \in DOMAIN s,
         NEW c, CallInv(c, central, changes),
         c.kind = s[i].kind, c.from = s[i].from, c.hears = s[i].hears
  PROVE  /\ CallsInv([s EXCEPT ![i] = c], auth, central, changes)
         /\ Len([s EXCEPT ![i] = c]) = Len(s)
<1> DEFINE z == [s EXCEPT ![i] = c]
<1>1. s \in Seq(Call) /\ c \in Call
  BY DEF CallsInv, CallInv, CallFits
<1>2. /\ z \in Seq(Call) /\ Len(z) = Len(s) /\ DOMAIN z = DOMAIN s
      /\ z[i] = c /\ \A j \in DOMAIN s : j # i => z[j] = s[j]
  BY <1>1
<1> HIDE DEF z
<1>3. Polls(z) = Polls(s)
  BY <1>2 DEF Polls
<1> QED BY <1>2, <1>3 DEF CallsInv, z

-----------------------------------------------------------------------------
(* A call that is sent.                                                    *)
LEMMA EntitlementsAreScopes ==
  ASSUME NEW id \in Known
  PROVE  Entitlements(id) \in SUBSET Scopes
BY DEF Entitlements, Known, Scopes

LEMMA NewCallFits ==
  ASSUME central \in Known, NEW kind, NEW from, NEW tenant, NEW at \in Paths,
         \/ kind \in {"session", "logout"} /\ from = "app" /\ tenant = NoTenant
         \/ kind = "select" /\ from \in {"page", "banner"} /\ tenant \in Tenant
         \/ kind = "list" /\ from = "page" /\ tenant = NoTenant
  PROVE  /\ CallInv(NewCall(kind, from, tenant, at), central, changes)
         /\ NewCall(kind, from, tenant, at).kind = kind
         /\ NewCall(kind, from, tenant, at).from = from
<1> DEFINE c == NewCall(kind, from, tenant, at)
<1>1. Entitlements(central) \in SUBSET Scopes
  BY EntitlementsAreScopes
<1>2. c \in Call
  BY <1>1 DEF NewCall, Call, Scopes
<1>3. /\ c.kind = kind /\ c.from = from /\ c.tenant = tenant /\ c.stage = "sent"
      /\ c.hears = "mounted" /\ c.ever = Entitlements(central)
  BY DEF NewCall
<1> HIDE DEF c
<1> QED
  BY <1>2, <1>3 DEF CallInv, CallFits, SeenIsAllowed, GivenIsAllowed, LoadIsCurrent, c

LEMMA NobodyHears ==
  ASSUME NEW s, CallsInv(s, FALSE, central, changes)
  PROVE  CallsInv(s, TRUE, central, changes) /\ Polls(s) = {}
BY DEF CallsInv, Polls, CallInv, CallFits

-----------------------------------------------------------------------------
(* A tab: its page is left, the shell gives way, a page is entered.        *)
LEMMA LeaveKeeps ==
  ASSUME NEW t \in Shell, NEW auth \in BOOLEAN, CallsInv(t.calls, auth, central, changes)
  PROVE  /\ CallsInv(Leave(t).calls, FALSE, central, changes)
         /\ Len(Leave(t).calls) \in Nat /\ Len(Leave(t).calls) <= Len(t.calls)
         /\ Leave(t) \in Shell
         /\ Leave(t) = [t EXCEPT !.listed = NoTenant, !.calls = Leave(t).calls]
<1> DEFINE w == WithoutPolls(t.calls)
           d == Deafen(w, "page")
<1>1. CallsInv(w, auth, central, changes) /\ Len(w) \in Nat /\ Len(w) <= Len(t.calls) /\ Polls(w) = {}
  BY WithoutPollsKeeps
<1> HIDE DEF w
<1>2. CallsInv(d, FALSE, central, changes) /\ Len(d) = Len(w)
  BY <1>1, DeafenKeeps
<1>3. d \in Seq(Call)
  BY <1>2 DEF CallsInv
<1>4. Leave(t) = [t EXCEPT !.listed = NoTenant, !.calls = d]
  BY DEF Leave, Shell, d, w
<1> HIDE DEF d
<1>5. Leave(t).calls = d
  BY <1>4 DEF Shell
<1>6. [t EXCEPT !.listed = NoTenant, !.calls = d] \in Shell
  BY <1>3 DEF Shell
<1> QED BY <1>1, <1>2, <1>4, <1>5, <1>6

LEMMA UnmountKeeps ==
  ASSUME NEW t \in Shell, NEW auth \in BOOLEAN, CallsInv(t.calls, auth, central, changes),
         Len(t.calls) <= MaxCalls, NEW view \in Views \ {"authenticated"}
  PROVE  /\ TabInv(Unmount(t, view), central, changes)
         /\ Len(Unmount(t, view).calls) \in Nat /\ Len(Unmount(t, view).calls) <= Len(t.calls)
         /\ Unmount(t, view).view = view
<1> DEFINE l == Leave(t)
           d == Deafen(l.calls, "banner")
           u == Unmount(t, view)
<1>1. /\ CallsInv(l.calls, FALSE, central, changes) /\ l \in Shell
      /\ Len(l.calls) \in Nat /\ Len(l.calls) <= Len(t.calls)
      /\ l = [t EXCEPT !.listed = NoTenant, !.calls = l.calls]
  BY LeaveKeeps
<1>2. u = [l EXCEPT !.view = view, !.banner = NoTenant, !.super = FALSE, !.busy = FALSE,
                    !.pageError = FALSE, !.calls = d]
  BY DEF Unmount
<1>3. l.listed = NoTenant
  BY <1>1 DEF Shell
<1> HIDE DEF l
<1>4. CallsInv(d, FALSE, central, changes) /\ Len(d) = Len(l.calls) /\ Polls(d) = {}
  BY <1>1, DeafenKeeps, NobodyHears
<1>5. d \in Seq(Call)
  BY <1>4 DEF CallsInv
<1> HIDE DEF d, u
<1>6. /\ u \in Shell /\ u.view = view /\ u.banner = NoTenant /\ ~u.super /\ ~u.busy
      /\ ~u.pageError /\ u.calls = d /\ u.listed = NoTenant
  BY <1>1, <1>2, <1>3, <1>5 DEF Shell
<1>7. Len(d) <= MaxCalls
  BY <1>1, <1>4, ShellBounds
<1> QED BY <1>1, <1>4, <1>6, <1>7 DEF TabInv, ShellFits, Entered, u

(* One more call, of a component that is on screen. *)
LEMMA SendKeeps ==
  ASSUME NEW t, TabInv(t, central, changes), HasRoom(t),
         NEW c, CallInv(c, central, changes),
         c.kind = "list" => t.path = "operations" /\ Polls(t.calls) = {},
         c.from = "page" => t.view = "authenticated"
  PROVE  TabInv(Send(t, c), central, changes)
<1> DEFINE s == Append(t.calls, c)
           auth == t.view = "authenticated"
<1>1. t \in Shell /\ CallsInv(t.calls, auth, central, changes) /\ auth \in BOOLEAN
  BY DEF TabInv, ShellFits
<1>2. CallsInv(s, auth, central, changes) /\ Len(s) = Len(t.calls) + 1
  BY <1>1, AppendKeeps
<1>3. t.calls \in Seq(Call) /\ Len(t.calls) \in Nat /\ c \in Call /\ s \in Seq(Call)
  BY <1>1, <1>2 DEF CallsInv, CallInv, CallFits
<1>4. Len(s) <= MaxCalls
  BY <1>2, <1>3, ShellBounds DEF HasRoom
<1>5. t.path # "operations" => Polls(s) = {}
  BY <1>3 DEF Polls, TabInv
<1> HIDE DEF s, auth
<1>6. Send(t, c) = [t EXCEPT !.calls = s]
  BY DEF Send, s
<1>7. /\ Send(t, c) \in Shell
      /\ Send(t, c).calls = s /\ Send(t, c).view = t.view /\ Send(t, c).banner = t.banner
      /\ Send(t, c).super = t.super /\ Send(t, c).busy = t.busy /\ Send(t, c).path = t.path
      /\ Send(t, c).pageError = t.pageError /\ Send(t, c).listed = t.listed
  BY <1>1, <1>3, <1>6 DEF Shell
<1> QED BY <1>2, <1>4, <1>5, <1>7 DEF TabInv, ShellFits, Entered, auth

LEMMA StartLoadKeeps ==
  ASSUME central \in Known, NEW t \in Shell, NEW auth \in BOOLEAN,
         CallsInv(t.calls, auth, central, changes), HasRoom(t)
  PROVE  TabInv(StartLoad(t), central, changes)
<1> DEFINE u == Unmount(t, "loading")
           c == NewCall("session", "app", NoTenant, "home")
<1>1. t.calls \in Seq(Call) /\ Len(t.calls) \in Nat /\ Len(t.calls) < MaxCalls
  BY DEF CallsInv, HasRoom
<1>2. /\ TabInv(u, central, changes) /\ Len(u.calls) \in Nat /\ Len(u.calls) <= Len(t.calls)
  BY <1>1, ShellBounds, UnmountKeeps DEF Views
<1>3. HasRoom(u)
  BY <1>1, <1>2, ShellBounds DEF HasRoom
<1>4. CallInv(c, central, changes) /\ c.kind = "session" /\ c.from = "app"
  BY NewCallFits DEF Paths
<1> HIDE DEF u, c
<1>5. TabInv(Send(u, c), central, changes)
  BY <1>2, <1>3, <1>4, SendKeeps
<1> QED BY <1>5 DEF StartLoad, u, c

LEMMA EnterKeeps ==
  ASSUME central \in Known, NEW t, TabInv(t, central, changes), t.view = "authenticated",
         HasRoom(t), Polls(t.calls) = {}
  PROVE  TabInv(Enter(t), central, changes)
<1>1. t.path \in Paths
  BY DEF TabInv, ShellFits, Shell
<1>2. CASE t.path \in Tenant /\ ~Matches(t) /\ t.super
  <2>1. /\ CallInv(NewCall("select", "page", t.path, "home"), central, changes)
        /\ NewCall("select", "page", t.path, "home").kind = "select"
    BY <1>2, NewCallFits DEF Paths
  <2>2. TabInv(Send(t, NewCall("select", "page", t.path, "home")), central, changes)
    BY <2>1, SendKeeps
  <2> QED BY <1>2, <2>2 DEF Enter
<1>3. CASE ~(t.path \in Tenant /\ ~Matches(t) /\ t.super) /\ t.path = "operations"
  <2>1. CallInv(NewCall("list", "page", NoTenant, "home"), central, changes)
    BY NewCallFits DEF Paths
  <2>2. TabInv(Send(t, NewCall("list", "page", NoTenant, "home")), central, changes)
    BY <1>3, <2>1, SendKeeps
  <2> QED BY <1>3, <2>2 DEF Enter
<1>4. CASE ~(t.path \in Tenant /\ ~Matches(t) /\ t.super) /\ t.path # "operations"
  BY <1>4 DEF Enter
<1> QED BY <1>2, <1>3, <1>4

-----------------------------------------------------------------------------
(* A tab hears of its calls.  Here `t` is a tab whose answered call was    *)
(* taken out of those in flight.                                           *)
LEMMA SessionAnswer ==
  ASSUME NEW c, CallInv(c, central, changes), c.kind = "session", c.stage = "answered",
         c.result = "ok"
  PROVE  /\ c.tenant \in Tenant \cup {NoTenant} /\ c.super \in BOOLEAN
         /\ changes = 0 /\ ~c.super /\ Entitlements(central) # {} => c.tenant # NoTenant
BY DEF CallInv, CallFits, Call, LoadIsCurrent

LEMMA AuthenticatedFits ==
  ASSUME NEW t \in Shell, t.view = "authenticated", Len(t.calls) <= MaxCalls,
         CallsInv(t.calls, TRUE, central, changes),
         t.path # "operations" => Polls(t.calls) = {},
         changes = 0 /\ ~t.super /\ Entitlements(central) # {} => t.banner # NoTenant
  PROVE  TabInv(t, central, changes)
BY DEF TabInv, ShellFits, Entered

LEMMA ShowSessionKeeps ==
  ASSUME central \in Known, NEW t, TabInv(t, central, changes), HasRoom(t),
         NEW c, CallInv(c, central, changes), c.kind = "session", c.stage = "answered"
  PROVE  TabInv(ShowSession(t, c), central, changes)
<1> DEFINE new == [t EXCEPT !.banner = c.tenant, !.super = c.super]
           auth == t.view = "authenticated"
<1>1. /\ t \in Shell /\ auth \in BOOLEAN /\ CallsInv(t.calls, auth, central, changes)
      /\ t.calls \in Seq(Call) /\ Len(t.calls) \in Nat /\ Len(t.calls) < MaxCalls
      /\ Len(t.calls) <= MaxCalls
      /\ t.path # "operations" => Polls(t.calls) = {}
  BY DEF TabInv, ShellFits, CallsInv, HasRoom
<1>2. CASE c.result # "ok"
  <2>1. c.result \in Views \ {"authenticated"}
    BY <1>2 DEF CallInv, CallFits, Call, Views
  <2>2. TabInv(Unmount(t, c.result), central, changes)
    <3> HIDE DEF auth
    <3> QED BY <1>1, <2>1, UnmountKeeps
  <2> QED BY <1>2, <2>2 DEF ShowSession
<1> SUFFICES ASSUME c.result = "ok" PROVE TabInv(ShowSession(t, c), central, changes)
  BY <1>2
<1>3. /\ c.tenant \in Tenant \cup {NoTenant} /\ c.super \in BOOLEAN
      /\ changes = 0 /\ ~c.super /\ Entitlements(central) # {} => c.tenant # NoTenant
  BY SessionAnswer
<1>4. /\ new \in Shell /\ new.banner = c.tenant /\ new.super = c.super /\ new.view = t.view
      /\ new.path = t.path /\ new.calls = t.calls
  BY <1>1, <1>3 DEF Shell
<1>5. ASSUME NEW e, e.view = "authenticated", e \in Shell, e.banner = c.tenant, e.super = c.super,
             CallsInv(e.calls, TRUE, central, changes), Polls(e.calls) = {},
             Len(e.calls) \in Nat, Len(e.calls) <= Len(t.calls)
      PROVE  TabInv(Enter(e), central, changes)
  <2>1. HasRoom(e) /\ Len(e.calls) <= MaxCalls
    BY <1>1, <1>5, ShellBounds DEF HasRoom
  <2>2. TabInv(e, central, changes)
    BY <1>3, <1>5, <2>1, AuthenticatedFits
  <2> QED BY <1>5, <2>1, <2>2, EnterKeeps
<1>6. CASE ~auth
  <2> DEFINE e == [new EXCEPT !.view = "authenticated"]
  <2>1. /\ e \in Shell /\ e.banner = c.tenant /\ e.super = c.super /\ e.view = "authenticated"
        /\ e.calls = t.calls
    BY <1>4 DEF Shell, Views
  <2>2. CallsInv(e.calls, TRUE, central, changes) /\ Polls(e.calls) = {}
    BY <1>1, <1>6, <2>1, NobodyHears
  <2>3. ShowSession(t, c) = Enter(e)
    BY <1>6 DEF ShowSession
  <2> HIDE DEF e, new, auth
  <2>4. Len(e.calls) \in Nat /\ Len(e.calls) <= Len(t.calls)
    BY <1>1, <2>1
  <2>5. TabInv(Enter(e), central, changes)
    BY <1>5, <2>1, <2>2, <2>4
  <2> QED BY <2>3, <2>5
<1>7. CASE auth /\ c.tenant # t.banner
  <2> DEFINE l == Leave(new)
             e == [l EXCEPT !.pageError = FALSE]
  <2>1. /\ CallsInv(l.calls, FALSE, central, changes) /\ l \in Shell
        /\ Len(l.calls) \in Nat /\ Len(l.calls) <= Len(new.calls)
        /\ l = [new EXCEPT !.listed = NoTenant, !.calls = l.calls]
    BY <1>1, <1>4, LeaveKeeps
  <2>2. ShowSession(t, c) = Enter(e)
    BY <1>7 DEF ShowSession
  <2>3. l.view = new.view /\ l.banner = new.banner /\ l.super = new.super
    BY <1>4, <2>1 DEF Shell
  <2> HIDE DEF l, new
  <2>4. /\ e \in Shell /\ e.view = l.view /\ e.banner = l.banner /\ e.super = l.super
        /\ e.calls = l.calls
    BY <2>1 DEF Shell
  <2> HIDE DEF e
  <2>5. CallsInv(e.calls, TRUE, central, changes) /\ Polls(e.calls) = {}
    BY <2>1, <2>4, NobodyHears
  <2>6. TabInv(Enter(e), central, changes)
    BY <1>4, <1>5, <1>7, <2>1, <2>3, <2>4, <2>5
  <2> QED BY <2>2, <2>6
<1>8. CASE auth /\ c.tenant = t.banner /\ c.super # t.super /\ t.path \in Tenant
  <2> DEFINE d == Deafen(new.calls, "page")
             e == [new EXCEPT !.calls = d]
  <2>1. Polls(new.calls) = {}
    BY <1>1, <1>4, <1>8, NamesAreApart
  <2>2. CallsInv(d, FALSE, central, changes) /\ Len(d) = Len(new.calls)
    BY <1>1, <1>4, <2>1, DeafenKeeps
  <2>3. CallsInv(d, TRUE, central, changes) /\ Polls(d) = {} /\ d \in Seq(Call)
    BY <2>2, NobodyHears DEF CallsInv
  <2>4. ShowSession(t, c) = Enter(e)
    BY <1>8 DEF ShowSession
  <2> HIDE DEF d, new
  <2>5. /\ e \in Shell /\ e.view = new.view /\ e.banner = new.banner /\ e.super = new.super
        /\ e.calls = d
    BY <1>4, <2>3 DEF Shell
  <2> HIDE DEF e
  <2>6. TabInv(Enter(e), central, changes)
    <3>1. e.view = "authenticated" /\ Len(e.calls) \in Nat /\ Len(e.calls) <= Len(t.calls)
      BY <1>1, <1>4, <1>8, <2>2, <2>5
    <3> HIDE DEF auth
    <3> QED BY <1>4, <1>5, <3>1, <2>2, <2>3, <2>5
  <2> QED BY <2>4, <2>6
<1>9. CASE auth /\ c.tenant = t.banner /\ ~(c.super # t.super /\ t.path \in Tenant)
  <2>1. ShowSession(t, c) = new
    BY <1>9 DEF ShowSession
  <2>2. auth = TRUE
    BY <1>9
  <2> HIDE DEF new
  <2>3. CallsInv(new.calls, TRUE, central, changes)
    <3> HIDE DEF auth
    <3> QED BY <1>1, <1>4, <2>2, Zenon
  <2>4. TabInv(new, central, changes)
    BY <1>1, <1>3, <1>4, <1>9, <2>3, AuthenticatedFits
  <2> QED BY <2>1, <2>4
<1> QED BY <1>6, <1>7, <1>8, <1>9

LEMMA SelectedKeeps ==
  ASSUME central \in Known, NEW t, TabInv(t, central, changes), HasRoom(t),
         NEW c, CallInv(c, central, changes), c.kind = "select",
         c.from = "page" /\ c.hears = "mounted" => t.view = "authenticated"
  PROVE  /\ c.from = "page" => TabInv(PageSelected(t, c), central, changes)
         /\ TabInv(BannerSelected(t, c), central, changes)
<1>1. /\ t \in Shell /\ (t.view = "authenticated") \in BOOLEAN
      /\ CallsInv(t.calls, t.view = "authenticated", central, changes)
  BY DEF TabInv, ShellFits
<1>2. c \in Call /\ c.tenant \in Tenant
  BY DEF CallInv, CallFits
<1>3. ASSUME c.from = "page" PROVE TabInv(PageSelected(t, c), central, changes)
  <2>1. CASE c.hears # "mounted"
    BY <2>1 DEF PageSelected
  <2>2. CASE c.hears = "mounted" /\ c.result = "ok"
    BY <1>1, <2>2, StartLoadKeeps DEF PageSelected
  <2>3. CASE c.hears = "mounted" /\ c.result # "ok"
    <3> DEFINE e == [t EXCEPT !.pageError = TRUE]
    <3>1. /\ e \in Shell /\ e.view = t.view /\ e.banner = t.banner /\ e.super = t.super
          /\ e.calls = t.calls /\ e.path = t.path
      BY <1>1 DEF Shell
    <3>2. PageSelected(t, c) = e
      BY <2>3 DEF PageSelected
    <3> HIDE DEF e
    <3> QED BY <1>3, <2>3, <3>1, <3>2 DEF TabInv, ShellFits, Entered
  <2> QED BY <2>1, <2>2, <2>3
<1>4. TabInv(BannerSelected(t, c), central, changes)
  <2>1. CASE c.result = "ok"
    <3> DEFINE p == IF c.at \in Tenant THEN c.tenant ELSE c.at
               e == [t EXCEPT !.path = p]
    <3>1. p \in Paths
      BY <1>2 DEF Call, Paths
    <3>2. BannerSelected(t, c) = StartLoad(e)
      BY <2>1 DEF BannerSelected
    <3> HIDE DEF p
    <3>3. e \in Shell /\ e.calls = t.calls
      BY <1>1, <3>1 DEF Shell
    <3> HIDE DEF e
    <3>4. HasRoom(e)
      BY <3>3 DEF HasRoom
    <3>5. TabInv(StartLoad(e), central, changes)
      BY <1>1, <3>3, <3>4, StartLoadKeeps
    <3> QED BY <3>2, <3>5
  <2>2. CASE c.result # "ok"
    <3> DEFINE b == t.busy /\ c.hears # "mounted"
               e == [t EXCEPT !.busy = b]
    <3>1. BannerSelected(t, c) = e
      BY <1>1, <2>2 DEF BannerSelected, Shell
    <3>2. b \in BOOLEAN /\ (~t.busy => ~b)
      OBVIOUS
    <3> HIDE DEF b
    <3>3. /\ e \in Shell /\ e.view = t.view /\ e.banner = t.banner /\ e.super = t.super
          /\ e.calls = t.calls /\ e.path = t.path /\ e.pageError = t.pageError
          /\ e.listed = t.listed /\ e.busy = b
      BY <1>1, <3>2 DEF Shell
    <3> HIDE DEF e
    <3> QED BY <3>1, <3>2, <3>3 DEF TabInv, ShellFits, Entered
  <2> QED BY <2>1, <2>2
<1> QED BY <1>3, <1>4

LEMMA HearKeeps ==
  ASSUME central \in Known, NEW t, TabInv(t, central, changes), HasRoom(t),
         NEW c, CallInv(c, central, changes), c.stage = "answered",
         c.from = "page" /\ c.hears = "mounted" => t.view = "authenticated"
  PROVE  TabInv(Hear(t, c), central, changes)
<1>1. /\ t \in Shell /\ (t.view = "authenticated") \in BOOLEAN
      /\ CallsInv(t.calls, t.view = "authenticated", central, changes)
  BY DEF TabInv, ShellFits
<1>2. c \in Call /\ c.kind \in {"session", "select", "list", "logout"}
  BY DEF CallInv, CallFits, Call
<1>3. CASE c.kind = "session"
  BY <1>3, ShowSessionKeeps DEF Hear
<1>4. CASE c.kind = "select"
  BY <1>4, SelectedKeeps DEF Hear
<1>5. CASE c.kind = "list"
  <2> DEFINE x == IF c.result = "ok" THEN c.tenant ELSE NoTenant
             e == [t EXCEPT !.listed = x]
  <2>1. t.view = "authenticated" /\ x \in Scopes \cup {NoTenant}
    BY <1>2, <1>5 DEF CallInv, CallFits, Call
  <2>2. Hear(t, c) = e
    BY <1>5 DEF Hear
  <2> HIDE DEF x
  <2>3. /\ e \in Shell /\ e.view = t.view /\ e.banner = t.banner /\ e.super = t.super
        /\ e.calls = t.calls /\ e.path = t.path
    BY <1>1, <2>1 DEF Shell
  <2> HIDE DEF e
  <2> QED BY <2>1, <2>2, <2>3 DEF TabInv, ShellFits, Entered
<1>6. CASE c.kind = "logout"
  BY <1>1, <1>6, StartLoadKeeps DEF Hear
<1> QED BY <1>2, <1>3, <1>4, <1>5, <1>6

-----------------------------------------------------------------------------
(* The BFF answers a call, or goes on with it.                             *)
LEMMA AnsweredFits ==
  ASSUME NEW c, CallInv(c, central, changes), NEW a \in Call,
         a.kind = c.kind, a.from = c.from, a.hears = c.hears,
         a.stage = "answered", a.result # "none",
         a.kind = "session" => a.tenant \in Tenant \cup {NoTenant},
         a.kind = "select" => a.tenant \in Tenant,
         a.result = "ok" /\ a.kind = "session" =>
           /\ a.ever # {} /\ a.tenant \in a.ever \cup {NoTenant}
           /\ a.super => "all" \in a.ever
           /\ changes = 0 /\ ~a.super /\ Entitlements(central) # {} => a.tenant # NoTenant,
         a.result = "ok" /\ a.kind = "list" => a.tenant \in a.ever
  PROVE  CallInv(a, central, changes)
<1>1. CallFits(a)
  BY DEF CallInv, CallFits
<1>2. SeenIsAllowed(a, central) /\ GivenIsAllowed(a)
  BY DEF SeenIsAllowed, GivenIsAllowed
<1>3. changes = 0 => LoadIsCurrent(a, central)
  BY DEF LoadIsCurrent
<1> QED BY <1>1, <1>2, <1>3 DEF CallInv

LEMMA AnsweredFields ==
  ASSUME NEW c \in Call, NEW tenant \in Scopes \cup {NoTenant},
         NEW result \in {"ok", "unauthenticated", "forbidden", "error"}
  PROVE  LET a == Answered(c, result, tenant) IN
         /\ a \in Call /\ a.kind = c.kind /\ a.from = c.from /\ a.hears = c.hears
         /\ a.stage = "answered" /\ a.result = result /\ a.tenant = tenant
         /\ result = "ok" /\ c.kind \in {"session", "list"} =>
              a.super = c.super /\ a.ever = c.ever
<1> DEFINE reads == result = "ok" /\ c.kind \in {"session", "list"}
           super == reads /\ c.super
           ever == IF reads THEN c.ever ELSE {}
           a == Answered(c, result, tenant)
<1>1. /\ super \in BOOLEAN /\ ever \in SUBSET Scopes
      /\ reads => super = c.super /\ ever = c.ever
  BY DEF Call
<1>2. a = [c EXCEPT !.stage = "answered", !.result = result, !.tenant = tenant,
                    !.selected = NoTenant, !.super = super, !.ever = ever]
  BY DEF Answered, Call
<1> HIDE DEF super, ever, a, reads
<1>3. /\ a \in Call /\ a.kind = c.kind /\ a.from = c.from /\ a.hears = c.hears
      /\ a.stage = "answered" /\ a.result = result /\ a.tenant = tenant
      /\ a.super = super /\ a.ever = ever
  <2>1. a \in Call
    BY <1>1, <1>2 DEF Call
  <2>2. /\ a.kind = c.kind /\ a.from = c.from /\ a.hears = c.hears
        /\ a.stage = "answered" /\ a.result = result /\ a.tenant = tenant
        /\ a.super = super /\ a.ever = ever
    BY <1>2 DEF Call
  <2> QED BY <2>1, <2>2
<1>4. reads => a.super = c.super /\ a.ever = c.ever
  BY <1>1, <1>3, Zenon
<1> QED BY <1>3, <1>4 DEF a, reads

LEMMA AnsweredKeeps ==
  ASSUME NEW c, CallInv(c, central, changes), NEW tenant \in Scopes \cup {NoTenant},
         NEW result \in {"ok", "unauthenticated", "forbidden", "error"},
         c.kind = "session" => tenant \in Tenant \cup {NoTenant},
         c.kind = "select" => tenant \in Tenant,
         result = "ok" /\ c.kind = "session" =>
           /\ c.ever # {} /\ tenant \in c.ever \cup {NoTenant}
           /\ c.super => "all" \in c.ever
           /\ changes = 0 /\ ~c.super /\ Entitlements(central) # {} => tenant # NoTenant,
         result = "ok" /\ c.kind = "list" => tenant \in c.ever
  PROVE  LET a == Answered(c, result, tenant) IN
         /\ CallInv(a, central, changes)
         /\ a.kind = c.kind /\ a.from = c.from /\ a.hears = c.hears
<1> DEFINE a == Answered(c, result, tenant)
<1>1. c \in Call
  BY DEF CallInv, CallFits
<1>2. /\ a \in Call /\ a.kind = c.kind /\ a.from = c.from /\ a.hears = c.hears
      /\ a.stage = "answered" /\ a.result = result /\ a.tenant = tenant
      /\ result = "ok" /\ c.kind \in {"session", "list"} =>
           a.super = c.super /\ a.ever = c.ever
  BY <1>1, AnsweredFields, SMTT(30)
<1> HIDE DEF a
<1>3. CallInv(a, central, changes)
  BY <1>2, AnsweredFits
<1> QED BY <1>2, <1>3 DEF a

LEMMA RefusedKeeps ==
  ASSUME NEW c, CallInv(c, central, changes),
         NEW result \in {"unauthenticated", "forbidden", "error"}
  PROVE  LET a == Refused(c, result) IN
         /\ CallInv(a, central, changes)
         /\ a.kind = c.kind /\ a.from = c.from /\ a.hears = c.hears
<1>1. /\ c \in Call /\ c.tenant \in Scopes \cup {NoTenant}
      /\ c.kind = "session" => c.tenant \in Tenant \cup {NoTenant}
      /\ c.kind = "select" => c.tenant \in Tenant
  BY DEF CallInv, CallFits, Call
<1> QED BY <1>1, AnsweredKeeps DEF Refused

LEMMA EntitlementsOf ==
  ASSUME central \in Known
  PROVE  /\ Administered \subseteq Tenant /\ Selectable \subseteq Tenant
         /\ central.active => Entitlements(central) =
              Administered \cup (IF central.super THEN {"all"} ELSE {})
         /\ Selectable = IF central.active THEN Administered ELSE {}
         /\ ~central.active => Entitlements(central) = {}
         /\ SelectedTenant \in Administered \cup {NoTenant}
BY DEF Entitlements, Administered, Selectable, SelectedTenant, Known

LEMMA AdmittedKeeps ==
  ASSUME central \in Known, NEW c, CallInv(c, central, changes), c.stage = "sent",
         c.kind # "logout", Admission = "session"
  PROVE  LET a == Admitted(c) IN
         /\ CallInv(a, central, changes)
         /\ a.kind = c.kind /\ a.from = c.from /\ a.hears = c.hears
<1>1. c \in Call /\ c.kind \in {"session", "select", "list"}
  BY DEF CallInv, CallFits, Call
<1>2. /\ Entitlements(central) \subseteq c.ever /\ c.ever # {}
      /\ central.super => "all" \in c.ever
      /\ SelectedTenant \in Tenant \cup {NoTenant}
      /\ central.active => SelectedTenant \in Entitlements(central) \cup {NoTenant}
      /\ central.super \in BOOLEAN
  <2>1. central.active /\ (central.super \/ Administered # {})
    BY DEF Admission
  <2>2. Entitlements(central) \subseteq c.ever
    BY DEF CallInv, SeenIsAllowed
  <2> QED BY <2>1, <2>2, EntitlementsOf DEF Known
<1>3. LET a == Scoping(c) IN
      /\ CallInv(a, central, changes)
      /\ a.kind = c.kind /\ a.from = c.from /\ a.hears = c.hears
  <2> DEFINE a == Scoping(c)
  <2>1. /\ a \in Call /\ a.kind = c.kind /\ a.from = c.from /\ a.hears = c.hears
        /\ a.stage = "scoping" /\ a.super = central.super /\ a.selected = SelectedTenant
        /\ a.tenant = c.tenant /\ a.ever = c.ever
    BY <1>1, <1>2 DEF Scoping, Call
  <2> HIDE DEF a
  <2>2. CallFits(a)
    BY <1>1, <2>1 DEF CallInv, CallFits
  <2>3. SeenIsAllowed(a, central) /\ GivenIsAllowed(a) /\ LoadIsCurrent(a, central)
    BY <1>2, <2>1 DEF SeenIsAllowed, GivenIsAllowed, LoadIsCurrent
  <2> QED BY <2>1, <2>2, <2>3 DEF CallInv, a
<1>4. CASE c.kind = "session"
  <2>1. CASE SelectedTenant = NoTenant /\ central.super
    <3>1. Admitted(c) = [Answered(c, "ok", NoTenant) EXCEPT !.super = TRUE]
      BY <1>4, <2>1 DEF Admitted, GetSession
    <3> DEFINE d == Answered(c, "ok", NoTenant)
               a == [d EXCEPT !.super = TRUE]
    <3>2. /\ d \in Call /\ d.kind = c.kind /\ d.from = c.from /\ d.hears = c.hears
          /\ d.stage = "answered" /\ d.result = "ok" /\ d.tenant = NoTenant /\ d.ever = c.ever
      BY <1>1, <1>4, AnsweredFields
    <3> HIDE DEF d
    <3>3. /\ a \in Call /\ a.kind = c.kind /\ a.from = c.from /\ a.hears = c.hears
          /\ a.stage = "answered" /\ a.result = "ok" /\ a.tenant = NoTenant /\ a.ever = c.ever
          /\ a.super = TRUE
      BY <3>2 DEF Call
    <3> HIDE DEF a
    <3>4. CallInv(a, central, changes)
      BY <1>2, <1>4, <2>1, <3>3, AnsweredFits
    <3> QED BY <3>1, <3>3, <3>4 DEF a, d
  <2>2. CASE ~(SelectedTenant = NoTenant /\ central.super)
    BY <1>3, <1>4, <2>2 DEF Admitted, GetSession
  <2> QED BY <2>1, <2>2
<1>5. CASE c.kind = "select"
  BY <1>3, <1>5, RefusedKeeps DEF Admitted, SelectTenant
<1>6. CASE c.kind = "list"
  <2>1. CASE SelectedTenant = NoTenant /\ central.super
    <3>1. Admitted(c) = Answered(c, "ok", "all")
      BY <1>6, <2>1 DEF Admitted, ListCalls
    <3> QED BY <1>2, <1>6, <2>1, <3>1, AnsweredKeeps DEF Scopes
  <2>2. CASE ~(SelectedTenant = NoTenant /\ central.super)
    BY <1>3, <1>6, <2>2, RefusedKeeps DEF Admitted, ListCalls
  <2> QED BY <2>1, <2>2
<1> QED BY <1>1, <1>4, <1>5, <1>6

LEMMA StoringKeeps ==
  ASSUME NEW c, CallInv(c, central, changes), c.kind \in {"session", "select"},
         c.stage = "scoping", NEW tenant \in Tenant,
         c.kind = "session" => tenant \in c.ever
  PROVE  LET a == Storing(c, tenant) IN
         /\ CallInv(a, central, changes)
         /\ a.kind = c.kind /\ a.from = c.from /\ a.hears = c.hears
<1> DEFINE a == Storing(c, tenant)
<1>1. c \in Call
  BY DEF CallInv, CallFits
<1>2. /\ a \in Call /\ a.kind = c.kind /\ a.from = c.from /\ a.hears = c.hears
      /\ a.stage = "storing" /\ a.tenant = tenant
      /\ a.super = c.super /\ a.ever = c.ever
  BY <1>1 DEF Storing, Call, Scopes
<1> HIDE DEF a
<1>3. CallFits(a)
  BY <1>2 DEF CallInv, CallFits
<1>4. SeenIsAllowed(a, central)
  BY <1>2 DEF CallInv, SeenIsAllowed
<1>5. GivenIsAllowed(a) /\ (changes = 0 => LoadIsCurrent(a, central))
  BY <1>2 DEF CallInv, GivenIsAllowed, LoadIsCurrent
<1> QED BY <1>2, <1>3, <1>4, <1>5 DEF CallInv, a

LEMMA ScopedKeeps ==
  ASSUME central \in Known, NEW c, CallInv(c, central, changes), c.stage = "scoping"
  PROVE  LET a == Scoped(c) IN
         /\ CallInv(a, central, changes)
         /\ a.kind = c.kind /\ a.from = c.from /\ a.hears = c.hears
<1>1. c \in Call /\ c.kind \in {"session", "select", "list"} /\ c.selected \in Tenant \cup {NoTenant}
  BY DEF CallInv, CallFits, Call
<1>2. Selectable \subseteq c.ever /\ Selectable \subseteq Tenant /\ Entitlements(central) \subseteq c.ever
  <2>1. Entitlements(central) \subseteq c.ever
    BY DEF CallInv, SeenIsAllowed
  <2> QED BY <2>1, EntitlementsOf
<1>3. CASE c.kind = "session"
  <2>1. c.ever # {} /\ (c.super => "all" \in c.ever)
    BY <1>3 DEF CallInv, SeenIsAllowed
  <2>2. CASE c.selected = NoTenant /\ Selectable # {}
    <3>1. FirstOf(Selectable) \in Selectable
      BY <2>2 DEF FirstOf
    <3> QED BY <1>2, <1>3, <2>2, <3>1, StoringKeeps DEF Scoped, SessionTenant
  <2>3. CASE ~(c.selected = NoTenant /\ Selectable # {})
    <3> DEFINE x == IF c.selected \in Selectable THEN c.selected ELSE NoTenant
    <3>1. x \in c.ever \cup {NoTenant} /\ x \in Tenant \cup {NoTenant}
      BY <1>2
    <3>2. ASSUME changes = 0, ~c.super, Entitlements(central) # {} PROVE x # NoTenant
      <4>1. c.super = central.super /\ (central.active => c.selected \in Entitlements(central) \cup {NoTenant})
        BY <1>3, <3>2 DEF CallInv, LoadIsCurrent
      <4>2. central.active /\ Entitlements(central) = Selectable
        BY <3>2, <4>1, EntitlementsOf
      <4>3. c.selected \in Selectable
        BY <2>3, <3>2, <4>1, <4>2
      <4> QED BY <1>2, <4>3, NamesAreApart
    <3>3. Scoped(c) = Answered(c, "ok", x)
      BY <1>3, <2>3 DEF Scoped, SessionTenant
    <3> HIDE DEF x
    <3> QED BY <1>3, <2>1, <3>1, <3>2, <3>3, AnsweredKeeps DEF Scopes
  <2> QED BY <2>2, <2>3
<1>4. CASE c.kind = "select"
  <2>1. CASE c.tenant \in Selectable
    BY <1>2, <1>4, <2>1, StoringKeeps DEF Scoped, AllowSelection
  <2>2. CASE c.tenant \notin Selectable
    BY <1>4, <2>2, RefusedKeeps DEF Scoped, AllowSelection
  <2> QED BY <2>1, <2>2
<1>5. CASE c.kind = "list"
  <2>1. CASE c.selected \in Selectable
    BY <1>2, <1>5, <2>1, AnsweredKeeps DEF Scoped, ListedTenant, Scopes
  <2>2. CASE c.selected \notin Selectable
    BY <1>5, <2>2, RefusedKeeps DEF Scoped, ListedTenant
  <2> QED BY <2>1, <2>2
<1> QED BY <1>1, <1>3, <1>4, <1>5

LEMMA StoredKeeps ==
  ASSUME NEW c, CallInv(c, central, changes), c.stage = "storing"
  PROVE  LET a == Answered(c, "ok", c.tenant) IN
         /\ CallInv(a, central, changes)
         /\ a.kind = c.kind /\ a.from = c.from /\ a.hears = c.hears
<1>1. c.kind \in {"session", "select"} /\ c.tenant \in Tenant /\ c.tenant # NoTenant
  BY NamesAreApart DEF CallInv, CallFits
<1>2. c.kind = "session" => /\ c.ever # {} /\ c.tenant \in c.ever
                            /\ c.super => "all" \in c.ever
  BY DEF CallInv, SeenIsAllowed
<1> QED BY <1>1, <1>2, AnsweredKeeps DEF Scopes

-----------------------------------------------------------------------------
(* Identity changes.                                                       *)
LEMMA NotedCall ==
  ASSUME NEW c, CallInv(c, central, changes), NEW id \in Known, NEW n,
         n = 0 => changes = 0 /\ id.super = central.super /\ ~id.active,
         NEW a, a = IF c.stage = "answered" THEN c
                    ELSE [c EXCEPT !.ever = @ \cup Entitlements(id)]
  PROVE  CallInv(a, id, n) /\ a.kind = c.kind /\ a.from = c.from /\ a.hears = c.hears
<1>1. c \in Call /\ Entitlements(id) \in SUBSET Scopes
  BY EntitlementsAreScopes DEF CallInv, CallFits
<1>2. /\ a \in Call /\ a.kind = c.kind /\ a.from = c.from /\ a.hears = c.hears
      /\ a.stage = c.stage /\ a.tenant = c.tenant /\ a.result = c.result /\ a.super = c.super
      /\ a.selected = c.selected /\ c.ever \subseteq a.ever
      /\ c.stage # "answered" => Entitlements(id) \subseteq a.ever
      /\ c.stage = "answered" => a.ever = c.ever
  BY <1>1 DEF Call
<1>3. CallFits(a)
  BY <1>2 DEF CallInv, CallFits
<1>4. SeenIsAllowed(a, id)
  BY <1>2 DEF CallInv, SeenIsAllowed
<1>5. GivenIsAllowed(a)
  BY <1>2 DEF CallInv, GivenIsAllowed
<1>6. ASSUME n = 0 PROVE LoadIsCurrent(a, id)
  <2>1. Entitlements(id) = {}
    BY <1>6 DEF Entitlements
  <2> QED BY <1>2, <1>6, <2>1 DEF CallInv, LoadIsCurrent
<1> QED BY <1>2, <1>3, <1>4, <1>5, <1>6 DEF CallInv

LEMMA NotedKeeps ==
  ASSUME NEW t, TabInv(t, central, changes), NEW id \in Known, NEW n,
         n = 0 => changes = 0 /\ id.super = central.super /\ ~id.active,
         NEW s, s = [i \in DOMAIN t.calls |->
                       IF t.calls[i].stage = "answered" THEN t.calls[i]
                       ELSE [t.calls[i] EXCEPT !.ever = @ \cup Entitlements(id)]]
  PROVE  TabInv([t EXCEPT !.calls = s], id, n)
<1> DEFINE auth == t.view = "authenticated"
           e == [t EXCEPT !.calls = s]
<1>1. /\ t \in Shell /\ t.calls \in Seq(Call) /\ Len(t.calls) \in Nat
      /\ \A i \in DOMAIN t.calls : /\ CallInv(t.calls[i], central, changes)
                                   /\ t.calls[i].from = "page" /\ t.calls[i].hears = "mounted" => auth
      /\ \A i, j \in Polls(t.calls) : i = j
  BY DEF TabInv, ShellFits, CallsInv
<1>2. \A i \in DOMAIN t.calls : /\ CallInv(s[i], id, n) /\ s[i].kind = t.calls[i].kind
                                /\ s[i].from = t.calls[i].from /\ s[i].hears = t.calls[i].hears
  BY <1>1, NotedCall
<1>3. DOMAIN t.calls = 1..Len(t.calls) /\ \A i \in DOMAIN t.calls : s[i] \in Call
  <2>1. DOMAIN t.calls = 1..Len(t.calls)
    BY <1>1
  <2>2. \A i \in DOMAIN t.calls : s[i] \in Call
    BY <1>2, Zenon DEF CallInv, CallFits
  <2> QED BY <2>1, <2>2
<1>4. s \in Seq(Call) /\ Len(s) = Len(t.calls) /\ DOMAIN s = DOMAIN t.calls
  <2>1. s = [i \in 1..Len(t.calls) |-> s[i]]
    BY <1>3
  <2>2. s \in [1..Len(t.calls) -> Call]
    BY <1>3, <2>1
  <2> QED BY <1>1, <1>3, <2>2
<1>5. Polls(s) = Polls(t.calls)
  BY <1>2, <1>4 DEF Polls
<1>6. CallsInv(s, auth, id, n)
  <2>1. \A i \in DOMAIN s : /\ CallInv(s[i], id, n)
                            /\ s[i].from = "page" /\ s[i].hears = "mounted" => auth
    BY <1>1, <1>2, <1>4
  <2>2. \A i, j \in Polls(s) : i = j
    BY <1>1, <1>5
  <2> QED BY <1>4, <2>1, <2>2 DEF CallsInv
<1>7. /\ e \in Shell /\ e.calls = s /\ e.view = t.view /\ e.banner = t.banner
      /\ e.super = t.super /\ e.path = t.path /\ e.busy = t.busy /\ e.pageError = t.pageError
      /\ e.listed = t.listed
  BY <1>1, <1>4 DEF Shell
<1> HIDE DEF e
<1>8. ASSUME n = 0 PROVE Entered(e, id)
  <2>1. Entitlements(id) = {}
    BY <1>8 DEF Entitlements
  <2> QED BY <2>1 DEF Entered
<1>9. ShellFits(e)
  BY <1>4, <1>7 DEF TabInv, ShellFits
<1> QED BY <1>5, <1>6, <1>7, <1>8, <1>9 DEF TabInv, e

(* Identity's selection is nothing that its entitlements depend on.        *)
LEMMA SelectionIsFree ==
  ASSUME central \in Known, NEW tenant \in Tenant \cup {NoTenant}, NEW id,
         id = [central EXCEPT !.selected = tenant],
         NEW t, TabInv(t, central, changes)
  PROVE  id \in Known /\ TabInv(t, id, changes)
<1>1. /\ id \in Known /\ Entitlements(id) = Entitlements(central)
      /\ id.super = central.super /\ id.active = central.active
  BY DEF Known, Entitlements
<1>2. \A c : CallInv(c, central, changes) => CallInv(c, id, changes)
  BY <1>1 DEF CallInv, SeenIsAllowed, LoadIsCurrent
<1>3. CallsInv(t.calls, t.view = "authenticated", id, changes)
  BY <1>2 DEF TabInv, CallsInv
<1> QED BY <1>1, <1>3 DEF TabInv, Entered

-----------------------------------------------------------------------------
(* What a step does to the tabs.                                           *)
LEMMA TabReplaced ==
  ASSUME IInv, NEW b \in Tab, NEW t, TabInv(t, central, changes), Becomes(b, t),
         UNCHANGED <<central, changes>>, acts' \in 0..MaxActs
  PROVE  IInv'
BY DEF IInv, Becomes

LEMMA CallFacts ==
  ASSUME IInv, NEW b \in Tab, NEW i \in DOMAIN tabs[b].calls
  PROVE  /\ CallInv(tabs[b].calls[i], central, changes) /\ TabInv(tabs[b], central, changes)
         /\ tabs[b] \in Shell
         /\ tabs[b].calls[i].from = "page" /\ tabs[b].calls[i].hears = "mounted"
              => tabs[b].view = "authenticated"
BY DEF IInv, TabInv, ShellFits, CallsInv

LEMMA CallReplaced ==
  ASSUME NEW t, TabInv(t, central, changes), NEW i \in DOMAIN t.calls,
         NEW c, CallInv(c, central, changes),
         c.kind = t.calls[i].kind, c.from = t.calls[i].from, c.hears = t.calls[i].hears
  PROVE  TabInv([t EXCEPT !.calls[i] = c], central, changes)
<1> DEFINE s == [t.calls EXCEPT ![i] = c]
           e == [t EXCEPT !.calls = s]
           auth == t.view = "authenticated"
<1>1. /\ t \in Shell /\ CallsInv(t.calls, auth, central, changes)
      /\ auth \in BOOLEAN /\ t.calls \in Seq(Call)
  BY DEF TabInv, ShellFits, CallsInv
<1>2. CallsInv(s, auth, central, changes) /\ Len(s) = Len(t.calls)
  <2> HIDE DEF auth
  <2> QED BY <1>1, ReplaceKeeps
<1>3. Polls(s) = Polls(t.calls)
  <2>1. DOMAIN s = DOMAIN t.calls /\ \A j \in DOMAIN s : s[j].kind = t.calls[j].kind
    OBVIOUS
  <2> HIDE DEF s
  <2> QED BY <2>1 DEF Polls
<1>4. s \in Seq(Call)
  BY <1>2 DEF CallsInv
<1>5. [t EXCEPT !.calls[i] = c] = e
  BY <1>1 DEF Shell
<1> HIDE DEF s
<1>6. /\ e \in Shell /\ e.calls = s /\ e.view = t.view /\ e.banner = t.banner
      /\ e.super = t.super /\ e.path = t.path /\ e.busy = t.busy /\ e.pageError = t.pageError
      /\ e.listed = t.listed
  BY <1>1, <1>4 DEF Shell
<1> HIDE DEF e
<1>7. TabInv(e, central, changes)
  BY <1>2, <1>3, <1>6 DEF TabInv, ShellFits, Entered
<1> QED BY <1>5, <1>7

LEMMA CallReplacedStep ==
  ASSUME IInv, NEW b \in Tab, NEW i \in DOMAIN tabs[b].calls,
         NEW c, CallInv(c, central, changes), c.kind = tabs[b].calls[i].kind,
         c.from = tabs[b].calls[i].from, c.hears = tabs[b].calls[i].hears,
         CallBecomes(b, i, c), UNCHANGED <<central, acts, changes>>
  PROVE  IInv'
<1> DEFINE t == [tabs[b] EXCEPT !.calls[i] = c]
<1>1. TabInv(tabs[b], central, changes)
  BY CallFacts
<1>2. TabInv(t, central, changes)
  BY <1>1, CallReplaced
<1>3. Becomes(b, t)
  BY DEF CallBecomes, Becomes
<1>4. acts' \in 0..MaxActs
  BY DEF IInv
<1> HIDE DEF t
<1> QED BY <1>2, <1>3, <1>4, TabReplaced

LEMMA GoneKeeps ==
  ASSUME NEW auth \in BOOLEAN, NEW s, CallsInv(s, auth, central, changes), Polls(s) = {},
         NEW g, g = [i \in DOMAIN s |-> [s[i] EXCEPT !.hears = "gone"]]
  PROVE  CallsInv(g, FALSE, central, changes) /\ Len(g) = Len(s)
<1>1. /\ s \in Seq(Call) /\ Len(s) \in Nat /\ DOMAIN s = 1..Len(s)
      /\ \A i \in DOMAIN s : CallInv(s[i], central, changes) /\ s[i].kind # "list" /\ s[i] \in Call
  BY DEF CallsInv, Polls
<1>2. \A i \in DOMAIN s : CallInv(g[i], central, changes)
  BY <1>1, DeafCall
<1>3. \A i \in DOMAIN s : g[i].hears = "gone" /\ g[i].kind = s[i].kind
  BY <1>1 DEF Call
<1>4. DOMAIN g = 1..Len(s) /\ \A i \in DOMAIN s : g[i] \in Call
  BY <1>1, <1>2 DEF CallInv, CallFits
<1>5. g \in Seq(Call) /\ Len(g) = Len(s)
  <2>1. g = [i \in 1..Len(s) |-> g[i]]
    BY <1>1
  <2>2. g \in [1..Len(s) -> Call]
    BY <1>1, <1>4, <2>1
  <2> QED BY <1>1, <2>2
<1>6. Polls(g) = {}
  BY <1>1, <1>3, <1>4 DEF Polls
<1> QED BY <1>1, <1>2, <1>3, <1>4, <1>5, <1>6 DEF CallsInv

-----------------------------------------------------------------------------
(* What the user does.                                                     *)
LEMMA ActFacts ==
  ASSUME IInv, Acts
  PROVE  UNCHANGED <<central, changes>> /\ acts' \in 0..MaxActs
BY ShellBounds DEF IInv, Acts

LEMMA TabFacts ==
  ASSUME IInv, NEW b \in Tab
  PROVE  /\ central \in Known /\ TabInv(tabs[b], central, changes) /\ tabs[b] \in Shell
         /\ (tabs[b].view = "authenticated") \in BOOLEAN
         /\ CallsInv(tabs[b].calls, tabs[b].view = "authenticated", central, changes)
         /\ Len(tabs[b].calls) \in Nat
<1>1. central \in Known /\ TabInv(tabs[b], central, changes)
  BY DEF IInv
<1>2. /\ tabs[b] \in Shell /\ (tabs[b].view = "authenticated") \in BOOLEAN
      /\ CallsInv(tabs[b].calls, tabs[b].view = "authenticated", central, changes)
  BY <1>1 DEF TabInv, ShellFits
<1>3. Len(tabs[b].calls) \in Nat
  BY <1>2 DEF CallsInv
<1> QED BY <1>1, <1>2, <1>3

LEMMA BlankFits ==
  ASSUME NEW p \in Paths, NEW s \in Seq(Call)
  PROVE  [Blank(p) EXCEPT !.calls = s] \in Shell /\ [Blank(p) EXCEPT !.calls = s].calls = s
BY DEF Blank, Shell, Views

LEMMA OpenKeeps ==
  ASSUME IInv, NEW b \in Tab, NEW p \in Paths, Open(b, p)
  PROVE  IInv'
<1> DEFINE calls == WithoutPolls(tabs[b].calls)
           left == [i \in DOMAIN calls |-> [calls[i] EXCEPT !.hears = "gone"]]
           e == [Blank(p) EXCEPT !.calls = left]
<1>1. HasRoom(tabs[b]) /\ Becomes(b, StartLoad(e)) /\ Acts
  BY DEF Open
<1>2. /\ CallsInv(calls, tabs[b].view = "authenticated", central, changes)
      /\ Len(calls) \in Nat /\ Len(calls) <= Len(tabs[b].calls) /\ Polls(calls) = {}
  BY TabFacts, WithoutPollsKeeps
<1> HIDE DEF calls
<1>3. CallsInv(left, FALSE, central, changes) /\ Len(left) = Len(calls)
  BY <1>2, TabFacts, GoneKeeps
<1>4. left \in Seq(Call)
  BY <1>3 DEF CallsInv
<1> HIDE DEF left
<1>5. e \in Shell /\ e.calls = left
  BY <1>4, BlankFits
<1> HIDE DEF e
<1>6. HasRoom(e)
  <2>1. Len(tabs[b].calls) \in Nat /\ Len(tabs[b].calls) < MaxCalls
    BY <1>1, TabFacts DEF HasRoom
  <2> QED BY <1>2, <1>3, <1>5, <2>1, ShellBounds DEF HasRoom
<1>7. TabInv(StartLoad(e), central, changes)
  BY <1>3, <1>5, <1>6, TabFacts, StartLoadKeeps
<1> QED BY <1>1, <1>7, ActFacts, TabReplaced

LEMMA NavigateKeeps ==
  ASSUME IInv, NEW b \in Tab, NEW p \in Paths, Navigate(b, p)
  PROVE  IInv'
<1> DEFINE t == tabs[b]
           l == Leave(t)
           error == t.path \in Tenant /\ p \in Tenant /\ l.pageError
           e == [l EXCEPT !.path = p, !.pageError = error]
<1>1. t.view = "authenticated" /\ HasRoom(t) /\ Acts
  BY DEF Navigate
<1>2. /\ t \in Shell /\ TabInv(t, central, changes) /\ Len(t.calls) \in Nat /\ Len(t.calls) < MaxCalls
      /\ central \in Known
  BY <1>1, TabFacts DEF HasRoom
<1>3. /\ CallsInv(l.calls, FALSE, central, changes)
      /\ Len(l.calls) \in Nat /\ Len(l.calls) <= Len(t.calls)
      /\ l \in Shell /\ l = [t EXCEPT !.listed = NoTenant, !.calls = l.calls]
  BY TabFacts, LeaveKeeps
<1>4. l.view = t.view /\ l.banner = t.banner /\ l.super = t.super
  BY <1>2, <1>3 DEF Shell
<1>5. Becomes(b, Enter(e))
  BY <1>3 DEF Navigate, Shell
<1>6. error \in BOOLEAN
  BY <1>3 DEF Shell
<1> HIDE DEF l, error, t
<1>7. /\ e \in Shell /\ e.view = l.view /\ e.banner = l.banner /\ e.super = l.super
      /\ e.calls = l.calls
  BY <1>3, <1>6 DEF Shell
<1> HIDE DEF e
<1>8. CallsInv(e.calls, TRUE, central, changes) /\ Polls(e.calls) = {}
  BY <1>3, <1>7, NobodyHears
<1>9. HasRoom(e) /\ Len(e.calls) <= MaxCalls
  BY <1>2, <1>3, <1>7, ShellBounds DEF HasRoom
<1>10. changes = 0 /\ ~t.super /\ Entitlements(central) # {} => t.banner # NoTenant
  BY <1>1, <1>2 DEF TabInv, Entered
<1>11. TabInv(e, central, changes)
  BY <1>1, <1>4, <1>7, <1>8, <1>9, <1>10, AuthenticatedFits
<1>12. TabInv(Enter(e), central, changes)
  BY <1>1, <1>2, <1>4, <1>7, <1>8, <1>9, <1>11, EnterKeeps
<1> QED BY <1>1, <1>5, <1>12, ActFacts, TabReplaced

LEMMA BannerSelectKeeps ==
  ASSUME IInv, NEW b \in Tab, NEW x \in Tenant, BannerSelect(b, x)
  PROVE  IInv'
<1> DEFINE t == tabs[b]
           c == NewCall("select", "banner", x, t.path)
           e == [t EXCEPT !.busy = TRUE]
<1>1. t.view = "authenticated" /\ HasRoom(t) /\ Acts /\ Becomes(b, Send(e, c))
  BY DEF BannerSelect
<1>2. t \in Shell /\ TabInv(t, central, changes) /\ central \in Known
  BY TabFacts
<1>3. CallInv(c, central, changes) /\ c.kind = "select" /\ c.from = "banner"
  BY <1>2, NewCallFits DEF Shell
<1> HIDE DEF c, t
<1>4. /\ e \in Shell /\ e.view = t.view /\ e.banner = t.banner /\ e.super = t.super
      /\ e.calls = t.calls /\ e.path = t.path
  BY <1>2 DEF Shell
<1> HIDE DEF e
<1>5. TabInv(e, central, changes) /\ HasRoom(e)
  BY <1>1, <1>2, <1>4 DEF TabInv, ShellFits, Entered, HasRoom
<1>6. TabInv(Send(e, c), central, changes)
  BY <1>3, <1>5, SendKeeps
<1> QED BY <1>1, <1>6, ActFacts, TabReplaced

LEMMA OtherActsKeep ==
  ASSUME IInv, NEW b \in Tab, SignOut(b) \/ Poll(b) \/ Retry(b)
  PROVE  IInv'
<1>1. /\ TabInv(tabs[b], central, changes) /\ central \in Known /\ tabs[b] \in Shell
      /\ acts \in 0..MaxActs
  BY TabFacts DEF IInv
<1>2. CASE SignOut(b)
  <2> DEFINE c == NewCall("logout", "app", NoTenant, "home")
  <2>1. CallInv(c, central, changes) /\ c.kind = "logout" /\ c.from = "app"
    BY <1>1, NewCallFits DEF Paths
  <2>2. HasRoom(tabs[b]) /\ Becomes(b, Send(tabs[b], c)) /\ Acts
    BY <1>2 DEF SignOut
  <2> HIDE DEF c
  <2>3. TabInv(Send(tabs[b], c), central, changes)
    BY <1>1, <2>1, <2>2, SendKeeps
  <2> QED BY <2>2, <2>3, ActFacts, TabReplaced
<1>3. CASE Poll(b)
  <2> DEFINE c == NewCall("list", "page", NoTenant, "home")
  <2>1. CallInv(c, central, changes)
    BY <1>1, NewCallFits DEF Paths
  <2>2. /\ tabs[b].view = "authenticated" /\ tabs[b].path = "operations" /\ HasRoom(tabs[b])
        /\ Polls(tabs[b].calls) = {} /\ Becomes(b, Send(tabs[b], c))
        /\ UNCHANGED <<central, acts, changes>>
    BY <1>3 DEF Poll
  <2> HIDE DEF c
  <2>3. TabInv(Send(tabs[b], c), central, changes)
    BY <1>1, <2>1, <2>2, SendKeeps
  <2> QED BY <1>1, <2>2, <2>3, TabReplaced
<1>4. CASE Retry(b)
  <2>1. HasRoom(tabs[b]) /\ Becomes(b, StartLoad(tabs[b])) /\ Acts
    BY <1>4 DEF Retry
  <2>2. TabInv(StartLoad(tabs[b]), central, changes)
    BY <2>1, TabFacts, StartLoadKeeps
  <2> QED BY <2>1, <2>2, ActFacts, TabReplaced
<1> QED BY <1>2, <1>3, <1>4

-----------------------------------------------------------------------------
(* What the BFF, the browser and Identity do.                              *)
LEMMA DeliverKeeps ==
  ASSUME IInv, NEW b \in Tab, NEW i \in DOMAIN tabs[b].calls, Deliver(b, i)
  PROVE  IInv'
<1> DEFINE t == tabs[b]
           c == t.calls[i]
           s == RemoveAt(t.calls, i)
           e == [t EXCEPT !.calls = s]
<1>1. /\ c.stage = "answered" /\ UNCHANGED <<central, acts, changes>>
      /\ Becomes(b, IF c.hears = "gone" THEN e ELSE Hear(e, c))
  BY DEF Deliver
<1>2. /\ central \in Known /\ TabInv(t, central, changes) /\ t \in Shell
      /\ (t.view = "authenticated") \in BOOLEAN
      /\ CallsInv(t.calls, t.view = "authenticated", central, changes)
      /\ Len(t.calls) \in Nat
  BY TabFacts
<1>3. /\ CallInv(c, central, changes)
      /\ c.from = "page" /\ c.hears = "mounted" => t.view = "authenticated"
  BY CallFacts
<1>4. /\ CallsInv(s, t.view = "authenticated", central, changes) /\ Len(s) = Len(t.calls) - 1
      /\ Polls(t.calls) = {} => Polls(s) = {}
  BY <1>2, RemoveKeeps
<1>5. s \in Seq(Call) /\ Len(t.calls) <= MaxCalls
  BY <1>2, <1>4 DEF CallsInv, TabInv, ShellFits
<1> HIDE DEF s, c, t
<1>6. /\ e \in Shell /\ e.calls = s /\ e.view = t.view /\ e.banner = t.banner
      /\ e.super = t.super /\ e.path = t.path /\ e.busy = t.busy /\ e.pageError = t.pageError
      /\ e.listed = t.listed
  BY <1>2, <1>5 DEF Shell
<1> HIDE DEF e
<1>7. HasRoom(e) /\ Len(e.calls) <= MaxCalls
  BY <1>2, <1>4, <1>5, <1>6, ShellBounds DEF HasRoom
<1>8. TabInv(e, central, changes)
  BY <1>2, <1>4, <1>6, <1>7 DEF TabInv, ShellFits, Entered
<1>9. TabInv(Hear(e, c), central, changes)
  BY <1>1, <1>2, <1>3, <1>6, <1>7, <1>8, HearKeeps
<1>10. acts' \in 0..MaxActs
  BY <1>1 DEF IInv
<1> QED BY <1>1, <1>8, <1>9, <1>10, TabReplaced

LEMMA ServeKeeps ==
  ASSUME IInv, NEW b \in Tab, NEW i \in DOMAIN tabs[b].calls,
         Introspect(b, i) \/ Scope(b, i) \/ CallFails(b, i)
  PROVE  IInv'
<1> DEFINE c == tabs[b].calls[i]
<1>1. CallInv(c, central, changes) /\ central \in Known
  BY CallFacts DEF IInv
<1>2. CASE Introspect(b, i)
  <2> DEFINE a == IF Admission = "session" THEN Admitted(c) ELSE Refused(c, Admission)
  <2>1. /\ c.stage = "sent" /\ c.kind # "logout" /\ CallBecomes(b, i, a)
        /\ UNCHANGED <<central, acts, changes>>
    BY <1>2 DEF Introspect
  <2>2. Admission # "session" => Admission \in {"unauthenticated", "forbidden"}
    BY DEF Admission
  <2>3. CallInv(a, central, changes) /\ a.kind = c.kind /\ a.from = c.from /\ a.hears = c.hears
    <3>1. CASE Admission = "session"
      BY <1>1, <2>1, <3>1, AdmittedKeeps
    <3>2. CASE Admission # "session"
      BY <1>1, <2>2, <3>2, RefusedKeeps
    <3> QED BY <3>1, <3>2
  <2> HIDE DEF a
  <2> QED BY <2>1, <2>3, CallReplacedStep
<1>3. CASE Scope(b, i)
  <2> DEFINE a == Scoped(c)
  <2>1. c.stage = "scoping" /\ CallBecomes(b, i, a) /\ UNCHANGED <<central, acts, changes>>
    BY <1>3 DEF Scope
  <2>2. CallInv(a, central, changes) /\ a.kind = c.kind /\ a.from = c.from /\ a.hears = c.hears
    BY <1>1, <2>1, ScopedKeeps
  <2> HIDE DEF a
  <2> QED BY <2>1, <2>2, CallReplacedStep
<1>4. CASE CallFails(b, i)
  <2> DEFINE a == Refused(c, "error")
  <2>1. CallBecomes(b, i, a) /\ UNCHANGED <<central, acts, changes>>
    BY <1>4 DEF CallFails
  <2>2. CallInv(a, central, changes) /\ a.kind = c.kind /\ a.from = c.from /\ a.hears = c.hears
    BY <1>1, RefusedKeeps
  <2> HIDE DEF a
  <2> QED BY <2>1, <2>2, CallReplacedStep
<1> QED BY <1>2, <1>3, <1>4

LEMMA StoreKeeps ==
  ASSUME IInv, NEW b \in Tab, NEW i \in DOMAIN tabs[b].calls, Store(b, i)
  PROVE  IInv'
<1> DEFINE c == tabs[b].calls[i]
           a == Answered(c, "ok", c.tenant)
           t == [tabs[b] EXCEPT !.calls[i] = a]
<1>1. CallInv(c, central, changes) /\ central \in Known /\ TabInv(tabs[b], central, changes)
  BY CallFacts DEF IInv
<1>2. /\ c.stage = "storing" /\ central' = [central EXCEPT !.selected = c.tenant]
      /\ tabs' = [tabs EXCEPT ![b] = t] /\ UNCHANGED <<acts, changes>>
  BY DEF Store, CallBecomes
<1>3. CallInv(a, central, changes) /\ a.kind = c.kind /\ a.from = c.from /\ a.hears = c.hears
  BY <1>1, <1>2, StoredKeeps
<1>4. c.tenant \in Tenant \cup {NoTenant}
  BY <1>1, <1>2 DEF CallInv, CallFits
<1> HIDE DEF a
<1>5. TabInv(t, central, changes)
  BY <1>1, <1>3, CallReplaced
<1> HIDE DEF t, c
<1>6. \A d \in Tab : tabs'[d] = (IF d = b THEN t ELSE tabs[d]) /\ TabInv(tabs'[d], central, changes)
  BY <1>2, <1>5 DEF IInv
<1>7. \A d \in Tab : TabInv(tabs'[d], central', changes)
  BY <1>1, <1>2, <1>4, <1>6, SelectionIsFree
<1>8. central' \in Known
  BY <1>1, <1>2, <1>4 DEF Known
<1>9. DOMAIN tabs' = Tab
  BY <1>2 DEF IInv
<1> QED BY <1>2, <1>7, <1>8, <1>9 DEF IInv

LEMMA NotedStep ==
  ASSUME NEW ts, DOMAIN ts = Tab, \A b \in Tab : TabInv(ts[b], central, changes),
         central' \in Known, tabs' = Noted(ts, central'), acts' \in 0..MaxActs,
         changes' \in 0..MaxChanges,
         changes' = 0 => changes = 0 /\ central'.super = central.super /\ ~central'.active
  PROVE  IInv'
<1>1. DOMAIN tabs' = Tab
  BY DEF Noted
<1>2. ASSUME NEW b \in Tab PROVE TabInv(tabs'[b], central', changes')
  <2> DEFINE s == [i \in DOMAIN ts[b].calls |->
                     IF ts[b].calls[i].stage = "answered" THEN ts[b].calls[i]
                     ELSE [ts[b].calls[i] EXCEPT !.ever = @ \cup Entitlements(central')]]
  <2>1. tabs'[b] = [ts[b] EXCEPT !.calls = s]
    BY DEF Noted
  <2>2. \A id, n : id \in Known /\ (n = 0 => changes = 0 /\ id.super = central.super /\ ~id.active)
          => TabInv([ts[b] EXCEPT !.calls =
                       [i \in DOMAIN ts[b].calls |->
                          IF ts[b].calls[i].stage = "answered" THEN ts[b].calls[i]
                          ELSE [ts[b].calls[i] EXCEPT !.ever = @ \cup Entitlements(id)]]], id, n)
    BY NotedKeeps
  <2> QED BY <2>1, <2>2
<1> QED BY <1>1, <1>2 DEF IInv

LEMMA RevokeKeeps ==
  ASSUME IInv, NEW b \in Tab, NEW i \in DOMAIN tabs[b].calls, Revoke(b, i)
  PROVE  IInv'
<1> DEFINE c == tabs[b].calls[i]
           a == Refused(c, "ok")
           ended == [central EXCEPT !.active = FALSE]
           t == [tabs[b] EXCEPT !.calls[i] = a]
           ts == [tabs EXCEPT ![b].calls[i] = a]
<1>1. CallInv(c, central, changes) /\ central \in Known /\ TabInv(tabs[b], central, changes)
  BY CallFacts DEF IInv
<1>2. /\ c.kind = "logout" /\ central' = ended /\ tabs' = Noted(ts, ended)
      /\ UNCHANGED <<acts, changes>>
  BY DEF Revoke
<1>3. CallInv(a, central, changes) /\ a.kind = c.kind /\ a.from = c.from /\ a.hears = c.hears
  <2>1. c.tenant \in Scopes \cup {NoTenant}
    BY <1>1 DEF CallInv, CallFits, Call
  <2> QED BY <1>1, <1>2, <2>1, AnsweredKeeps DEF Refused
<1> HIDE DEF a
<1>4. TabInv(t, central, changes)
  BY <1>1, <1>3, CallReplaced
<1>5. ts = [tabs EXCEPT ![b] = t]
  OBVIOUS
<1> HIDE DEF t, ts, c
<1>6. DOMAIN ts = Tab /\ \A d \in Tab : TabInv(ts[d], central, changes)
  BY <1>4, <1>5 DEF IInv
<1>7. ended \in Known /\ ended.super = central.super /\ ~ended.active
  BY <1>1 DEF Known
<1> HIDE DEF ended
<1>8. acts' \in 0..MaxActs /\ changes' \in 0..MaxChanges
  BY <1>2 DEF IInv
<1> QED BY <1>2, <1>6, <1>7, <1>8, NotedStep

LEMMA IdentityChangeKeeps ==
  ASSUME IInv, IdentityChange
  PROVE  IInv'
<1>1. central \in Known
  BY DEF IInv
<1>2. central' \in Known
  <2>1. CASE \E t \in Tenant, r \in {"NONE", "USER", "TENANT_ADMIN"} :
               central.role[t] # r /\ central' = [central EXCEPT !.role[t] = r]
    BY <1>1, <2>1 DEF Known
  <2>2. CASE \E t \in Tenant :
               central' = [central EXCEPT !.enabled = IF t \in @ THEN @ \ {t} ELSE @ \cup {t}]
    <3>1. PICK t \in Tenant :
            central' = [central EXCEPT !.enabled = IF t \in @ THEN @ \ {t} ELSE @ \cup {t}]
      BY <2>2
    <3> DEFINE e == IF t \in central.enabled THEN central.enabled \ {t} ELSE central.enabled \cup {t}
    <3>2. e \in SUBSET Tenant
      BY <1>1 DEF Known
    <3>3. central' = [central EXCEPT !.enabled = e]
      BY <3>1
    <3> HIDE DEF e
    <3> QED BY <1>1, <3>2, <3>3 DEF Known
  <2>3. CASE central' = [central EXCEPT !.super = ~@]
    BY <1>1, <2>3 DEF Known
  <2>4. CASE central' = [central EXCEPT !.active = FALSE]
    BY <1>1, <2>4 DEF Known
  <2> QED BY <2>1, <2>2, <2>3, <2>4 DEF IdentityChange
<1>3. changes \in 0..MaxChanges /\ acts \in 0..MaxActs /\ DOMAIN tabs = Tab
      /\ \A b \in Tab : TabInv(tabs[b], central, changes)
  BY DEF IInv
<1>4. changes' \in 0..MaxChanges /\ changes' # 0 /\ acts' \in 0..MaxActs /\ tabs' = Noted(tabs, central')
  BY <1>3, ShellBounds DEF IdentityChange
<1> QED BY <1>2, <1>3, <1>4, NotedStep

-----------------------------------------------------------------------------
(* The invariant.                                                          *)
LEMMA InitShell == Init => IInv
<1> SUFFICES ASSUME Init PROVE IInv
  OBVIOUS
<1>1. central \in Known
  <2>1. PICK u \in FirstUsers, s \in Tenant \cup {NoTenant} :
          central = [active |-> TRUE, super |-> u.super, role |-> u.role, enabled |-> u.enabled,
                     selected |-> s]
    BY DEF Init
  <2>2. u.super \in BOOLEAN /\ u.role \in [Tenant -> {"NONE", "USER", "TENANT_ADMIN"}]
        /\ u.enabled \in SUBSET Tenant
    BY UsersAreKnown DEF User
  <2> QED BY <2>1, <2>2 DEF Known
<1>2. ASSUME NEW p \in Paths PROVE TabInv(StartLoad(Blank(p)), central, changes)
  <2>1. Blank(p) \in Shell /\ Blank(p).calls = <<>>
    BY DEF Blank, Shell, Views
  <2>2. CallsInv(Blank(p).calls, FALSE, central, changes)
    BY <2>1 DEF CallsInv, Polls
  <2>3. HasRoom(Blank(p))
    BY <2>1, ShellBounds DEF HasRoom
  <2> QED BY <1>1, <2>1, <2>2, <2>3, StartLoadKeeps
<1>3. TabInv(Closed, central, changes)
  <2>1. Blank("home") \in Shell
    BY DEF Blank, Paths, Shell, Views
  <2>2. /\ Closed \in Shell /\ Closed.view = "closed" /\ Closed.calls = <<>> /\ Closed.path = "home"
        /\ Closed.banner = NoTenant /\ Closed.listed = NoTenant
        /\ Closed.super = FALSE /\ Closed.busy = FALSE /\ Closed.pageError = FALSE
    BY <2>1 DEF Closed, Blank, Shell, Views
  <2>3. CallsInv(<<>>, FALSE, central, changes) /\ Polls(<<>>) = {} /\ Len(<<>>) <= MaxCalls
    BY ShellBounds DEF CallsInv, Polls
  <2> QED BY <2>2, <2>3 DEF TabInv, ShellFits, Entered
<1>5. DOMAIN tabs = Tab
      /\ \A b \in Tab : tabs[b] = Closed \/ \E p \in Paths : tabs[b] = StartLoad(Blank(p))
  BY DEF Init
<1>4. acts \in 0..MaxActs /\ changes \in 0..MaxChanges
  BY ShellBounds DEF Init
<1> QED BY <1>1, <1>2, <1>3, <1>4, <1>5 DEF IInv

LEMMA NextShell == IInv /\ [Next]_vars => IInv'
<1> SUFFICES ASSUME IInv, [Next]_vars PROVE IInv'
  OBVIOUS
<1>1. ASSUME NEW b \in Tab, NEW p \in Paths, Open(b, p) \/ Navigate(b, p) PROVE IInv'
  BY <1>1, OpenKeeps, NavigateKeeps
<1>2. ASSUME NEW b \in Tab, NEW x \in Tenant, BannerSelect(b, x) PROVE IInv'
  BY <1>2, BannerSelectKeeps
<1>3. ASSUME NEW b \in Tab, SignOut(b) \/ Poll(b) \/ Retry(b) PROVE IInv'
  BY <1>3, OtherActsKeep
<1>4. ASSUME NEW b \in Tab, NEW i \in DOMAIN tabs[b].calls, Serve(b, i) \/ CallFails(b, i)
      PROVE  IInv'
  BY <1>4, DeliverKeeps, ServeKeeps, StoreKeeps, RevokeKeeps DEF Serve
<1>5. CASE IdentityChange
  BY <1>5, IdentityChangeKeeps
<1>6. CASE UNCHANGED vars
  BY <1>6 DEF IInv, vars
<1> QED BY <1>1, <1>2, <1>3, <1>4, <1>5, <1>6 DEF Next

(* The invariant gives what the runs check.                                *)
LEMMA ShellInvGives == IInv => AccessIsCurrent
<1> SUFFICES ASSUME IInv PROVE TypeOK /\ RevokedIsRefused /\ TenantAdminEnters
  BY DEF AccessIsCurrent
<1>1. TypeOK
  <2>1. /\ central.active \in BOOLEAN /\ central.selected \in Tenant \cup {NoTenant}
        /\ [super |-> central.super, role |-> central.role, enabled |-> central.enabled] \in User
    BY DEF IInv, Known, User
  <2>2. ASSUME NEW b \in Tab
        PROVE  LET t == tabs[b] IN
               /\ t.view \in {"closed", "loading", "unauthenticated", "forbidden", "error", "authenticated"}
               /\ t.banner \in Tenant \cup {NoTenant} /\ t.path \in Paths
               /\ t.listed \in Scopes \cup {NoTenant}
               /\ {t.super, t.busy, t.pageError} \subseteq BOOLEAN
               /\ Len(t.calls) \in 0..MaxCalls /\ \A i \in DOMAIN t.calls : t.calls[i] \in Call
               /\ t.view # "authenticated" =>
                    /\ t.banner = NoTenant /\ t.listed = NoTenant
                    /\ ~t.super /\ ~t.busy /\ ~t.pageError
    <3> DEFINE t == tabs[b]
    <3>1. ShellFits(t) /\ t \in Shell /\ t.calls \in Seq(Call) /\ Len(t.calls) \in Nat
      BY TabFacts DEF TabInv, CallsInv
    <3> HIDE DEF t
    <3>2. /\ t.view \in Views /\ t.banner \in Tenant \cup {NoTenant} /\ t.path \in Paths
          /\ t.listed \in Scopes \cup {NoTenant}
          /\ t.super \in BOOLEAN /\ t.busy \in BOOLEAN /\ t.pageError \in BOOLEAN
      BY <3>1 DEF Shell
    <3>3. Len(t.calls) \in 0..MaxCalls
      BY <3>1, ShellBounds DEF ShellFits
    <3>4. \A i \in DOMAIN t.calls : t.calls[i] \in Call
      BY <3>1
    <3> QED BY <3>1, <3>2, <3>3, <3>4 DEF t, Views, ShellFits
  <2> QED BY <2>1, <2>2 DEF TypeOK, IInv
<1>2. RevokedIsRefused
  BY CallFacts DEF RevokedIsRefused, CallInv, GivenIsAllowed
<1>3. TenantAdminEnters
  BY DEF TenantAdminEnters, TenantAdminNeverOutside, IInv, TabInv, Entered
<1> QED BY <1>1, <1>2, <1>3

(* For any number of tabs, tenants, calls in flight, acts of the user and  *)
(* changes in Identity: the answer of a call gives no access that Identity *)
(* denied from before the call was sent until it was answered, though the  *)
(* session is introspected twice, a selection is stored in between and     *)
(* other tabs do the same; and while nothing changes in Identity a user    *)
(* who administers a tenant is never shown a shell without one.            *)
THEOREM AccessIsCurrentHolds == Spec => []AccessIsCurrent
<1>1. Spec => []IInv
  BY InitShell, NextShell, PTL DEF Spec
<1> QED BY <1>1, ShellInvGives, PTL
==============================================================================
