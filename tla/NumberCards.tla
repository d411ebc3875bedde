----------------------------- MODULE NumberCards -----------------------------
(***************************************************************************)
(* A tenant's numbers (web/src/screens/TenantNumbersScreen.tsx): Identity  *)
(* owns the numbers and versions them (server/src/admin/number-routes.ts), *)
(* OfficePulse owns their DID routes (components/NumberRouting.tsx,        *)
(* server/src/admin/pbx-routes.ts).  A request of a screen is a call; its  *)
(* steps at the BFF are taken one await at a time, and it goes on when the *)
(* screen is left.  ProfileRouting adds the records kept in NocoDB.        *)
(*                                                                         *)
(* A load is taken at the moment its answer arrives: usePbxInventory drops *)
(* superseded answers, and no save is possible while one is awaited, so an *)
(* answer read earlier is one that is out of date when it arrives.         *)
(*                                                                         *)
(* External: Identity's numbers, OfficePulse's routes, the tenants'        *)
(* contexts (TenantConfig).                                                *)
(***************************************************************************)
EXTENDS Sequences, Naturals, FiniteSets

CONSTANTS
    Tenant, Context, Did, None,
    Holder,     \* the tenant each number belongs to
    Setting,    \* what a managed route says besides its queue's context
    Tab,        \* open browser tabs of administrators
    MaxCalls,   \* bound on the requests of all tabs
    MaxTurns    \* bound on failures, refreshes, other screens and contexts

ASSUME HoldersAreTenants == Holder \in [Did -> Tenant]
ASSUME NoneIsNothing == None \notin Tenant \cup Context \cup Did \cup Setting \cup Nat
ASSUME NumberBounds == MaxCalls \in Nat /\ MaxTurns \in Nat

VARIABLES
    contexts,   \* the contexts of each tenant, the primary one first
    numbers,    \* Identity: each number's [enabled, version], None if not added
    routes,     \* OfficePulse: each number's route
    calls,      \* the requests submitted so far, with what became of them
    turns,
    place,      \* the screen of each tab: [tenant, page]
    context,    \* the context its selector has chosen, None for none
    identity,   \* its list of numbers, as a hook
    routing,    \* its list of routes, as a hook
    numberForm, \* its number form: [did, base], None when closed
    draft       \* what each number's routing form was filled from

cards == <<place, context, identity, routing, numberForm, draft>>
numberVars == <<contexts, numbers, routes, calls, turns, cards>>

Numbered == [enabled: BOOLEAN, version: Nat \ {0}]
Managed == [context: Context, set: Setting]
Route(set) == [context |-> None, set |-> set]
Unconfigured == Route("unconfigured")
Manual == Route("manual")
Defaults == Route("defaults")
Emptied == Route("emptied")
Unmanaged == {Unconfigured, Manual}
Drafted == {Defaults, Emptied} \cup Managed

Turn == turns < MaxTurns /\ turns' = turns + 1
Unloaded == [data |-> None, error |-> FALSE, loading |-> "yes"]
Loaded(data) == [data |-> data, error |-> FALSE, loading |-> "no"]
Stale(hook) == [hook EXCEPT !.error = TRUE, !.loading = "no"]
Refresh(hook) == [hook EXCEPT !.loading = IF @ = "no" THEN "yes" ELSE @]
Settled(hook) == hook.data # None /\ ~hook.error /\ hook.loading = "no"

-----------------------------------------------------------------------------
(* Calls                                                                   *)

Open == {i \in DOMAIN calls : calls[i].stage \notin {"done", "lost"}}
Mine(t) == {i \in Open : calls[i].tab = t /\ calls[i].mounted}

(* A request, before its operation says what it is about; "during" records *)
(* the calls under way, for the properties.                                *)
Request(t, op, stage) ==
    [op |-> op, stage |-> stage, tab |-> t, tenant |-> place[t].tenant, mounted |-> TRUE,
     during |-> Open, did |-> None, enabled |-> FALSE, version |-> 0, base |-> None,
     set |-> None, scope |-> None, key |-> None, value |-> None, id |-> None, revision |-> 0]

Submit(call) == Len(calls) < MaxCalls /\ calls' = Append(calls, call)

At(i, stage) == i \in DOMAIN calls /\ calls[i].stage = stage
To(i, stage) == calls' = [calls EXCEPT ![i].stage = stage]
Answered == {"ok", "refused"}
Finish(i) == To(i, IF calls[i].stage = "ok" THEN "done" ELSE "lost")

(* Two calls overlapped if one was submitted before the other was over.    *)
Overlap(i, j) ==
    i \in calls[j].during \/ j \in calls[i].during

(* An await fails before it did anything, or the answer is lost.           *)
CallFails(i) ==
    /\ i \in Open /\ calls[i].stage # "refused" /\ Turn
    /\ To(i, "refused")

-----------------------------------------------------------------------------
(* The lists                                                               *)

Of(tenant) == {d \in Did : Holder[d] = tenant /\ numbers[d] # None}

(* What OfficePulse lists of a number in a context: another context's      *)
(* queue makes a route manual there.                                       *)
Listed(d, c) ==
    IF routes[d] \in Managed /\ routes[d].context # c THEN Manual ELSE routes[d]

Primary(tenant) == contexts[tenant][1]
Holds(tenant, c) == \E k \in DOMAIN contexts[tenant] : contexts[tenant][k] = c
Acting(tenant, chosen) == IF chosen = None THEN Primary(tenant) ELSE chosen

FormFor(route) == IF route \in Managed THEN route ELSE Defaults

(* Fault: a refresh leaves the forms alone. *)
KeepDrafts(t, data) == draft[t]

(* A changed route replaces the draft; an unchanged one preserves it.      *)
Redraft(t, data) ==
    LET old == routing[t].data
    IN  [d \in Did |-> IF old = None \/ old.route[d] # data.route[d]
                       THEN FormFor(data.route[d]) ELSE draft[t][d]]

LoadNumbers(t, fails) ==
    /\ place[t].page = "numbers" /\ identity[t].loading # "no"
    /\ IF fails THEN Turn ELSE UNCHANGED turns
    /\ identity' = [identity EXCEPT ![t] =
         IF fails THEN Stale(@) ELSE Loaded([d \in Of(place[t].tenant) |-> numbers[d]])]
    /\ routing' = [routing EXCEPT ![t] = 
         IF identity[t].loading = "then routing" THEN [@ EXCEPT !.loading = "held"] ELSE @]
    /\ UNCHANGED <<contexts, numbers, routes, calls, place, context, numberForm, draft>>

(* A context the tenant does not hold is refused, an empty scope too.      *)
LoadRoutes(t, fails) ==
    LET tenant == place[t].tenant
        lost == contexts[tenant] = <<>> \/ (context[t] # None /\ ~Holds(tenant, context[t]))
        c == Acting(tenant, context[t])
        data == [context |-> c, route |-> [d \in Did |-> Listed(d, c)]]
    IN  /\ place[t].page = "numbers" /\ routing[t].loading # "no"
        /\ IF fails THEN ~lost /\ Turn ELSE UNCHANGED turns
        /\ routing' = [routing EXCEPT ![t] = IF fails \/ lost THEN Stale(@) ELSE Loaded(data)]
        /\ draft' = [draft EXCEPT ![t] = IF fails \/ lost THEN @ ELSE Redraft(t, data)]
        /\ UNCHANGED <<contexts, numbers, routes, calls, place, context, identity, numberForm>>

SelectContext(t, c) ==
    /\ place[t].page = "numbers" /\ routing[t].data # None
    /\ Holds(place[t].tenant, c) /\ c # Acting(place[t].tenant, context[t])
    /\ Turn
    /\ context' = [context EXCEPT ![t] = c]
    /\ routing' = [routing EXCEPT ![t] = Refresh(@)]
    /\ UNCHANGED <<contexts, numbers, routes, calls, place, identity, numberForm, draft>>

-----------------------------------------------------------------------------
(* The number form                                                         *)

(* A save holds the form until both lists have been loaded again.          *)
NumberBusy(t) ==
    \/ \E i \in Mine(t) : calls[i].op = "number"
    \/ identity[t].loading = "then routing" \/ routing[t].loading = "held"

EditNumber(t, d) ==
    /\ place[t].page = "numbers"
    /\ Settled(identity[t]) /\ d \in DOMAIN identity[t].data /\ ~NumberBusy(t)
    /\ numberForm' = [numberForm EXCEPT ![t] = [did |-> d, base |-> identity[t].data[d]]]
    /\ UNCHANGED <<contexts, numbers, routes, calls, turns, place, context, identity, routing, draft>>

(* Typed into the form while it edits nothing, or after a cancel.          *)
AddNumber(t, d) ==
    /\ place[t].page = "numbers" /\ ~NumberBusy(t)
    /\ Holder[d] = place[t].tenant
    /\ numberForm' = [numberForm EXCEPT ![t] = [did |-> d, base |-> None]]
    /\ UNCHANGED <<contexts, numbers, routes, calls, turns, place, context, identity, routing, draft>>

(* Fault: the version of the latest list is sent. *)
LatestVersion(t) ==
    LET d == numberForm[t].did
    IN  IF d \in DOMAIN identity[t].data THEN identity[t].data[d].version ELSE 0

(* The version of the row the form was opened with; none for a new number. *)
ExpectedVersion(t) ==
    IF numberForm[t].base = None THEN 0 ELSE numberForm[t].base.version

SaveNumber(t, enabled) ==
    /\ numberForm[t] # None /\ Settled(identity[t]) /\ ~NumberBusy(t)
    /\ Submit([Request(t, "number", "save") EXCEPT
                !.did = numberForm[t].did, !.enabled = enabled,
                !.version = ExpectedVersion(t), !.base = numberForm[t].base])
    /\ UNCHANGED <<contexts, numbers, routes, turns, cards>>

(* Identity refuses a version that is not the number's, and a number that  *)
(* exists already.                                                         *)
Saved(call) == [enabled |-> call.enabled, version |-> call.version + 1]
Accepts(call) ==
    IF call.version = 0 THEN numbers[call.did] = None
    ELSE numbers[call.did] # None /\ numbers[call.did].version = call.version

IdentitySaves(i) ==
    /\ At(i, "save")
    /\ IF Accepts(calls[i])
       THEN numbers' = [numbers EXCEPT ![calls[i].did] = Saved(calls[i])] /\ To(i, "ok")
       ELSE To(i, "refused") /\ UNCHANGED numbers
    /\ UNCHANGED <<contexts, routes, turns, cards>>

(* A saved number closes the form and reloads both lists, one after the    *)
(* other; a refused one stays open, and nothing is reloaded.               *)
NumberAnswered(i) ==
    /\ i \in DOMAIN calls /\ calls[i].op = "number" /\ calls[i].stage \in Answered
    /\ IF calls[i].mounted /\ calls[i].stage = "ok"
       THEN /\ numberForm' = [numberForm EXCEPT ![calls[i].tab] = None]
            /\ identity' = [identity EXCEPT ![calls[i].tab].loading = "then routing"]
       ELSE UNCHANGED <<numberForm, identity>>
    /\ Finish(i)
    /\ UNCHANGED <<contexts, numbers, routes, turns, place, context, routing, draft>>

-----------------------------------------------------------------------------
(* DID routes                                                              *)

RouteBusy(t, d) == \E i \in Mine(t) : calls[i].op = "route" /\ calls[i].did = d

Writable(t, d) ==
    /\ place[t].page = "numbers" /\ Settled(routing[t])
    /\ Settled(identity[t]) /\ ~NumberBusy(t)
    /\ d \in DOMAIN identity[t].data /\ identity[t].data[d].enabled
    /\ routing[t].data.route[d] # Manual /\ ~RouteBusy(t, d)

(* The request names no context, whatever the selector shows: the BFF acts *)
(* in the tenant's primary one.  A set of None deletes the route.          *)
SaveRoute(t, d, set) ==
    /\ Writable(t, d)
    /\ set = None => routing[t].data.route[d] \in Managed
    /\ Submit([Request(t, "route", "scope") EXCEPT !.did = d, !.set = set])
    /\ UNCHANGED <<contexts, numbers, routes, turns, cards>>

RouteScope(i) ==
    /\ At(i, "scope") /\ calls[i].op = "route"
    /\ calls' = [calls EXCEPT ![i] =
         IF contexts[@.tenant] = <<>> THEN [@ EXCEPT !.stage = "refused"]
         ELSE [@ EXCEPT !.stage = "number", !.scope = Primary(calls[i].tenant)]]
    /\ UNCHANGED <<contexts, numbers, routes, turns, cards>>

(* allowedDid: an enabled number of the tenant ...                         *)
RouteNumber(i) ==
    /\ At(i, "number") /\ calls[i].op = "route"
    /\ LET n == numbers[calls[i].did]
       IN  To(i, IF n # None /\ n.enabled THEN "route" ELSE "refused")
    /\ UNCHANGED <<contexts, numbers, routes, turns, cards>>

(* Fault: manual routes are adopted. *)
Adopt(i) == TRUE

(* ... and a route that is managed here or not configured yet.             *)
Configurable(i) == Listed(calls[i].did, calls[i].scope) # Manual

RouteListed(i) ==
    /\ At(i, "route")
    /\ To(i, IF Configurable(i) THEN "put" ELSE "refused")
    /\ UNCHANGED <<contexts, numbers, routes, turns, cards>>

(* OfficePulse carries the request out, or refuses it: the queue may not   *)
(* exist in the context.                                                   *)
RoutePut(i, accepted) ==
    /\ At(i, "put")
    /\ routes' = IF ~accepted THEN routes
                 ELSE [routes EXCEPT ![calls[i].did] =
                    IF calls[i].set = None THEN Unconfigured
                    ELSE [context |-> calls[i].scope, set |-> calls[i].set]]
    /\ To(i, IF accepted THEN "ok" ELSE "refused")
    /\ UNCHANGED <<contexts, numbers, turns, cards>>

RouteAnswered(i) ==
    /\ i \in DOMAIN calls /\ calls[i].op = "route" /\ calls[i].stage \in Answered
    /\ LET t == calls[i].tab
           done == calls[i].mounted /\ calls[i].stage = "ok"
       IN  /\ draft' = IF done /\ calls[i].set = None
                       THEN [draft EXCEPT ![t][calls[i].did] = Emptied] ELSE draft
           /\ routing' = IF done THEN [routing EXCEPT ![t] = Refresh(@)] ELSE routing
    /\ Finish(i)
    /\ UNCHANGED <<contexts, numbers, routes, turns, place, context, identity, numberForm>>

-----------------------------------------------------------------------------
NumberInit ==
    /\ calls = <<>>
    /\ context = [t \in Tab |-> None]
    /\ identity = [t \in Tab |-> Unloaded] /\ routing = [t \in Tab |-> Unloaded]
    /\ numberForm = [t \in Tab |-> None]
    /\ draft = [t \in Tab |-> [d \in Did |-> Defaults]]

NumberNext ==
    \/ \E t \in Tab :
        \/ \E fails \in BOOLEAN : LoadNumbers(t, fails) \/ LoadRoutes(t, fails)
        \/ \E c \in Context : SelectContext(t, c)
        \/ \E d \in Did : EditNumber(t, d) \/ AddNumber(t, d)
        \/ \E enabled \in BOOLEAN : SaveNumber(t, enabled)
        \/ \E d \in Did, set \in Setting \cup {None} : SaveRoute(t, d, set)
    \/ \E i \in DOMAIN calls :
        \/ IdentitySaves(i) \/ NumberAnswered(i)
        \/ RouteScope(i) \/ RouteNumber(i) \/ RouteListed(i) \/ RouteAnswered(i)
        \/ \E accepted \in BOOLEAN : RoutePut(i, accepted)
=============================================================================
