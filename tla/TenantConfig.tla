---------------------------- MODULE TenantConfig ----------------------------
(***************************************************************************)
(* Tenants: the organization lives in Identity, its PBX scope (one primary *)
(* and any additional extension contexts) in the NocoDB table              *)
(* tenant_profile.  PlatformTenantRepository (server/src/id/repositories.ts)*)
(* saves a form to both over NocoStore (server/src/nocodb/repos.ts), one   *)
(* await at a time and without a transaction: the checks read, a later     *)
(* await writes.  The form is web/src/screens/TenantsScreen.tsx.           *)
(*                                                                         *)
(* "This POC uses a single administrative writer" (repos.ts) is the        *)
(* constant SingleWriter: at most one save is being processed at a time,   *)
(* by whichever of the editors.                                            *)
(*                                                                         *)
(* External: Identity's tenant directory, and NocoDB's rows.               *)
(***************************************************************************)
EXTENDS Integers

CONSTANTS
    Tenant,         \* tenant ids Identity may hand out
    Context,        \* Asterisk extension contexts
    Name,           \* what Identity stores of a tenant: name, slug, bEnabled
    Active,         \* each of these with bEnabled, as a POST stores it
    Editor,         \* open Tenants screens
    None,
    SingleWriter,   \* saves are processed one at a time
    MaxRevision     \* bound on a profile's revision

ASSUME BoundsAssumption == MaxRevision \in Nat \ {0} /\ SingleWriter \in BOOLEAN
ASSUME ActiveAssumption == Active \in [Name -> Name]
ASSUME NoneAssumption == None \notin Tenant \cup Name

VARIABLES
    directory,  \* Identity: each tenant's name, None when it does not exist
    profile,    \* NocoDB: each tenant's row, None when it has none
    form,       \* each screen's form: the listed row it was opened from
    request,    \* the save each screen is waiting for
    answer      \* the answer to each screen's last save

vars == <<directory, profile, form, request, answer>>

Contexts == {s \in [primary: Context, extra: SUBSET Context] : s.primary \notin s.extra}
Owned(s) == {s.primary} \cup s.extra    \* tenantProfileContexts

Profile == [revision: 1..MaxRevision, contexts: Contexts]
ASSUME NoneIsNoRow == None \notin Profile

Form == [tenant: Tenant \cup {None}, revision: 0..MaxRevision, shown: Contexts \cup {None}]
Request == [step: {"check", "post", "disable", "revision", "unique", "write", "patch", "done"},
            tenant: Tenant \cup {None}, name: Name, contexts: Contexts, wrote: BOOLEAN]

TypeOK ==
    /\ directory \in [Tenant -> Name \cup {None}]
    /\ profile \in [Tenant -> Profile \cup {None}]
    /\ form \in [Editor -> Form \cup {None}]
    /\ request \in [Editor -> Request \cup {None}]
    /\ answer \in [Editor -> {"none", "ok", "validation", "duplicate", "conflict",
                              "not_found", "failed"}]

Init ==
    /\ directory = [t \in Tenant |-> None]
    /\ profile = [t \in Tenant |-> None]
    /\ form = [e \in Editor |-> None]
    /\ request = [e \in Editor |-> None]
    /\ answer = [e \in Editor |-> "none"]

Waiting(e, step) == request[e] # None /\ request[e].step = step
Creates(e) == form[e].tenant = None

-----------------------------------------------------------------------------
(* The screen                                                              *)

(* Edit, on a freshly loaded list: combine() lists revision 0 for a tenant *)
(* without a profile.                                                      *)
Open(e, t) ==
    /\ request[e] = None
    /\ directory[t] # None
    /\ form' = [form EXCEPT ![e] =
         IF profile[t] = None
         THEN [tenant |-> t, revision |-> 0, shown |-> None]
         ELSE [tenant |-> t, revision |-> profile[t].revision, shown |-> profile[t].contexts]]
    /\ answer' = [answer EXCEPT ![e] = "none"]
    /\ UNCHANGED <<directory, profile, request>>

OpenNew(e) ==
    /\ request[e] = None
    /\ form' = [form EXCEPT ![e] = [tenant |-> None, revision |-> 0, shown |-> None]]
    /\ answer' = [answer EXCEPT ![e] = "none"]
    /\ UNCHANGED <<directory, profile, request>>

Ask(e, n, c) ==
    /\ request' = [request EXCEPT ![e] = [step |-> "check", tenant |-> form[e].tenant,
                                          name |-> n, contexts |-> c, wrote |-> FALSE]]
    /\ answer' = [answer EXCEPT ![e] = "none"]

(* expectedRevision(): an update must name a revision of at least 1. *)
Malformed(e) == ~Creates(e) /\ form[e].revision < 1

(* Save: the first submission of the form, or another after a failure. *)
Submit(e, n, c) ==
    /\ form[e] # None /\ form[e].revision < MaxRevision
    /\ request[e] = None
    /\ SingleWriter => \A f \in Editor : request[f] = None
    /\ IF Malformed(e)
       THEN answer' = [answer EXCEPT ![e] = "validation"] /\ UNCHANGED request
       ELSE Ask(e, n, c)
    /\ UNCHANGED <<directory, profile, form>>

-----------------------------------------------------------------------------
(* The save                                                                *)

Advance(e, step) == request' = [request EXCEPT ![e].step = step]

Refuse(e, reason) ==
    /\ request' = [request EXCEPT ![e] = None]
    /\ answer' = [answer EXCEPT ![e] = reason]

(* Fault: only the primary context is compared. *)
ClaimedPrimary(own, c) ==
    \E t \in Tenant : /\ t # own /\ profile[t] # None
                      /\ profile[t].contexts.primary = c.primary

(* assertContextsUnclaimed *)
Claimed(own, c) ==
    \E t \in Tenant : /\ t # own /\ profile[t] # None
                      /\ Owned(profile[t].contexts) \cap Owned(c) # {}

(* Fault: a new tenant's contexts are left to the uniqueness rule. *)
CheckContextsOfUpdates(e) ==
    /\ Waiting(e, "check")
    /\ IF Creates(e) THEN Advance(e, "post") /\ UNCHANGED answer
       ELSE IF Claimed(request[e].tenant, request[e].contexts) THEN Refuse(e, "duplicate")
       ELSE IF profile[request[e].tenant] = None THEN Refuse(e, "not_found")
       ELSE Advance(e, "revision") /\ UNCHANGED answer
    /\ UNCHANGED <<directory, profile, form>>

(* assertContextsFree, then which way the save goes *)
CheckContexts(e) ==
    /\ Waiting(e, "check")
    /\ IF Claimed(request[e].tenant, request[e].contexts) THEN Refuse(e, "duplicate")
       ELSE IF Creates(e) THEN Advance(e, "post") /\ UNCHANGED answer
       ELSE IF profile[request[e].tenant] = None THEN Refuse(e, "not_found")
       ELSE Advance(e, "revision") /\ UNCHANGED answer
    /\ UNCHANGED <<directory, profile, form>>

(* POST tenants: Identity creates the organization, enabled. *)
PostTenant(e, t) ==
    /\ Waiting(e, "post")
    /\ directory[t] = None
    /\ directory' = [directory EXCEPT ![t] = Active[request[e].name]]
    /\ request' = [request EXCEPT ![e] = [@ EXCEPT
                     !.step = IF Active[request[e].name] = request[e].name
                              THEN "unique" ELSE "disable",
                     !.tenant = t, !.wrote = TRUE]]
    /\ UNCHANGED <<profile, form, answer>>

(* PATCH tenants/:id of one created disabled *)
DisableTenant(e) ==
    /\ Waiting(e, "disable")
    /\ directory' = [directory EXCEPT ![request[e].tenant] = request[e].name]
    /\ Advance(e, "unique")
    /\ UNCHANGED <<profile, form, answer>>

(* Fault: the revision is not compared. *)
CheckNoRevision(e) ==
    /\ Waiting(e, "revision")
    /\ Advance(e, "unique")
    /\ UNCHANGED <<directory, profile, form, answer>>

(* NocoStore.update reads the row again and compares its revision. *)
CheckRevision(e) ==
    /\ Waiting(e, "revision")
    /\ IF profile[request[e].tenant].revision = form[e].revision
       THEN Advance(e, "unique") /\ UNCHANGED answer
       ELSE Refuse(e, "conflict")
    /\ UNCHANGED <<directory, profile, form>>

(* assertUnique: tenant_id (there is one row per tenant) and the primary. *)
CheckUnique(e) ==
    /\ Waiting(e, "unique")
    /\ IF \E t \in Tenant : /\ t # request[e].tenant /\ profile[t] # None
                            /\ profile[t].contexts.primary = request[e].contexts.primary
       THEN Refuse(e, "duplicate")
       ELSE Advance(e, "write") /\ UNCHANGED answer
    /\ UNCHANGED <<directory, profile, form>>

(* Fault: a row is created without its revision. *)
NextRevisionUnset(e) == IF Creates(e) THEN 0 ELSE form[e].revision + 1

(* createRecord, or updateRecord with the next revision *)
NextRevision(e) == IF Creates(e) THEN 1 ELSE form[e].revision + 1

Write(e) ==
    /\ Waiting(e, "write")
    /\ profile' = [profile EXCEPT ![request[e].tenant] =
                     [revision |-> NextRevision(e), contexts |-> request[e].contexts]]
    /\ request' = [request EXCEPT ![e] = [@ EXCEPT
                     !.step = IF Creates(e) THEN "done" ELSE "patch", !.wrote = TRUE]]
    /\ UNCHANGED <<directory, form, answer>>

(* Fault: the PATCH is not awaited, and its failure is not noticed. *)
PatchDirectoryUnawaited(e) ==
    /\ Waiting(e, "patch")
    /\ \/ directory' = [directory EXCEPT ![request[e].tenant] = request[e].name]
       \/ UNCHANGED directory
    /\ Advance(e, "done")
    /\ UNCHANGED <<profile, form, answer>>

(* PATCH tenants/:id *)
PatchDirectory(e) ==
    /\ Waiting(e, "patch")
    /\ directory' = [directory EXCEPT ![request[e].tenant] = request[e].name]
    /\ Advance(e, "done")
    /\ UNCHANGED <<profile, form, answer>>

(* The answer; the screen closes the form and loads the list again. *)
Succeed(e) ==
    /\ Waiting(e, "done")
    /\ Refuse(e, "ok")
    /\ form' = [form EXCEPT ![e] = None]
    /\ UNCHANGED <<directory, profile>>

(* Identity or NocoDB fails or times out, or the process dies: whatever is *)
(* written stays, and the form stays open with the revision it has.        *)
Fail(e) ==
    /\ request[e] # None
    /\ Refuse(e, "failed")
    /\ UNCHANGED <<directory, profile, form>>

(* Identity's own screens create organizations too. *)
PlatformCreates(t, n) ==
    /\ directory[t] = None
    /\ directory' = [directory EXCEPT ![t] = n]
    /\ UNCHANGED <<profile, form, request, answer>>

-----------------------------------------------------------------------------
Next ==
    \/ \E t \in Tenant, n \in Name : PlatformCreates(t, n)
    \/ \E e \in Editor :
         \/ OpenNew(e) \/ CheckContexts(e) \/ CheckRevision(e) \/ CheckUnique(e)
         \/ DisableTenant(e) \/ Write(e) \/ PatchDirectory(e) \/ Succeed(e) \/ Fail(e)
         \/ \E t \in Tenant : Open(e, t) \/ PostTenant(e, t)
         \/ \E n \in Name, c \in Contexts : Submit(e, n, c)

Spec == Init /\ [][Next]_vars

-----------------------------------------------------------------------------
(* Properties                                                              *)

(* No extension context belongs to two tenants, primary or additional:     *)
(* their extensions and queues would be one scope (assertContextsUnclaimed *)
(* and UNIQUE_RULES, read well before the row is written).                 *)
ContextsDisjoint ==
    \A t, u \in Tenant :
        t # u /\ profile[t] # None /\ profile[u] # None
            => Owned(profile[t].contexts) \cap Owned(profile[u].contexts) = {}

(* A save replaces exactly the contexts its form was opened with, however  *)
(* long ago that was and whoever saved or failed in between: an edit based *)
(* on a stale list never overwrites another (NocoStore.update).            *)
NoLostUpdate ==
    [][\A e \in Editor :
         Waiting(e, "write") /\ ~Creates(e) /\ profile'[form[e].tenant] # profile[form[e].tenant]
            => profile[form[e].tenant].contexts = form[e].shown]_vars

(* A save refused as a duplicate, a conflict or not found has changed      *)
(* neither store; only a failed one may have (create validates "voice      *)
(* intent before creating a platform business").                           *)
RefusedChangesNothing ==
    [][\A e \in Editor :
         request[e] # None /\ answer'[e] \in {"duplicate", "conflict", "not_found"}
            => ~request[e].wrote]_vars

(* A save answered with success is in both stores, the directory and the   *)
(* profile, at that moment.                                                *)
SavedInBothStores ==
    [][\A e \in Editor :
         request[e] # None /\ answer'[e] = "ok"
            => /\ directory'[request[e].tenant] = request[e].name
               /\ profile'[request[e].tenant].contexts = request[e].contexts]_vars

(* README.md: "Existing organizations without a voice profile appear with  *)
(* revision 0 and can be configured using the normal edit form."           *)
ConfiguredByNormalEdit == \A e \in Editor : answer[e] # "validation"

(* server/src/id/repositories.ts: "Failures are explicit and retryable".   *)
(* Saving the form of the only screen again is never refused because the   *)
(* tenant "was modified by someone else".                                  *)
Alone(e) == Editor = {e}
FailuresAreRetryable == \A e \in Editor : Alone(e) => answer[e] # "conflict"
=============================================================================
