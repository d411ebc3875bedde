---------------------------- MODULE PbxInventory ----------------------------
(***************************************************************************)
(* What the PBX screens of a tenant share: the hook that loads an          *)
(* inventory (web/src/hooks/usePbxInventory.ts), the selector of the       *)
(* context it shows (web/src/components/PbxScope.tsx), and the BFF's       *)
(* resolution of the context a request acts in                             *)
(* (server/src/admin/pbx-scope.ts).                                        *)
(*                                                                         *)
(* A load is a request: it leaves with the selected context (None: the     *)
(* tenant's primary), the BFF resolves it against the contexts stored for  *)
(* the tenant, OfficePulse answers with the contents, and the answer       *)
(* reaches the screen.  Any number of loads overlap.  The hook's sequence  *)
(* number is modelled by `latest`: the one request whose number is still   *)
(* the current one.  Unmounting raises the number too.                     *)
(*                                                                         *)
(* The modules that extend this one say what the contents are.             *)
(***************************************************************************)
EXTENDS SequencesExt

CONSTANTS
    Context,        \* Asterisk contexts
    Assignments,    \* the lists of contexts the Tenants screen may store
    None,
    MaxRequests     \* bound on the loads under way at once

ASSUME ContextsAreAssigned ==
    \A list \in Assignments : list \in Seq(Context) /\ list # <<>>
ASSUME NoneIsNoContext == None \notin Context

VARIABLES
    assigned,   \* PlatformConfig: the tenant's contexts, the primary first
    context,    \* the screen's selected context, or None
    data,       \* the hook's data, or None
    failed,     \* the hook's error is set
    loading,    \* the hook's loading
    requests    \* the loads under way

hookVars == <<context, data, failed, loading, requests>>

InventoryInit ==
    /\ assigned \in Assignments
    /\ context = None
    /\ data = None
    /\ failed = FALSE
    /\ loading = TRUE
    /\ requests = {[latest |-> TRUE, awaited |-> FALSE, asked |-> None,
                    phase |-> "sent", scope |-> None, contexts |-> <<>>,
                    contents |-> None]}

-----------------------------------------------------------------------------
(* The hook                                                                *)

Superseded == {[r EXCEPT !.latest = FALSE] : r \in requests}

(* refresh(); `awaiting` when a mutation waits for its answer. *)
RefreshFor(asked, awaiting, before) ==
    /\ loading' = TRUE
    /\ requests' = before \cup
         {[latest |-> TRUE, awaited |-> awaiting, asked |-> asked,
           phase |-> "sent", scope |-> None, contexts |-> <<>>, contents |-> None]}

Refresh(awaiting) ==
    /\ RefreshFor(context, awaiting, Superseded)
    /\ UNCHANGED <<context, data, failed>>

(* The screen is left and another is mounted: nothing of the first is      *)
(* applied or awaited any more.                                            *)
Remount ==
    /\ context' = None
    /\ data' = None
    /\ failed' = FALSE
    /\ RefreshFor(None, FALSE,
                  {[r EXCEPT !.latest = FALSE, !.awaited = FALSE] : r \in requests})

(* The effect of a changed context: supersede what is under way and load.  *)
(* The data of the context left stays until the load is answered.          *)
SelectContext(c) ==
    /\ data # None
    /\ Len(data.contexts) > 1 /\ c \in ToSet(data.contexts)
    /\ c # (IF context = None THEN data.context ELSE context)
    /\ Cardinality(requests) < MaxRequests
    /\ context' = c
    /\ RefreshFor(c, FALSE, Superseded)
    /\ UNCHANGED <<data, failed>>

(* "Refresh inventory" *)
ClickRefresh ==
    /\ ~loading
    /\ Cardinality(requests) < MaxRequests
    /\ Refresh(FALSE)

(* Fault: an answer is applied whichever load it belongs to. *)
DeliverAny(r) ==
    /\ r \in requests /\ r.phase = "answered"
    /\ requests' = requests \ {r}
    /\ IF r.contents # None
       THEN /\ data' = [asked |-> r.asked, context |-> r.scope,
                        contexts |-> r.contexts, contents |-> r.contents]
            /\ failed' = FALSE
       ELSE failed' = TRUE /\ UNCHANGED data
    /\ loading' = FALSE
    /\ UNCHANGED context

(* Fault: only an answer with data ends the loading. *)
DeliverDataOnly(r) ==
    /\ r \in requests /\ r.phase = "answered"
    /\ requests' = requests \ {r}
    /\ IF r.latest /\ r.contents # None
       THEN /\ data' = [asked |-> r.asked, context |-> r.scope,
                        contexts |-> r.contexts, contents |-> r.contents]
            /\ failed' = FALSE /\ loading' = FALSE
       ELSE failed' = (failed \/ r.latest) /\ UNCHANGED <<data, loading>>
    /\ UNCHANGED context

(* Fault: a failed load replaces the data like any other. *)
DeliverError(r) ==
    /\ r \in requests /\ r.phase = "answered"
    /\ requests' = requests \ {r}
    /\ IF r.latest
       THEN data' = [asked |-> r.asked, context |-> r.scope,
                     contexts |-> r.contexts, contents |-> r.contents]
       ELSE UNCHANGED data
    /\ failed' = (failed /\ ~r.latest)
    /\ loading' = (loading /\ ~r.latest)
    /\ UNCHANGED context

(* The answer of a load reaches the hook; only the latest is applied. *)
Deliver(r) ==
    /\ r \in requests /\ r.phase = "answered"
    /\ requests' = requests \ {r}
    /\ IF r.latest /\ r.contents # None
       THEN data' = [asked |-> r.asked, context |-> r.scope,
                     contexts |-> r.contexts, contents |-> r.contents]
       ELSE UNCHANGED data
    /\ failed' = IF r.latest THEN r.contents = None ELSE failed
    /\ loading' = (loading /\ ~r.latest)
    /\ UNCHANGED context

Writable == data # None /\ ~failed

-----------------------------------------------------------------------------
(* The BFF and OfficePulse                                                 *)

(* Fault: the requested context is used without asking whose it is. *)
ResolveUnchecked(asked) == IF asked = None THEN Head(assigned) ELSE asked

(* resolveTenantPbxScope: the context a request acts in, None: refused. *)
Resolve(asked) ==
    CASE asked = None -> Head(assigned)
      [] asked \in ToSet(assigned) -> asked
      [] OTHER -> None

Becomes(r, new) ==
    /\ requests' = (requests \ {r}) \cup {new}
    /\ UNCHANGED <<context, data, failed, loading>>

ScopeRequest(r) ==
    /\ r \in requests /\ r.phase = "sent"
    /\ Becomes(r, IF Resolve(r.asked) = None
                  THEN [r EXCEPT !.phase = "answered"]
                  ELSE [r EXCEPT !.phase = "scoped", !.scope = Resolve(r.asked),
                                 !.contexts = assigned])

ReadInventory(r, contents) ==
    /\ r \in requests /\ r.phase = "scoped"
    /\ Becomes(r, [r EXCEPT !.phase = "answered", !.contents = contents])

(* PlatformConfig or OfficePulse fails, or ten seconds pass. *)
RequestFails(r) ==
    /\ r \in requests /\ r.phase \in {"sent", "scoped"}
    /\ Becomes(r, [r EXCEPT !.phase = "answered", !.contents = None])

(* The Tenants screen stores another list for the tenant. *)
Reassign(list) ==
    /\ list \in Assignments \ {assigned}
    /\ assigned' = list
    /\ UNCHANGED hookVars

=============================================================================
