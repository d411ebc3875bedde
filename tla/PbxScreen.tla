----------------------------- MODULE PbxScreen ------------------------------
(***************************************************************************)
(* The Extensions screen of one tenant (web/src/screens/                   *)
(* ExtensionsScreen.tsx), the BFF's PBX routes behind it                   *)
(* (server/src/admin/pbx-routes.ts) and the native extensions of           *)
(* OfficePulse, which other administrators change as well.                 *)
(*                                                                         *)
(* A mutation leaves the screen under its lock, is resolved to a context   *)
(* by the BFF, and then exists twice: as a request OfficePulse may         *)
(* process at any later time, and as a call of the BFF that gives up after *)
(* ten seconds (server/src/officepulse/client.ts).  Its outcome is audited *)
(* and answered, and the screen loads the inventory again before it        *)
(* releases the lock.                                                      *)
(*                                                                         *)
(* Operator-managed extensions, which the screen cannot delete, and        *)
(* OfficePulse's switch that disables provisioning are left out.           *)
(***************************************************************************)
EXTENDS PbxInventory

CONSTANTS
    Extension,  \* extension numbers; every context has its own
    MaxOps,     \* bound on the mutations of the screen
    MaxOthers   \* bound on the changes of other administrators

ASSUME BoundsAreNaturals == MaxOps \in Nat /\ MaxOthers \in Nat

VARIABLES
    pbx,        \* OfficePulse: the extensions committed in each context
    commits,    \* how many commits OfficePulse has made
    others,     \* how many of them by other administrators
    form,       \* the create form: None, or the number filled in
    secret,     \* the mutation whose credentials are disclosed, 0 for none
    lock,       \* the screen's lock and `busy`
    ops         \* the mutations so far, in the order they were submitted

vars == <<assigned, hookVars, pbx, commits, others, form, secret, lock, ops>>
serverVars == <<assigned, pbx, commits, others>>
Ops == DOMAIN ops

Op == [kind: {"create", "delete"}, extension: Extension,
       asked: Context \cup {None},      \* the `context` parameter
       shown: Context,                  \* the context the screen named
       mine: SUBSET Context,            \* the tenant's contexts, until resolved
       scope: Context \cup {None},      \* what the BFF resolved it to
       phase: {"sent", "called", "answered", "refreshing", "done"},
       upstream: {"none", "pending", "lost", "done", "refused"},
       commit: 0..(MaxOps + MaxOthers), \* the commit that did it, 0 for none
       answer: {"none", "ok", "refused", "forbidden", "retryable", "unconfirmed"},
       confirmed: BOOLEAN,              \* OfficePulse told the BFF of success
       live: BOOLEAN,                   \* its screen is there and waits for it
       disclosed: {"no", "lost", "shown", "gone"}]

Contents == [extensions: SUBSET Extension, commit: 0..(MaxOps + MaxOthers)]

TypeOK ==
    /\ assigned \in Assignments /\ context \in Context \cup {None}
    /\ data = None \/ /\ data.contents \in Contents
                      /\ data.context \in Context /\ data.asked \in Context \cup {None}
    /\ failed \in BOOLEAN /\ loading \in BOOLEAN /\ lock \in BOOLEAN
    /\ \A r \in requests : r.contents = None \/ r.contents \in Contents
    /\ pbx \in [Context -> SUBSET Extension]
    /\ commits \in 0..(MaxOps + MaxOthers) /\ others \in 0..MaxOthers
    /\ form \in Extension \cup {None}
    /\ ops \in Seq(Op) /\ Len(ops) <= MaxOps /\ secret \in 0..Len(ops)

Init ==
    /\ InventoryInit
    /\ pbx \in [Context -> SUBSET Extension]
    /\ commits = 0 /\ others = 0
    /\ form = None /\ secret = 0 /\ lock = FALSE /\ ops = <<>>

-----------------------------------------------------------------------------
(* The screen                                                              *)

Select(c) ==
    /\ ~lock /\ secret = 0
    /\ SelectContext(c)
    /\ UNCHANGED <<serverVars, form, secret, lock, ops>>

Reload ==
    /\ ~lock
    /\ ClickRefresh
    /\ UNCHANGED <<serverVars, form, secret, lock, ops>>

OpenForm(e) ==
    /\ Writable /\ ~lock /\ secret = 0
    /\ form = None
    /\ form' = e
    /\ UNCHANGED <<serverVars, hookVars, secret, lock, ops>>

CancelForm ==
    /\ form # None /\ ~lock
    /\ form' = None
    /\ UNCHANGED <<serverVars, hookVars, secret, lock, ops>>

Submitted(kind, e) ==
    /\ Len(ops) < MaxOps
    /\ lock' = TRUE
    /\ ops' = Append(ops,
         [kind |-> kind, extension |-> e, asked |-> context,
          shown |-> data.context, mine |-> ToSet(assigned), scope |-> None,
          phase |-> "sent", upstream |-> "none", commit |-> 0,
          answer |-> "none", confirmed |-> FALSE, live |-> TRUE, disclosed |-> "no"])
    /\ UNCHANGED <<serverVars, hookVars, form, secret>>

Submit ==
    /\ ~lock /\ Writable /\ secret = 0
    /\ form # None
    /\ Submitted("create", form)

(* Fault: the rows stay while another inventory is loading. *)
DeleteWhileLoading(e) ==
    /\ ~lock /\ Writable
    /\ e \in data.contents.extensions
    /\ Submitted("delete", e)

(* A row is there once its inventory is loaded, and is confirmed. *)
Delete(e) ==
    /\ ~lock /\ Writable /\ ~loading
    /\ e \in data.contents.extensions
    /\ Submitted("delete", e)

Dismiss ==
    /\ secret # 0
    /\ secret' = 0
    /\ ops' = [ops EXCEPT ![secret].disclosed = "gone"]
    /\ UNCHANGED <<serverVars, hookVars, form, lock>>

(* Fault: the screen is not keyed by its tenant; its state survives. *)
LeaveUnkeyed ==
    /\ Cardinality(requests) < MaxRequests
    /\ Remount
    /\ ops' = [i \in Ops |->
                 [ops[i] EXCEPT !.live = FALSE,
                                !.disclosed = IF @ = "shown" THEN "gone" ELSE @]]
    /\ UNCHANGED <<serverVars, form, secret, lock>>

(* Another tenant or page is opened, and the screen again. *)
Leave ==
    /\ Cardinality(requests) < MaxRequests
    /\ Remount
    /\ form' = None /\ secret' = 0 /\ lock' = FALSE
    /\ ops' = [i \in Ops |->
                 [ops[i] EXCEPT !.live = FALSE,
                                !.disclosed = IF @ = "shown" THEN "gone" ELSE @]]
    /\ UNCHANGED serverVars

-----------------------------------------------------------------------------
(* The BFF and OfficePulse                                                 *)

Scope(i) ==
    /\ ops[i].phase = "sent"
    /\ LET scope == Resolve(ops[i].asked) IN
         ops' = [ops EXCEPT ![i] =
                   IF scope = None
                   THEN [@ EXCEPT !.phase = "answered", !.answer = "forbidden"]
                   ELSE [@ EXCEPT !.phase = "called", !.upstream = "pending",
                                  !.scope = scope]]
    /\ UNCHANGED <<serverVars, hookVars, form, secret, lock>>

(* PlatformConfig cannot be read: a 503, before OfficePulse is called. *)
ScopeFails(i) ==
    /\ ops[i].phase = "sent"
    /\ ops' = [ops EXCEPT ![i].phase = "answered", ![i].answer = "retryable"]
    /\ UNCHANGED <<serverVars, hookVars, form, secret, lock>>

Possible(op) == (op.kind = "delete") <=> (op.extension \in pbx[op.scope])

(* OfficePulse's transaction, also when nobody waits for it any more. *)
Commit(i) ==
    /\ ops[i].upstream = "pending" /\ Possible(ops[i])
    /\ pbx' = [pbx EXCEPT ![ops[i].scope] =
                 IF ops[i].kind = "create" THEN @ \cup {ops[i].extension}
                                           ELSE @ \ {ops[i].extension}]
    /\ commits' = commits + 1
    /\ ops' = [ops EXCEPT ![i].upstream = "done", ![i].commit = commits + 1]
    /\ UNCHANGED <<assigned, others, hookVars, form, secret, lock>>

(* A duplicate or absent extension (409, 404), or the request is lost. *)
NoCommit(i) ==
    /\ ops[i].upstream = "pending"
    /\ \/ ~Possible(ops[i]) /\ ops' = [ops EXCEPT ![i].upstream = "refused"]
       \/ ops' = [ops EXCEPT ![i].upstream = "lost"]
    /\ UNCHANGED <<serverVars, hookVars, form, secret, lock>>

(* What OfficePulse's answer makes of the call: 201/204, 404/409, or 502   *)
(* when the body is not what the contract says.  Without one, 503.         *)
Outcomes(op) ==
    {"retryable"} \cup
        CASE op.upstream = "done" -> {"ok", "unconfirmed"}
          [] op.upstream = "refused" -> {"refused"}
          [] OTHER -> {}

(* Fault: a failed audit is answered like a failed mutation. *)
CallReturnsAuditFatal(i) ==
    /\ ops[i].phase = "called"
    /\ \E outcome \in Outcomes(ops[i]), audited \in BOOLEAN :
         ops' = [ops EXCEPT ![i].phase = "answered",
                            ![i].answer = IF audited THEN outcome ELSE "unconfirmed",
                            ![i].confirmed = (outcome = "ok")]
    /\ UNCHANGED <<serverVars, hookVars, form, secret, lock>>

(* The call ends, the audit entry is appended (or its failure only         *)
(* logged) and the browser is answered.                                    *)
CallReturns(i) ==
    /\ ops[i].phase = "called"
    /\ \E outcome \in Outcomes(ops[i]) :
         ops' = [ops EXCEPT ![i].phase = "answered", ![i].answer = outcome,
                            ![i].confirmed = (outcome = "ok")]
    /\ UNCHANGED <<serverVars, hookVars, form, secret, lock>>

-----------------------------------------------------------------------------
(* The answers                                                             *)

(* Fault: a success is shown without loading the inventory again. *)
SucceedUnrefreshed(i) ==
    /\ ops[i].phase = "answered" /\ ops[i].live /\ ops[i].answer = "ok"
    /\ IF ops[i].kind = "create" THEN form' = None /\ secret' = i
                                 ELSE UNCHANGED <<form, secret>>
    /\ lock' = FALSE
    /\ ops' = [ops EXCEPT ![i].phase = "done",
                          ![i].disclosed = IF secret' = i THEN "shown" ELSE @]
    /\ UNCHANGED <<serverVars, hookVars>>

Succeed(i) ==
    /\ ops[i].phase = "answered" /\ ops[i].live /\ ops[i].answer = "ok"
    /\ IF ops[i].kind = "create" THEN form' = None /\ secret' = i
                                 ELSE UNCHANGED <<form, secret>>
    /\ Refresh(TRUE)
    /\ ops' = [ops EXCEPT ![i].phase = "refreshing",
                          ![i].disclosed = IF secret' = i THEN "shown" ELSE @]
    /\ UNCHANGED <<serverVars, lock>>

(* The error is shown; the form, and the inventory, stay as they are. *)
Failed(i) ==
    /\ ops[i].phase = "answered" /\ ops[i].live /\ ops[i].answer # "ok"
    /\ lock' = FALSE
    /\ ops' = [ops EXCEPT ![i].phase = "done"]
    /\ UNCHANGED <<serverVars, hookVars, form, secret>>

(* The connection to the browser fails: the fetch rejects, whatever the    *)
(* BFF goes on to do, and the screen shows an error.                       *)
AnswerLost(i) ==
    /\ ops[i].phase \in {"sent", "called", "answered"} /\ ops[i].live
    /\ lock' = FALSE
    /\ ops' = [ops EXCEPT ![i].live = FALSE, ![i].disclosed = "lost"]
    /\ UNCHANGED <<serverVars, hookVars, form, secret>>

(* Nobody waits for the answer any more. *)
Ignored(i) ==
    /\ ops[i].phase \in {"answered", "refreshing"} /\ ~ops[i].live
    /\ ops' = [ops EXCEPT ![i].phase = "done"]
    /\ UNCHANGED <<serverVars, hookVars, form, secret, lock>>

(* Fault: the lock is only released by a reload that succeeds. *)
LoadReleasing(r) ==
    /\ Deliver(r)
    /\ IF r.awaited /\ r.contents # None
       THEN /\ lock' = FALSE
            /\ ops' = [i \in Ops |->
                         IF ops[i].phase = "refreshing" /\ ops[i].live
                         THEN [ops[i] EXCEPT !.phase = "done"] ELSE ops[i]]
       ELSE UNCHANGED <<lock, ops>>
    /\ UNCHANGED <<serverVars, form, secret>>

(* A load is answered; the mutation that waited for it ends. *)
Load(r) ==
    /\ Deliver(r)
    /\ IF r.awaited
       THEN /\ lock' = FALSE
            /\ ops' = [i \in Ops |->
                         IF ops[i].phase = "refreshing" /\ ops[i].live
                         THEN [ops[i] EXCEPT !.phase = "done"] ELSE ops[i]]
       ELSE UNCHANGED <<lock, ops>>
    /\ UNCHANGED <<serverVars, form, secret>>

List(r) ==
    /\ \/ ScopeRequest(r)
       \/ ReadInventory(r, [extensions |-> pbx[r.scope], commit |-> commits])
       \/ RequestFails(r)
    /\ UNCHANGED <<serverVars, form, secret, lock, ops>>

-----------------------------------------------------------------------------
(* Others                                                                  *)

(* Another administrator creates or deletes an extension. *)
OtherChange(c, e) ==
    /\ others < MaxOthers
    /\ others' = others + 1
    /\ commits' = commits + 1
    /\ pbx' = [pbx EXCEPT ![c] = IF e \in @ THEN @ \ {e} ELSE @ \cup {e}]
    /\ UNCHANGED <<assigned, hookVars, form, secret, lock, ops>>

(* A Super Admin stores other contexts for the tenant. *)
TenantEdit(list) ==
    /\ Reassign(list)
    /\ ops' = [i \in Ops |-> IF ops[i].phase = "sent"
                             THEN [ops[i] EXCEPT !.mine = @ \cup ToSet(list)]
                             ELSE ops[i]]
    /\ UNCHANGED <<pbx, commits, others, form, secret, lock>>

BffStep(i) == Scope(i) \/ ScopeFails(i) \/ CallReturns(i)
AnswerStep(i) == Succeed(i) \/ Failed(i) \/ Ignored(i)

Next ==
    \/ \E c \in Context : Select(c)
    \/ Reload
    \/ \E e \in Extension : OpenForm(e) \/ Delete(e)
    \/ CancelForm
    \/ Submit
    \/ Dismiss
    \/ Leave
    \/ \E i \in Ops : BffStep(i) \/ Commit(i) \/ NoCommit(i) \/ AnswerStep(i)
                      \/ AnswerLost(i)
    \/ \E r \in requests : Load(r) \/ List(r)
    \/ \E c \in Context, e \in Extension : OtherChange(c, e)
    \/ \E list \in Assignments : TenantEdit(list)

Spec == Init /\ [][Next]_vars

(* The BFF's calls end within ten seconds and the browser delivers what it *)
(* receives; nobody has to press anything, and OfficePulse need not answer.*)
Fairness ==
    /\ \A i \in 1..MaxOps : WF_vars(i \in Ops /\ (BffStep(i) \/ AnswerStep(i)))
    /\ WF_vars(\E r \in requests : Load(r) \/ List(r))

FairSpec == Spec /\ Fairness

-----------------------------------------------------------------------------
(* Properties                                                              *)

(* Rows on screen without an error belong to the selected context, however *)
(* the loads of several contexts overtake one another                      *)
(* (usePbxInventory's sequence number).                                    *)
RowsOfSelectedContext ==
    data # None /\ ~loading /\ ~failed => data.asked = context

(* Once a context was chosen, a deletion acts in the context of the row    *)
(* that was clicked, however loads, choices and edits of the tenant's      *)
(* contexts overlap: the row's inventory and the request name the same.    *)
(* Without a choice neither names one, and the primary context may have    *)
(* moved between them: see DeletesRowClicked.                              *)
DeletesShownRow ==
    \A i \in Ops :
        /\ ops[i].kind = "delete" /\ ops[i].upstream = "done"
        /\ ops[i].asked # None
        => ops[i].scope = ops[i].shown

(* OfficePulse changes only contexts that were the tenant's at some moment *)
(* between the click and the BFF's check, whatever list the screen showed  *)
(* (pbx-scope's authorization).  An edit of the tenant after the check is  *)
(* not noticed any more: OfficePulse acts in the context that was checked. *)
OnlyOwnContexts ==
    \A i \in Ops : ops[i].upstream = "done" => ops[i].scope \in ops[i].mine

(* The rows shown, the row clicked and the row changed are in the context  *)
(* that was chosen, and that was the tenant's when the BFF checked it.     *)
RightContext == RowsOfSelectedContext /\ DeletesShownRow /\ OnlyOwnContexts

(* After a mutation that succeeded, and its reload, an inventory shown     *)
(* without an error includes it: an older load never comes to rest on top. *)
FreshAfterSuccess ==
    \A i \in Ops :
        /\ ops[i].phase = "done" /\ ops[i].answer = "ok" /\ ops[i].live
        /\ ~loading /\ ~failed /\ data.context = ops[i].scope
        => data.contents.commit >= ops[i].commit

(* The screen's state fits together, and its rows are not those of before. *)
InventoryIsFresh == TypeOK /\ FreshAfterSuccess

(* Credentials exist once, in one answer.  When OfficePulse has committed  *)
(* a creation and its call is over, they are on the screen until they are  *)
(* dismissed or left, or one of four things happened: the answer was lost  *)
(* on its way to the browser, the screen was left before it came, the BFF  *)
(* had given up on OfficePulse, or could not read what it answered.  No    *)
(* audit failure, second submission, reload or late answer of another      *)
(* mutation takes them away.                                               *)
SecretKept ==
    \A i \in Ops :
        /\ ops[i].kind = "create" /\ ops[i].upstream = "done"
        /\ ops[i].phase \in {"refreshing", "done"}
        => \/ secret = i
           \/ ops[i].disclosed \in {"gone", "lost"}
           \/ ops[i].disclosed = "no" /\ ~ops[i].live
           \/ /\ ops[i].answer \in {"retryable", "unconfirmed"}
              /\ ~ops[i].confirmed

(* Nothing brings credentials back once they were dismissed or left: not a *)
(* reload, a retry or another creation.                                    *)
SecretGoneForGood ==
    [][\A i \in Ops : ops[i].disclosed = "gone" =>
         secret' # i /\ ops'[i].disclosed = "gone"]_vars

(* The lock of a submitted mutation is always released, also when          *)
(* OfficePulse never answers, the reload fails or the screen is left.      *)
LockReleased == lock ~> ~lock

(* Unless the user keeps switching or leaving, a screen does not stay on   *)
(* "Loading extensions": superseded loads do not keep it there.            *)
LoadingEnds ==
    []<>~loading \/ []<><<Leave \/ \E c \in Context : Select(c)>>_vars

(* The screen comes back to its user, whatever becomes of OfficePulse.     *)
ScreenReleased == LockReleased /\ LoadingEnds

(* pbx-routes.ts:101 tells of a 503 that the form can be retried: the      *)
(* retry of a creation is not refused because of its first attempt.        *)
RetryMeetsNoOwnAttempt ==
    \A i, j \in Ops :
        /\ i < j /\ ops[i].kind = "create" /\ ops[j].kind = "create"
        /\ ops[i].extension = ops[j].extension /\ ops[i].scope = ops[j].scope
        /\ ops[i].answer = "retryable" /\ ops[j].answer = "refused"
        => ops[i].commit = 0

(* NATIVE_PBX_ADMINISTRATION.md:45: the screens show the context they act  *)
(* in, also when none was chosen.                                          *)
DeletesRowClicked ==
    \A i \in Ops : ops[i].kind = "delete" /\ ops[i].upstream = "done"
                     => ops[i].scope = ops[i].shown

(* ExtensionsScreen.tsx:274 says where the form creates its extension.     *)
CreatedWhereStated ==
    \A i \in Ops : ops[i].kind = "create" /\ ops[i].upstream = "done"
                     => ops[i].scope = ops[i].shown

(* NATIVE_PBX_ADMINISTRATION.md:56 says a context change unmounts forms.   *)
FormsUnmount == [][context' # context => form' = None]_vars

=============================================================================
