---------------------------- MODULE QueueMembers ----------------------------
(***************************************************************************)
(* The members editor of a queue (web/src/screens/QueuesScreen.tsx) over   *)
(* the queue's memberships in OfficePulse.                                 *)
(*                                                                         *)
(* Opening the editor copies the loaded memberships into drafts and into a *)
(* baseline.  Saving sends one PUT or DELETE after another for the drafts  *)
(* that differ from the baseline, and moves the baseline along with each   *)
(* success, so that a save that failed half-way can be repeated.  Others   *)
(* change memberships and extensions meanwhile, and a request the BFF gave *)
(* up on may still be carried out.                                         *)
(*                                                                         *)
(* One queue, which stays; its creation and deletion are mutations like    *)
(* those of PbxScreen.  A member's penalty and pause are one setting.      *)
(* Members the screen does not manage are shown and never sent.            *)
(***************************************************************************)
EXTENDS PbxInventory

CONSTANTS
    Extension,  \* the extensions that may exist in the context
    Setting,    \* what a member's penalty and pause may be
    Out,        \* not a member
    MaxOthers,  \* bound on the changes of other administrators
    MaxLate     \* bound on the abandoned requests still to be carried out

ASSUME OutIsNoSetting == Out \notin Setting
ASSUME BoundsAreNaturals == MaxOthers \in Nat /\ MaxLate \in Nat

VARIABLES
    managed,    \* OfficePulse: the managed extensions
    member,     \* OfficePulse: each extension's membership in the queue
    late,       \* requests the BFF gave up on that OfficePulse may yet carry out
    others,     \* how many changes others have made
    editing,    \* the editor is open
    drafts,     \* its `members`, a function on the extensions it knew
    baseline,   \* its `baseline`
    lock,       \* the screen's lock and `busy`
    todo,       \* the extensions the running save goes through
    call,       \* the request of the running save, or None
    touched,    \* history: the extensions edited since the editor was opened
    foreign,    \* history: those that others changed since
    unsure      \* history: those with a request whose fate is not known

pbxVars == <<managed, member, late, others>>
editorVars == <<editing, drafts, baseline, lock, todo, call>>
history == <<touched, foreign, unsure>>
vars == <<assigned, hookVars, pbxVars, editorVars, history>>

Draft == Setting \cup {Out}
Call == [extension: Extension, value: Draft,
         upstream: {"pending", "done", "refused", "lost"}]

ASSUME NoneIsNoCall == None \notin Call

TypeOK ==
    /\ assigned \in Assignments /\ context \in Context \cup {None}
    /\ failed \in BOOLEAN /\ loading \in BOOLEAN
    /\ data = None \/ /\ data.contents.member \in [Extension -> Draft]
                      /\ data.contents.listed \subseteq Extension
    /\ managed \subseteq Extension /\ member \in [Extension -> Draft]
    /\ \A e \in Extension \ managed : member[e] = Out
    /\ late \subseteq [extension: Extension, value: Draft] /\ others \in 0..MaxOthers
    /\ editing \in BOOLEAN /\ lock \in BOOLEAN
    /\ DOMAIN drafts \subseteq Extension /\ DOMAIN baseline = DOMAIN drafts
    /\ \A e \in DOMAIN drafts : {drafts[e], baseline[e]} \subseteq Draft
    /\ todo \subseteq Extension /\ call \in Call \cup {None}
    /\ call # None => lock /\ editing
    /\ \A set \in {touched, foreign, unsure} : set \subseteq Extension

Init ==
    /\ InventoryInit
    /\ managed \in SUBSET Extension
    /\ member \in [Extension -> Draft]
    /\ \A e \in Extension \ managed : member[e] = Out
    /\ late = {} /\ others = 0
    /\ editing = FALSE /\ drafts = <<>> /\ baseline = <<>>
    /\ lock = FALSE /\ todo = {} /\ call = None
    /\ touched = {} /\ foreign = {} /\ unsure = {}

-----------------------------------------------------------------------------
(* The inventory: two reads, in either order                               *)

ReadHalf(r, half, value) ==
    /\ r.phase = "scoped"
    /\ LET seen == IF r.contents = None THEN [member |-> None, listed |-> None]
                                        ELSE r.contents
           now == [seen EXCEPT ![half] = value]
       IN /\ seen[half] = None
          /\ Becomes(r, [r EXCEPT !.contents = now,
                                  !.phase = IF None \in {now.member, now.listed}
                                            THEN "scoped" ELSE "answered"])

List(r) ==
    /\ \/ ScopeRequest(r)
       \/ ReadHalf(r, "member", member)
       \/ ReadHalf(r, "listed", managed)
       \/ RequestFails(r)
    /\ UNCHANGED <<assigned, pbxVars, editorVars, history>>

(* Fault: every answered load ends the save. *)
LoadUnlocking(r) ==
    /\ Deliver(r)
    /\ lock' = FALSE
    /\ UNCHANGED <<assigned, pbxVars, editing, drafts, baseline, todo, call, history>>

(* Fault: a loaded inventory becomes the baseline of the open editor. *)
LoadRebasing(r) ==
    /\ Deliver(r)
    /\ lock' = (lock /\ ~r.awaited)
    /\ baseline' = IF data' = None THEN baseline
                   ELSE [e \in DOMAIN baseline |-> data'.contents.member[e]]
    /\ UNCHANGED <<assigned, pbxVars, editing, drafts, todo, call, history>>

Load(r) ==
    /\ Deliver(r)
    /\ lock' = (lock /\ ~r.awaited)
    /\ UNCHANGED <<assigned, pbxVars, editing, drafts, baseline, todo, call, history>>

Reload ==
    /\ ~lock
    /\ ClickRefresh
    /\ UNCHANGED <<assigned, pbxVars, editorVars, history>>

-----------------------------------------------------------------------------
(* The editor                                                              *)

(* "Members": also while another load is under way. *)
Edit ==
    /\ Writable /\ ~lock
    /\ editing' = TRUE
    /\ drafts' = [e \in data.contents.listed |-> data.contents.member[e]]
    /\ baseline' = drafts'
    /\ touched' = {}
    /\ foreign' = {e \in Extension : member[e] # data.contents.member[e]}
    /\ unsure' = {request.extension : request \in late}
    /\ UNCHANGED <<assigned, hookVars, pbxVars, lock, todo, call>>

(* Closing the editor: what is left of it is replaced when it is opened.   *)
Close ==
    /\ editing' = FALSE /\ drafts' = <<>> /\ baseline' = <<>>
    /\ touched' = {} /\ foreign' = {} /\ unsure' = {}

(* Only extensions that are still listed are rendered. *)
Change(e, value) ==
    /\ editing /\ Writable /\ ~lock
    /\ e \in DOMAIN drafts \cap data.contents.listed
    /\ value # drafts[e]
    /\ drafts' = [drafts EXCEPT ![e] = value]
    /\ touched' = touched \cup {e}
    /\ UNCHANGED <<assigned, hookVars, pbxVars, editing, baseline, lock, todo, call,
                   foreign, unsure>>

Cancel ==
    /\ editing /\ ~lock
    /\ Close
    /\ UNCHANGED <<assigned, hookVars, pbxVars, lock, todo, call>>

Save ==
    /\ editing /\ Writable /\ ~lock
    /\ lock' = TRUE
    /\ todo' = data.contents.listed
    /\ UNCHANGED <<assigned, hookVars, pbxVars, editing, drafts, baseline, call, history>>

(* A request that nobody waits for any more may still be carried out. *)
GiveUp ==
    late' = IF /\ call # None /\ call.upstream = "pending"
               /\ Cardinality(late) < MaxLate
            THEN late \cup {[extension |-> call.extension, value |-> call.value]}
            ELSE late

(* Another tenant or page is opened, and the screen again. *)
Leave ==
    /\ Cardinality(requests) < MaxRequests
    /\ Remount
    /\ Close
    /\ lock' = FALSE /\ todo' = {} /\ call' = None
    /\ GiveUp
    /\ UNCHANGED <<assigned, managed, member, others>>

-----------------------------------------------------------------------------
(* saveMembers                                                             *)

Saving == lock /\ call = None /\ \A r \in requests : ~r.awaited
NoDraft(e) == e \notin DOMAIN drafts
(* Fault: only members that stay or join are saved. *)
ChangedSelected(e) == drafts[e] # Out /\ drafts[e] # baseline[e]

Changed(e) == drafts[e] # baseline[e]
Unfinished == {e \in todo : NoDraft(e) \/ Changed(e)}

(* The next changed mapping, in the order of OfficePulse's list. *)
Send(e) ==
    /\ Saving
    /\ e \in Unfinished /\ ~NoDraft(e)
    /\ call' = [extension |-> e, value |-> drafts[e], upstream |-> "pending"]
    /\ UNCHANGED <<assigned, hookVars, pbxVars, editing, drafts, baseline, lock, todo, history>>

(* Load the inventory again; the lock is held until it is answered. *)
EndSave ==
    /\ Refresh(TRUE)
    /\ todo' = {} /\ call' = None
    /\ UNCHANGED <<assigned, lock>>

(* An extension the drafts do not have: members[extension.id]! is undefined*)
(* and reading its `selected` throws.                                      *)
Throw ==
    /\ Saving
    /\ \E e \in Unfinished : NoDraft(e)
    /\ EndSave
    /\ UNCHANGED <<pbxVars, editing, drafts, baseline, history>>

Finish ==
    /\ Saving
    /\ Unfinished = {}
    /\ Close
    /\ EndSave
    /\ UNCHANGED pbxVars

(* Fault: the baseline becomes all the drafts with the first success. *)
SucceedAll ==
    /\ call # None /\ call.upstream = "done"
    /\ baseline' = drafts
    /\ call' = None
    /\ UNCHANGED <<assigned, hookVars, pbxVars, editing, drafts, lock, todo, history>>

Succeed ==
    /\ call # None /\ call.upstream = "done"
    /\ baseline' = [baseline EXCEPT ![call.extension] = call.value]
    /\ call' = None
    /\ UNCHANGED <<assigned, hookVars, pbxVars, editing, drafts, lock, todo, history>>

(* 404, 502 or 503.  The drafts stay, and the baseline of what was saved.  *)
Fail ==
    /\ call # None
    /\ GiveUp
    /\ unsure' = IF call.upstream \in {"pending", "done"}
                 THEN unsure \cup {call.extension} ELSE unsure
    /\ EndSave
    /\ UNCHANGED <<managed, member, others, editing, drafts, baseline, touched, foreign>>

-----------------------------------------------------------------------------
(* OfficePulse                                                             *)

(* PUT sets the member of an extension it manages; DELETE removes one that *)
(* is there.  Anything else is 404.                                        *)
Possible(request) ==
    IF request.value = Out THEN member[request.extension] # Out
                           ELSE request.extension \in managed

Apply(request) == member' = [member EXCEPT ![request.extension] = request.value]

CarryOut ==
    /\ call # None /\ call.upstream = "pending"
    /\ \/ /\ Possible(call) /\ Apply(call)
          /\ call' = [call EXCEPT !.upstream = "done"]
       \/ /\ ~Possible(call) /\ UNCHANGED member
          /\ call' = [call EXCEPT !.upstream = "refused"]
       \/ /\ UNCHANGED member
          /\ call' = [call EXCEPT !.upstream = "lost"]
    /\ UNCHANGED <<assigned, hookVars, managed, late, others, editing, drafts, baseline,
                   lock, todo, history>>

CarryOutLate(request) ==
    /\ request \in late
    /\ late' = late \ {request}
    /\ \/ Possible(request) /\ Apply(request)
       \/ UNCHANGED member
    /\ UNCHANGED <<assigned, hookVars, managed, others, editorVars, history>>

(* Others set or remove a member, or create or delete an extension, which  *)
(* removes its memberships.                                                *)
OtherChange(e, value) ==
    /\ others < MaxOthers
    /\ others' = others + 1
    /\ \/ e \in managed /\ UNCHANGED managed
       \/ e \notin managed /\ value = Out /\ managed' = managed \cup {e}
       \/ e \in managed /\ value = Out /\ managed' = managed \ {e}
    /\ member' = [member EXCEPT ![e] = value]
    /\ foreign' = IF editing THEN foreign \cup {e} ELSE foreign
    /\ UNCHANGED <<assigned, hookVars, late, editorVars, touched, unsure>>

Next ==
    \/ \E r \in requests : List(r) \/ Load(r)
    \/ Reload \/ Edit \/ Cancel \/ Save \/ Leave
    \/ \E e \in Extension, value \in Draft : Change(e, value) \/ OtherChange(e, value)
    \/ \E e \in Extension : Send(e)
    \/ Throw \/ Finish \/ Succeed \/ Fail
    \/ CarryOut
    \/ \E request \in late : CarryOutLate(request)

Spec == Init /\ [][Next]_vars

-----------------------------------------------------------------------------
(* Properties                                                              *)

(* Throughout partial failures and repeated saves the baseline is what     *)
(* OfficePulse has, except for extensions that others changed meanwhile or *)
(* that have a request of unknown fate: repeating a save sends exactly     *)
(* what is still missing (QueuesScreen's per-operation baseline).          *)
Disturbed == foreign \cup unsure

BaselineIsTruth ==
    editing => \A e \in DOMAIN baseline \ Disturbed :
                 call = None \/ call.extension # e => baseline[e] = member[e]

(* A save never sends a mapping the operator did not edit in this editor,  *)
(* so it does not undo what others did to it since it was opened.          *)
UntouchedLeftAlone == call # None => call.extension \in touched

(* A save sends what is missing and nothing else.                          *)
SendsWhatIsMissing == TypeOK /\ BaselineIsTruth /\ UntouchedLeftAlone

(* A save that reports success has left every member it went through as    *)
(* drafted, except for what others changed or what has an unknown fate.    *)
SavedAsDrafted ==
    [][lock /\ lock' /\ editing /\ ~editing' =>
         \A e \in todo \ Disturbed : member[e] = drafts[e]]_vars

(* QueuesScreen.tsx:144 asserts a draft for every extension it saves.      *)
EveryExtensionHasDraft == Saving => todo \subseteq DOMAIN drafts

(* QueuesScreen.tsx:176 says after a failure: save again to apply the      *)
(* remaining changes.  So only what others did makes OfficePulse refuse.   *)
SaveAgainApplies ==
    call # None /\ call.upstream = "refused" => call.extension \in foreign

=============================================================================
