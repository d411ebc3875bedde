------------------------- MODULE QueueMembersProofs -------------------------
(***************************************************************************)
(* The safety of the members editor, for any number of extensions,         *)
(* settings, loads, abandoned requests and changes of others.              *)
(***************************************************************************)
EXTENDS QueueMembers, TLAPS

Contents == [member: [Extension -> Draft] \cup {None}, listed: (SUBSET Extension) \cup {None}]
Request == [latest: BOOLEAN, awaited: BOOLEAN, asked: Context \cup {None},
            phase: {"sent", "scoped", "answered"}, scope: Context \cup {None},
            contexts: Seq(Context), contents: Contents \cup {None}]
Full(contents) == contents.member \in [Extension -> Draft] /\ contents.listed \subseteq Extension

(* A load is answered with both halves of an inventory or with none. *)
RequestInv ==
    \A r \in requests :
       /\ r \in Request
       /\ r.phase = "sent" => r.contents = None
       /\ r.phase = "answered" /\ r.contents # None => Full(r.contents)

(* No request is under way while the reload after a save is awaited. *)
AwaitInv == \A r \in requests : r.awaited => call = None

(* A closed editor has no drafts; a draft that differs was edited. *)
DraftInv ==
    /\ \A e \in DOMAIN drafts : editing
    /\ \A e \in DOMAIN drafts : drafts[e] # baseline[e] => e \in touched

(* What the BFF gave up on has an unknown fate in the editor. *)
LateInv == editing => \A request \in late : request.extension \in unsure

(* The request under way carries a draft; until it is carried out,         *)
(* OfficePulse has the baseline, and from then on the draft.               *)
CallInv ==
    call # None =>
      /\ call.extension \in DOMAIN drafts /\ call.value = drafts[call.extension]
      /\ call.extension \notin Disturbed =>
           member[call.extension] = IF call.upstream = "done" THEN call.value
                                    ELSE baseline[call.extension]

IInv ==
    /\ TypeOK
    /\ RequestInv
    /\ AwaitInv
    /\ DraftInv
    /\ LateInv
    /\ CallInv
    /\ BaselineIsTruth
    /\ UntouchedLeftAlone
-----------------------------------------------------------------------------
(* The parts of the type invariant. *)
HookTypes ==
    /\ assigned \in Assignments /\ context \in Context \cup {None}
    /\ failed \in BOOLEAN /\ loading \in BOOLEAN
    /\ data # None => Full(data.contents)
ServerTypes ==
    /\ managed \subseteq Extension /\ member \in [Extension -> Draft]
    /\ \A e \in Extension \ managed : member[e] = Out
    /\ late \subseteq [extension: Extension, value: Draft] /\ others \in 0..MaxOthers
EditorTypes ==
    /\ editing \in BOOLEAN /\ lock \in BOOLEAN
    /\ DOMAIN drafts \subseteq Extension /\ DOMAIN baseline = DOMAIN drafts
    /\ \A e \in DOMAIN drafts : drafts[e] \in Draft /\ baseline[e] \in Draft
    /\ todo \subseteq Extension /\ call \in Call \cup {None}
    /\ call # None => lock /\ editing
HistoryTypes == touched \subseteq Extension /\ foreign \subseteq Extension /\ unsure \subseteq Extension

LEMMA Parts == TypeOK <=> HookTypes /\ ServerTypes /\ EditorTypes /\ HistoryTypes
BY DEF TypeOK, HookTypes, ServerTypes, EditorTypes, HistoryTypes, Full

LEMMA ScopeIsContext ==
  ASSUME assigned \in Assignments, NEW asked \in Context \cup {None}
  PROVE  /\ assigned \in Seq(Context)
         /\ Resolve(asked) # None => Resolve(asked) \in Context
<1>1. assigned \in Seq(Context) /\ assigned # <<>>
  BY ContextsAreAssigned
<1>2. Head(assigned) \in Context /\ ToSet(assigned) \subseteq Context
  BY <1>1 DEF ToSet
<1> QED BY <1>1, <1>2 DEF Resolve

(* What a step may do to the loads. *)
HookOK == HookTypes /\ RequestInv
Fits(r) ==
    /\ r \in Request
    /\ r.phase = "sent" => r.contents = None
    /\ r.phase = "answered" /\ r.contents # None => Full(r.contents)

(* A load comes further; whether it is awaited does not change. *)
LEMMA Becoming ==
  ASSUME HookOK, NEW r \in requests, NEW new, Fits(new), new.awaited = r.awaited,
         Becomes(r, new), UNCHANGED assigned
  PROVE  HookOK' /\ \A s \in requests' : s.awaited => \E q \in requests : q.awaited
BY DEF HookOK, HookTypes, RequestInv, Fits, Becomes

LEMMA HalfRead ==
  ASSUME HookOK, ServerTypes, NEW r \in requests, UNCHANGED assigned,
         ReadHalf(r, "member", member) \/ ReadHalf(r, "listed", managed)
  PROVE  HookOK' /\ \A s \in requests' : s.awaited => \E q \in requests : q.awaited
<1> DEFINE seen == IF r.contents = None THEN [member |-> None, listed |-> None] ELSE r.contents
<1>1. r \in Request /\ r.phase = "scoped" /\ member \in [Extension -> Draft] /\ managed \subseteq Extension
  BY DEF HookOK, RequestInv, ReadHalf, ServerTypes
<1>2. seen \in Contents
  <2>1. r.contents \in Contents \cup {None}
    BY <1>1 DEF Request
  <2>2. [member |-> None, listed |-> None] \in Contents
    BY DEF Contents
  <2> QED BY <2>1, <2>2
<1> DEFINE whole(now) == IF None \in {now.member, now.listed} THEN "scoped" ELSE "answered"
           new(now) == [r EXCEPT !.contents = now, !.phase = whole(now)]
<1>3. PICK now : now \in Contents /\ Becomes(r, new(now))
  <2>1. CASE ReadHalf(r, "member", member)
    <3> DEFINE now == [seen EXCEPT !["member"] = member]
    <3>1. Becomes(r, new(now))
      BY <2>1 DEF ReadHalf
    <3> HIDE DEF seen
    <3>2. now \in Contents
      BY <1>1, <1>2 DEF Contents
    <3> QED BY <3>1, <3>2
  <2>2. CASE ReadHalf(r, "listed", managed)
    <3> DEFINE now == [seen EXCEPT !["listed"] = managed]
    <3>1. Becomes(r, new(now))
      BY <2>2 DEF ReadHalf
    <3> HIDE DEF seen
    <3>2. now \in Contents
      BY <1>1, <1>2 DEF Contents
    <3> QED BY <3>1, <3>2
  <2> QED BY <2>1, <2>2
<1> HIDE DEF seen
<1> DEFINE phase == whole(now)
           then == [r EXCEPT !.contents = now, !.phase = phase]
<1>4. Becomes(r, then)
  BY <1>3
<1>5. /\ phase \in {"scoped", "answered"}
      /\ phase = "answered" => Full(now)
  <2>1. now.member \in [Extension -> Draft] \cup {None} /\ now.listed \in (SUBSET Extension) \cup {None}
    BY <1>3 DEF Contents
  <2>2. phase = "answered" => now.member # None /\ now.listed # None
    OBVIOUS
  <2>3. phase \in {"scoped", "answered"}
    OBVIOUS
  <2> HIDE DEF phase
  <2> QED BY <2>1, <2>2, <2>3 DEF Full
<1> HIDE DEF phase
<1>6. then \in Request /\ then.awaited = r.awaited /\ then.phase = phase /\ then.contents = now
  <2> DEFINE half == [r EXCEPT !.contents = now]
  <2>1. half \in Request
    BY <1>1, <1>3 DEF Request
  <2>2. half.awaited = r.awaited /\ half.contents = now
    BY <1>1 DEF Request
  <2>3. then = [half EXCEPT !.phase = phase]
    OBVIOUS
  <2> HIDE DEF half, then
  <2>4. phase \in {"sent", "scoped", "answered"}
    BY <1>5
  <2> QED BY <2>1, <2>2, <2>3, <2>4 DEF Request
<1> HIDE DEF then
<1>7. Fits(then)
  BY <1>5, <1>6 DEF Fits
<1> QED BY <1>4, <1>6, <1>7, Becoming

LEMMA ListKeeps ==
  ASSUME HookOK, ServerTypes, NEW r \in requests, List(r)
  PROVE  HookOK' /\ \A s \in requests' : s.awaited => \E q \in requests : q.awaited
<1>1. r \in Request /\ UNCHANGED assigned
  BY DEF HookOK, RequestInv, List
<1>2. CASE ScopeRequest(r)
  <2> DEFINE scope == Resolve(r.asked)
             refused == [r EXCEPT !.phase = "answered"]
             scoped == [r EXCEPT !.phase = "scoped", !.scope = scope, !.contexts = assigned]
  <2>1. Becomes(r, IF scope = None THEN refused ELSE scoped) /\ r.contents = None
    BY <1>2 DEF ScopeRequest, HookOK, RequestInv
  <2>2. assigned \in Seq(Context) /\ (scope # None => scope \in Context)
    <3>1. r.asked \in Context \cup {None} /\ assigned \in Assignments
      BY <1>1 DEF Request, HookOK, HookTypes
    <3> QED BY <3>1, ScopeIsContext
  <2> HIDE DEF scope
  <2>3. Fits(refused) /\ refused.awaited = r.awaited
    <3>1. refused \in Request /\ refused.contents = None /\ refused.awaited = r.awaited
      BY <1>1, <2>1 DEF Request
    <3> HIDE DEF refused
    <3> QED BY <3>1 DEF Fits
  <2>4. scope # None => Fits(scoped) /\ scoped.awaited = r.awaited
    <3>1. scope # None => /\ scoped \in Request /\ scoped.contents = None
                          /\ scoped.awaited = r.awaited
      BY <1>1, <2>1, <2>2 DEF Request
    <3> HIDE DEF scoped
    <3> QED BY <3>1 DEF Fits
  <2> HIDE DEF refused, scoped
  <2> QED BY <1>1, <2>1, <2>3, <2>4, Becoming
<1>3. CASE ReadHalf(r, "member", member) \/ ReadHalf(r, "listed", managed)
  BY <1>1, <1>3, HalfRead
<1>4. CASE RequestFails(r)
  <2> DEFINE lost == [r EXCEPT !.phase = "answered", !.contents = None]
  <2>1. Becomes(r, lost)
    BY <1>4 DEF RequestFails
  <2>2. lost \in Request /\ lost.contents = None /\ lost.awaited = r.awaited
    BY <1>1 DEF Request
  <2> HIDE DEF lost
  <2>3. Fits(lost)
    BY <2>2 DEF Fits
  <2> QED BY <1>1, <2>1, <2>2, <2>3, Becoming
<1> QED BY <1>2, <1>3, <1>4 DEF List

LEMMA DeliverKeeps ==
  ASSUME HookOK, NEW r \in requests, Deliver(r), UNCHANGED assigned
  PROVE  HookOK' /\ \A s \in requests' : s.awaited => \E q \in requests : q.awaited
<1>1. /\ r \in Request /\ Fits(r) /\ r.phase = "answered"
      /\ requests' = requests \ {r} /\ context' = context
      /\ failed' = IF r.latest THEN r.contents = None ELSE failed
      /\ loading' = (loading /\ ~r.latest)
  BY DEF HookOK, RequestInv, Fits, Deliver
<1>2. failed' \in BOOLEAN /\ loading' \in BOOLEAN
  BY <1>1 DEF HookOK, HookTypes, Request
<1>3. data' # None => Full(data'.contents)
  <2>1. CASE r.latest /\ r.contents # None
    <3>1. data' = [asked |-> r.asked, context |-> r.scope,
                   contexts |-> r.contexts, contents |-> r.contents]
      BY <2>1 DEF Deliver
    <3>2. data'.contents = r.contents
      BY <3>1
    <3> QED BY <1>1, <2>1, <3>2 DEF Fits
  <2>2. CASE ~(r.latest /\ r.contents # None)
    BY <2>2 DEF Deliver, HookOK, HookTypes
  <2> QED BY <2>1, <2>2
<1> QED BY <1>1, <1>2, <1>3 DEF HookOK, HookTypes, RequestInv

LEMMA RefreshKeeps ==
  ASSUME HookOK, NEW awaiting \in BOOLEAN, Refresh(awaiting), UNCHANGED assigned
  PROVE  /\ HookOK'
         /\ ~awaiting => \A s \in requests' : s.awaited => \E q \in requests : q.awaited
<1> DEFINE new == [latest |-> TRUE, awaited |-> awaiting, asked |-> context,
                   phase |-> "sent", scope |-> None, contexts |-> <<>>, contents |-> None]
           old(r) == [r EXCEPT !.latest = FALSE]
<1>1. new \in Request /\ new.phase = "sent" /\ new.contents = None /\ new.awaited = awaiting
  BY DEF Request, HookOK, HookTypes
<1>2. ASSUME NEW r \in Request
      PROVE  /\ old(r) \in Request /\ old(r).awaited = r.awaited /\ old(r).phase = r.phase
             /\ old(r).contents = r.contents
  BY DEF Request
<1>3. /\ requests' = {old(r) : r \in requests} \cup {new} /\ loading' = TRUE
      /\ UNCHANGED <<context, data, failed>>
  BY DEF Refresh, RefreshFor, Superseded
<1> HIDE DEF new, old
<1>4. \A s \in requests' : s = new \/ \E r \in requests : s = old(r)
  BY <1>3
<1>5. RequestInv'
  BY <1>1, <1>2, <1>4 DEF HookOK, RequestInv
<1>6. ~awaiting => \A s \in requests' : s.awaited => \E q \in requests : q.awaited
  BY <1>1, <1>2, <1>4 DEF HookOK, RequestInv
<1> QED BY <1>3, <1>5, <1>6 DEF HookOK, HookTypes

LEMMA RemountKeeps ==
  ASSUME HookOK, Remount, UNCHANGED assigned
  PROVE  HookOK'
<1> DEFINE new == [latest |-> TRUE, awaited |-> FALSE, asked |-> None,
                   phase |-> "sent", scope |-> None, contexts |-> <<>>, contents |-> None]
           left(r) == [r EXCEPT !.latest = FALSE, !.awaited = FALSE]
<1>1. new \in Request /\ new.phase = "sent" /\ new.contents = None
  BY DEF Request
<1>2. ASSUME NEW r \in Request
      PROVE  left(r) \in Request /\ left(r).phase = r.phase /\ left(r).contents = r.contents
  BY DEF Request
<1>3. /\ requests' = {left(r) : r \in requests} \cup {new} /\ loading' = TRUE
      /\ context' = None /\ data' = None /\ failed' = FALSE
  BY DEF Remount, RefreshFor
<1> HIDE DEF new, left
<1>4. \A s \in requests' : s = new \/ \E r \in requests : s = left(r)
  BY <1>3
<1>5. RequestInv'
  BY <1>1, <1>2, <1>4 DEF HookOK, RequestInv
<1> QED BY <1>3, <1>5 DEF HookOK, HookTypes

(* No step leaves a load or its data half an inventory, and none but the   *)
(* end of a save begins to await one.                                      *)
LEMMA HookInductive ==
  ASSUME HookOK, ServerTypes, [Next]_vars
  PROVE  HookOK' /\ (call' = None \/ \A s \in requests' : s.awaited => \E q \in requests : q.awaited)
<1>1. CASE UNCHANGED <<assigned, hookVars>>
  BY <1>1 DEF hookVars, HookOK, HookTypes, RequestInv
<1>2. ASSUME NEW r \in requests, List(r) \/ Load(r)
      PROVE  HookOK' /\ \A s \in requests' : s.awaited => \E q \in requests : q.awaited
  BY <1>2, ListKeeps, DeliverKeeps DEF Load
<1>3. CASE Reload
  BY <1>3, RefreshKeeps DEF Reload, ClickRefresh
<1>4. CASE Leave
  BY <1>4, RemountKeeps DEF Leave
<1>5. CASE Throw \/ Finish \/ Fail
  BY <1>5, RefreshKeeps DEF Throw, Finish, Fail, EndSave
<1> QED BY <1>1, <1>2, <1>3, <1>4, <1>5
        DEF Next, vars, Edit, Cancel, Save, Change, OtherChange, Send, Succeed, CarryOut, CarryOutLate
-----------------------------------------------------------------------------
(* The server and the editor. *)

LEMMA GivenUp ==
  ASSUME ServerTypes, EditorTypes, GiveUp
  PROVE  /\ late' \subseteq [extension: Extension, value: Draft]
         /\ \A q \in late' : \/ q \in late
                             \/ call # None /\ call.upstream = "pending" /\ q.extension = call.extension
<1>1. late \subseteq [extension: Extension, value: Draft]
  BY DEF ServerTypes
<1>2. CASE late' = late
  BY <1>1, <1>2
<1>3. CASE late' # late
  <2> DEFINE abandoned == [extension |-> call.extension, value |-> call.value]
  <2>1. call # None /\ call.upstream = "pending" /\ late' = late \cup {abandoned}
    BY <1>3 DEF GiveUp
  <2>2. call.extension \in Extension /\ call.value \in Draft
    BY <2>1 DEF EditorTypes, Call
  <2>3. abandoned \in [extension: Extension, value: Draft] /\ abandoned.extension = call.extension
    BY <2>2
  <2> HIDE DEF abandoned
  <2> QED BY <1>1, <2>1, <2>3
<1> QED BY <1>2, <1>3

(* A request that is carried out leaves the unmanaged without membership. *)
LEMMA Applied ==
  ASSUME ServerTypes, NEW request, request.extension \in Extension, request.value \in Draft,
         Possible(request), Apply(request)
  PROVE  /\ member' \in [Extension -> Draft] /\ member'[request.extension] = request.value
         /\ \A e \in Extension : e # request.extension => member'[e] = member[e]
         /\ \A e \in Extension \ managed : member'[e] = Out
BY DEF ServerTypes, Possible, Apply

LEMMA CarriedOut ==
  ASSUME ServerTypes, EditorTypes, CarryOut
  PROVE  /\ call # None /\ call.upstream = "pending" /\ call.extension \in Extension
         /\ call' \in Call /\ call'.extension = call.extension /\ call'.value = call.value
         /\ member' \in [Extension -> Draft] /\ \A e \in Extension \ managed : member'[e] = Out
         /\ \A e \in Extension : e # call.extension => member'[e] = member[e]
         /\ member'[call.extension] = IF call'.upstream = "done" THEN call.value
                                      ELSE member[call.extension]
<1>1. call # None /\ call \in Call /\ call.upstream = "pending"
  BY DEF CarryOut, EditorTypes
<1>2. call.extension \in Extension /\ call.value \in Draft
  BY <1>1 DEF Call
<1>3. ASSUME NEW u \in {"pending", "done", "refused", "lost"}
      PROVE  /\ [call EXCEPT !.upstream = u] \in Call
             /\ [call EXCEPT !.upstream = u].extension = call.extension
             /\ [call EXCEPT !.upstream = u].value = call.value
             /\ [call EXCEPT !.upstream = u].upstream = u
  BY <1>1 DEF Call
<1>4. \/ /\ Possible(call) /\ Apply(call) /\ call' = [call EXCEPT !.upstream = "done"]
      \/ /\ UNCHANGED member
         /\ call' = [call EXCEPT !.upstream = "refused"] \/ call' = [call EXCEPT !.upstream = "lost"]
  BY DEF CarryOut
<1>5. CASE Possible(call) /\ Apply(call) /\ call' = [call EXCEPT !.upstream = "done"]
  BY <1>1, <1>2, <1>3, <1>5, Applied
<1>6. CASE /\ UNCHANGED member
           /\ call' = [call EXCEPT !.upstream = "refused"] \/ call' = [call EXCEPT !.upstream = "lost"]
  BY <1>1, <1>2, <1>3, <1>6 DEF ServerTypes
<1> QED BY <1>4, <1>5, <1>6

LEMMA CarriedOutLate ==
  ASSUME ServerTypes, NEW q \in late, CarryOutLate(q)
  PROVE  /\ q.extension \in Extension /\ late' = late \ {q}
         /\ member' \in [Extension -> Draft] /\ \A e \in Extension \ managed : member'[e] = Out
         /\ \A e \in Extension : e # q.extension => member'[e] = member[e]
<1>1. q.extension \in Extension /\ q.value \in Draft
  BY DEF ServerTypes
<1>2. CASE Possible(q) /\ Apply(q)
  BY <1>1, <1>2, Applied DEF CarryOutLate
<1>3. CASE UNCHANGED member
  BY <1>1, <1>3 DEF CarryOutLate, ServerTypes
<1> QED BY <1>2, <1>3 DEF CarryOutLate

LEMMA ServerInductive ==
  ASSUME ServerTypes, EditorTypes, [Next]_vars
  PROVE  ServerTypes'
<1>1. CASE UNCHANGED pbxVars
  BY <1>1 DEF pbxVars, ServerTypes
<1>2. CASE Leave \/ Fail
  <2>1. GiveUp /\ UNCHANGED <<managed, member, others>>
    BY <1>2 DEF Leave, Fail
  <2> QED BY <2>1, GivenUp DEF ServerTypes
<1>3. CASE CarryOut
  <2>1. UNCHANGED <<managed, late, others>>
    BY <1>3 DEF CarryOut
  <2> QED BY <1>3, <2>1, CarriedOut DEF ServerTypes
<1>4. ASSUME NEW q \in late, CarryOutLate(q) PROVE ServerTypes'
  <2>1. UNCHANGED <<managed, others>>
    BY <1>4 DEF CarryOutLate
  <2> QED BY <1>4, <2>1, CarriedOutLate DEF ServerTypes
<1>5. ASSUME NEW e \in Extension, NEW value \in Draft, OtherChange(e, value)
      PROVE  ServerTypes'
  <2>1. others' \in 0..MaxOthers
    BY <1>5, BoundsAreNaturals DEF OtherChange, ServerTypes
  <2>2. member' = [member EXCEPT ![e] = value] /\ late' = late
    BY <1>5 DEF OtherChange
  <2>3. \/ e \in managed /\ UNCHANGED managed
        \/ value = Out /\ managed' = managed \cup {e}
        \/ value = Out /\ managed' = managed \ {e}
    BY <1>5 DEF OtherChange
  <2> QED BY <2>1, <2>2, <2>3 DEF ServerTypes
<1> QED BY <1>1, <1>2, <1>3, <1>4, <1>5
        DEF Next, vars, List, Load, Reload, Edit, Cancel, Save, Change, Send, Throw, Finish, Succeed

(* What the editor may do. *)
Closes == editing' = FALSE /\ drafts' = <<>> /\ baseline' = <<>>

LEMMA EditorInductive ==
  ASSUME HookOK, ServerTypes, EditorTypes, HistoryTypes, AwaitInv, CallInv, DraftInv, [Next]_vars
  PROVE  EditorTypes' /\ HistoryTypes'
<1> USE DEF EditorTypes, HistoryTypes
<1>1. CASE UNCHANGED <<editorVars, history>>
  BY <1>1 DEF editorVars, history
<1>2. ASSUME NEW r \in requests, Load(r) PROVE EditorTypes' /\ HistoryTypes'
  <2>1. lock' = (lock /\ ~r.awaited)
        /\ UNCHANGED <<editing, drafts, baseline, todo, call, touched, foreign, unsure>>
    BY <1>2 DEF Load, history
  <2>2. call # None => ~r.awaited
    BY DEF AwaitInv
  <2>3. lock' \in BOOLEAN /\ (call # None => lock')
    BY <2>1, <2>2
  <2> QED BY <2>1, <2>3
<1>3. CASE Edit
  <2>1. /\ data.contents.listed \subseteq Extension
        /\ data.contents.member \in [Extension -> Draft] /\ ~lock
    BY <1>3 DEF Edit, Writable, HookOK, HookTypes, Full
  <2>2. late \subseteq [extension: Extension, value: Draft]
    BY DEF ServerTypes
  <2> QED BY <1>3, <2>1, <2>2 DEF Edit
<1>4. ASSUME Close, call' = None, todo' = {} \/ todo' = todo, lock' = FALSE \/ lock' = lock
      PROVE  EditorTypes' /\ HistoryTypes'
  <2>1. DOMAIN drafts' = {} /\ DOMAIN baseline' = {}
    BY <1>4 DEF Close
  <2>2. lock' \in BOOLEAN
    <3>1. CASE lock' = lock
      BY <3>1
    <3>2. CASE lock' = FALSE
      BY <3>2
    <3> QED BY <1>4, <3>1, <3>2
  <2> QED BY <1>4, <2>1, <2>2 DEF Close
<1>5. CASE Cancel
  BY <1>4, <1>5 DEF Cancel
<1>6. CASE Leave
  BY <1>4, <1>6 DEF Leave
<1>7. CASE Finish
  BY <1>4, <1>7 DEF Finish, EndSave
<1>8. ASSUME NEW e \in Extension, NEW value \in Draft, Change(e, value)
      PROVE  EditorTypes' /\ HistoryTypes'
  BY <1>8 DEF Change
<1>9. CASE Save
  <2>1. data.contents.listed \subseteq Extension
    BY <1>9 DEF Save, Writable, HookOK, HookTypes, Full
  <2> QED BY <1>9, <2>1 DEF Save, history
<1>10. ASSUME NEW e \in Extension, Send(e) PROVE EditorTypes' /\ HistoryTypes'
  <2>1. drafts[e] \in Draft /\ lock /\ e \in DOMAIN drafts
    BY <1>10 DEF Send, Saving, NoDraft
  <2>2. call' \in Call
    BY <1>10, <2>1 DEF Send, Call
  <2>3. editing
    BY <2>1 DEF DraftInv
  <2> QED BY <1>10, <2>1, <2>2, <2>3 DEF Send, history
<1>11. CASE Throw \/ Fail
  <2>1. call' = None /\ todo' = {} /\ UNCHANGED <<editing, drafts, baseline, lock, touched, foreign>>
    BY <1>11 DEF Throw, Fail, EndSave, history
  <2>2. unsure' \subseteq Extension
    BY <1>11 DEF Throw, Fail, history, Call
  <2> QED BY <2>1, <2>2
<1>12. CASE Succeed
  BY <1>12 DEF Succeed, history, CallInv
<1>13. CASE CarryOut
  <2>1. call' \in Call /\ call # None
    BY <1>13, CarriedOut
  <2> QED BY <1>13, <2>1 DEF CarryOut, history
<1>14. ASSUME NEW e \in Extension, NEW value \in Draft, OtherChange(e, value)
       PROVE  EditorTypes' /\ HistoryTypes'
  BY <1>14 DEF OtherChange, editorVars
<1> QED BY <1>1, <1>2, <1>3, <1>5, <1>6, <1>7, <1>8, <1>9, <1>10, <1>11, <1>12, <1>13, <1>14
        DEF Next, vars, List, Reload, CarryOutLate
-----------------------------------------------------------------------------
(* The save. *)

LEMMA AwaitInductive ==
  ASSUME IInv, [Next]_vars
  PROVE  AwaitInv'
<1>1. HookOK /\ ServerTypes
  BY Parts DEF IInv, HookOK
<1>2. call' = None \/ \A s \in requests' : s.awaited => \E q \in requests : q.awaited
  BY <1>1, HookInductive
<1>3. ASSUME NEW e \in Extension, Send(e) PROVE AwaitInv'
  BY <1>3 DEF Send, Saving, AwaitInv, hookVars
<1>4. CASE call # None /\ call' # None
  BY <1>2, <1>4 DEF IInv, AwaitInv
<1>5. CASE call' = None
  BY <1>5 DEF AwaitInv
<1>6. CASE call = None /\ call' # None
  <2>1. \E e \in Extension : Send(e)
    BY <1>6 DEF Next, vars, editorVars, List, Load, Reload, Edit, Cancel, Save, Leave, Change,
                OtherChange, Throw, Finish, Succeed, Fail, EndSave, CarryOut, CarryOutLate
  <2> QED BY <1>3, <2>1
<1> QED BY <1>4, <1>5, <1>6

(* The conjuncts about the editor, the request and OfficePulse. *)
EditorInv == DraftInv /\ LateInv /\ CallInv /\ BaselineIsTruth /\ UntouchedLeftAlone

LEMMA EditorInvInductive ==
  ASSUME IInv, [Next]_vars
  PROVE  EditorInv'
<1>1. /\ HookTypes /\ ServerTypes /\ EditorTypes /\ HistoryTypes
      /\ HookOK /\ AwaitInv /\ DraftInv /\ LateInv /\ CallInv /\ BaselineIsTruth /\ UntouchedLeftAlone
  BY Parts DEF IInv, HookOK
<1>2. /\ DOMAIN drafts \subseteq Extension /\ DOMAIN baseline = DOMAIN drafts
      /\ call # None => lock /\ editing /\ call \in Call /\ call.extension \in Extension
  BY <1>1 DEF EditorTypes, Call
<1> USE DEF EditorInv, DraftInv, LateInv, CallInv, BaselineIsTruth, UntouchedLeftAlone, Disturbed
(* A step that leaves the editor, the memberships and the request alone. *)
<1>3. ASSUME UNCHANGED <<member, late, editing, drafts, baseline, call, history>>
      PROVE  EditorInv'
  BY <1>1, <1>3 DEF history
<1>4. CASE UNCHANGED vars
  BY <1>3, <1>4 DEF vars, pbxVars, editorVars
<1>5. ASSUME NEW r \in requests, List(r) \/ Load(r) PROVE EditorInv'
  BY <1>3, <1>5 DEF List, Load, pbxVars, editorVars
<1>6. CASE Reload \/ Save
  BY <1>3, <1>6 DEF Reload, Save, pbxVars, editorVars
<1>7. CASE Edit
  <2>1. /\ data.contents.listed \subseteq Extension
        /\ data.contents.member \in [Extension -> Draft] /\ ~lock /\ call = None
    BY <1>1, <1>2, <1>7 DEF Edit, Writable, HookTypes, Full
  <2>2. /\ editing' = TRUE /\ drafts' = [e \in data.contents.listed |-> data.contents.member[e]]
        /\ baseline' = drafts' /\ touched' = {}
        /\ foreign' = {e \in Extension : member[e] # data.contents.member[e]}
        /\ unsure' = {request.extension : request \in late}
        /\ UNCHANGED <<member, late, call>>
    BY <1>7 DEF Edit, pbxVars
  <2> QED BY <2>1, <2>2
<1>8. ASSUME Close, call' = None PROVE EditorInv'
  BY <1>8 DEF Close
<1>9. CASE Cancel
  <2>1. call' = None
    BY <1>2, <1>9 DEF Cancel
  <2> QED BY <1>8, <1>9, <2>1 DEF Cancel
<1>10. CASE Leave
  BY <1>8, <1>10 DEF Leave
<1>11. CASE Finish
  BY <1>8, <1>11 DEF Finish, EndSave
<1>12. ASSUME NEW e \in Extension, NEW value \in Draft, Change(e, value)
       PROVE  EditorInv'
  <2>1. /\ editing /\ ~lock /\ e \in DOMAIN drafts /\ drafts' = [drafts EXCEPT ![e] = value]
        /\ touched' = touched \cup {e}
        /\ UNCHANGED <<member, late, editing, baseline, call, foreign, unsure>>
    BY <1>12 DEF Change, pbxVars
  <2>2. call = None
    BY <1>2, <2>1
  <2> QED BY <1>1, <2>1, <2>2
<1>13. ASSUME NEW e \in Extension, Send(e) PROVE EditorInv'
  <2>1. /\ e \in DOMAIN drafts /\ drafts[e] # baseline[e] /\ call = None
        /\ call' = [extension |-> e, value |-> drafts[e], upstream |-> "pending"]
        /\ UNCHANGED <<member, late, editing, drafts, baseline, touched, foreign, unsure>>
    BY <1>13 DEF Send, Saving, Unfinished, NoDraft, Changed, pbxVars, history
  <2>2. call'.extension = e /\ call'.value = drafts[e] /\ call'.upstream = "pending"
    BY <2>1
  <2> QED BY <1>1, <1>2, <2>1, <2>2
<1>14. CASE Succeed
  <2>1. /\ call # None /\ call.upstream = "done" /\ call' = None
        /\ baseline' = [baseline EXCEPT ![call.extension] = call.value]
        /\ UNCHANGED <<member, late, editing, drafts, touched, foreign, unsure>>
    BY <1>14 DEF Succeed, pbxVars, history
  <2> QED BY <1>1, <1>2, <2>1
<1>15. CASE Throw
  <2>1. call = None /\ call' = None
        /\ UNCHANGED <<member, late, editing, drafts, baseline, touched, foreign, unsure>>
    BY <1>15 DEF Throw, Saving, EndSave, pbxVars, history
  <2> QED BY <1>1, <2>1
<1>16. CASE Fail
  <2>1. /\ call # None /\ call' = None
        /\ unsure' = IF call.upstream \in {"pending", "done"}
                     THEN unsure \cup {call.extension} ELSE unsure
        /\ UNCHANGED <<member, editing, drafts, baseline, touched, foreign>>
    BY <1>16 DEF Fail, EndSave
  <2>2. \A q \in late' : \/ q \in late
                         \/ call # None /\ call.upstream = "pending" /\ q.extension = call.extension
    BY <1>1, <1>16, GivenUp DEF Fail
  <2>3. DraftInv' /\ UntouchedLeftAlone' /\ CallInv'
    BY <1>1, <2>1
  <2>4. LateInv'
    BY <1>1, <2>1, <2>2
  <2>5. BaselineIsTruth'
    BY <1>1, <1>2, <2>1
  <2> QED BY <2>3, <2>4, <2>5
<1>17. CASE CarryOut
  <2>1. /\ call # None /\ call.upstream = "pending" /\ call.extension \in Extension
        /\ call'.extension = call.extension /\ call'.value = call.value
        /\ \A e \in Extension : e # call.extension => member'[e] = member[e]
        /\ member'[call.extension] = IF call'.upstream = "done" THEN call.value
                                     ELSE member[call.extension]
    BY <1>1, <1>17, CarriedOut
  <2>2. UNCHANGED <<late, editing, drafts, baseline, touched, foreign, unsure>>
    BY <1>17 DEF CarryOut, history
  <2>3. call' # None
    BY <1>1, <1>17, CarriedOut, NoneIsNoCall
  <2> QED BY <1>1, <1>2, <2>1, <2>2, <2>3
<1>18. ASSUME NEW q \in late, CarryOutLate(q) PROVE EditorInv'
  <2>1. /\ q.extension \in Extension /\ late' = late \ {q}
        /\ \A e \in Extension : e # q.extension => member'[e] = member[e]
    BY <1>1, <1>18, CarriedOutLate
  <2>2. UNCHANGED <<editing, drafts, baseline, call, touched, foreign, unsure>>
    BY <1>18 DEF CarryOutLate, editorVars, history
  <2>3. editing => q.extension \in unsure
    BY <1>1
  <2>4. DraftInv' /\ LateInv' /\ UntouchedLeftAlone'
    BY <1>1, <2>1, <2>2
  <2>5. CallInv'
    BY <1>1, <1>2, <2>1, <2>2, <2>3
  <2>6. BaselineIsTruth'
    BY <1>1, <1>2, <2>1, <2>2, <2>3
  <2> QED BY <2>4, <2>5, <2>6
<1>19. ASSUME NEW e \in Extension, NEW value \in Draft, OtherChange(e, value)
       PROVE  EditorInv'
  <2>1. /\ member' = [member EXCEPT ![e] = value]
        /\ foreign' = IF editing THEN foreign \cup {e} ELSE foreign
        /\ UNCHANGED <<late, editing, drafts, baseline, call, touched, unsure>>
    BY <1>19 DEF OtherChange, editorVars
  <2>2. \A x \in Extension : x # e => member'[x] = member[x]
    BY <1>1, <2>1 DEF ServerTypes
  <2>3. editing => e \in foreign' /\ foreign \subseteq foreign'
    BY <2>1
  <2>4. ~editing => call = None
    BY <1>2
  <2>5. DraftInv' /\ LateInv' /\ UntouchedLeftAlone'
    BY <1>1, <2>1
  <2>6. CallInv'
    BY <1>1, <1>2, <2>1, <2>2, <2>3, <2>4
  <2>7. BaselineIsTruth'
    BY <1>1, <1>2, <2>1, <2>2, <2>3, <2>4
  <2> QED BY <2>5, <2>6, <2>7
<1> QED BY <1>4, <1>5, <1>6, <1>7, <1>9, <1>10, <1>11, <1>12, <1>13, <1>14, <1>15, <1>16, <1>17,
           <1>18, <1>19 DEF Next

LEMMA Initially == Init => IInv
<1> SUFFICES ASSUME Init PROVE IInv
  OBVIOUS
<1> DEFINE first == [latest |-> TRUE, awaited |-> FALSE, asked |-> None,
                     phase |-> "sent", scope |-> None, contexts |-> <<>>, contents |-> None]
<1>1. /\ assigned \in Assignments /\ context = None /\ data = None /\ failed = FALSE
      /\ loading = TRUE /\ requests = {first}
  BY DEF Init, InventoryInit
<1>2. first \in Request /\ ~first.awaited /\ first.phase = "sent" /\ first.contents = None
  BY DEF Request
<1> HIDE DEF first
<1>3. RequestInv /\ AwaitInv
  BY <1>1, <1>2 DEF RequestInv, AwaitInv
<1>4. DOMAIN drafts = {} /\ DOMAIN baseline = {}
  BY DEF Init
<1>5. HookTypes /\ ServerTypes /\ EditorTypes /\ HistoryTypes
  <2>1. 0 \in 0..MaxOthers
    BY BoundsAreNaturals
  <2> QED BY <1>1, <1>4, <2>1 DEF Init, HookTypes, ServerTypes, EditorTypes, HistoryTypes
<1>6. DraftInv /\ LateInv /\ CallInv /\ BaselineIsTruth /\ UntouchedLeftAlone
  BY <1>4 DEF Init, DraftInv, LateInv, CallInv, BaselineIsTruth, UntouchedLeftAlone
<1> QED BY <1>3, <1>5, <1>6, Parts DEF IInv

LEMMA NextInductive == IInv /\ [Next]_vars => IInv'
<1> SUFFICES ASSUME IInv, [Next]_vars PROVE IInv'
  OBVIOUS
<1>1. HookOK /\ ServerTypes /\ EditorTypes /\ HistoryTypes
  BY Parts DEF IInv, HookOK
<1>2. HookOK'
  BY <1>1, HookInductive
<1>3. ServerTypes' /\ EditorTypes' /\ HistoryTypes'
  BY <1>1, ServerInductive, EditorInductive DEF IInv
<1>4. TypeOK'
  <2>1. HookTypes'
    BY <1>2 DEF HookOK
  <2> QED BY <1>3, <2>1
       DEF TypeOK, HookTypes, ServerTypes, EditorTypes, HistoryTypes, Full
<1> QED BY <1>2, <1>4, AwaitInductive, EditorInvInductive DEF IInv, HookOK, EditorInv

LEMMA InvariantHolds == Spec => []IInv
BY Initially, NextInductive, PTL DEF Spec
-----------------------------------------------------------------------------
(* Repeating a save that failed half-way sends exactly what is missing:    *)
(* the baseline is what OfficePulse has, but for what others changed or    *)
(* what has a request of unknown fate, and only edited members are sent    *)
(* (QueuesScreen's per-operation baseline).                                *)
THEOREM SendsWhatIsMissingHolds == Spec => []SendsWhatIsMissing
<1>1. IInv => SendsWhatIsMissing
  BY DEF IInv, SendsWhatIsMissing
<1> QED BY <1>1, InvariantHolds, PTL

(* A save that closes its editor has left every member it went through as  *)
(* it was drafted, with the same two exceptions (saveMembers).             *)
THEOREM SavedAsDraftedHolds == Spec => SavedAsDrafted
<1> DEFINE Saved == lock /\ lock' /\ editing /\ ~editing' =>
                      \A e \in todo \ Disturbed : member[e] = drafts[e]
<1>1. ASSUME IInv, [Next]_vars, lock, lock', editing, ~editing'
      PROVE  \A e \in todo \ Disturbed : member[e] = drafts[e]
  <2>1. Finish
    BY <1>1 DEF Next, vars, editorVars, List, Load, Reload, Edit, Cancel, Save, Leave, Change,
                OtherChange, Send, Throw, Succeed, Fail, EndSave, CarryOut, CarryOutLate
  <2>2. call = None /\ \A e \in todo : e \in DOMAIN drafts /\ drafts[e] = baseline[e]
    BY <2>1 DEF Finish, Saving, Unfinished, NoDraft, Changed
  <2>3. DOMAIN baseline = DOMAIN drafts
    BY <1>1 DEF IInv, TypeOK
  <2> QED BY <1>1, <2>2, <2>3 DEF IInv, BaselineIsTruth
<1>2. IInv /\ [Next]_vars => [Saved]_vars
  BY <1>1
<1> QED BY <1>2, InvariantHolds, PTL DEF Spec, SavedAsDrafted
=============================================================================
