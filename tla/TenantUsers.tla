----------------------------- MODULE TenantUsers -----------------------------
(***************************************************************************)
(* The Users screen of a tenant (web/src/screens/TenantUsersScreen.tsx)    *)
(* and the BFF's routes behind it (server/src/admin/routes.ts) over the    *)
(* sessions of Login and the memberships Identity keeps: what one          *)
(* administrator does on this screen decides who the others are, and may   *)
(* end somebody's access, their own included.                              *)
(*                                                                         *)
(* A browser shows one screen.  What the form holds beside the role - the  *)
(* name, and the email of an invitation, which Identity may resolve to     *)
(* another person - is left out: saving without choosing another role      *)
(* stands for changing those.  The reads that let a call in are one step.  *)
(***************************************************************************)
EXTENDS Login

VARIABLES
    page,   \* of each browser: its Users screen
    calls,  \* the screens' calls that are under way
    edits   \* how many of them were sent to change something

vars == <<bounds, signInVars, members, turns, page, calls, edits>>
loginVars == <<bounds, signInVars>>

(* Two of a page's fields are kept for the properties: `sent` numbers its  *)
(* calls, and `doubt` says that since the list was last loaded with        *)
(* nothing else under way, calls of the page overlapped or got no answer.  *)
(* So are two of a form's: `alone` says that it was opened with neither    *)
(* call nor doubt, and `sure` that there has been no doubt since either.   *)
Closed == [open |-> FALSE, users |-> None, super |-> FALSE, form |-> None,
           busy |-> FALSE, sent |-> 0, doubt |-> FALSE]

Form == [user: User, role: Roles, version: Nat, alone: BOOLEAN, sure: BOOLEAN]
ASSUME NoneIsNoForm == None \notin Form

Mine(b) == {c \in calls : c.browser = b}
Assignable(b) == {"user", "admin"} \cup (IF page[b].super THEN {"super"} ELSE {})
Editable(b) == {u \in User : page[b].users # None /\ page[b].users[u].role \in Assignable(b)}

-----------------------------------------------------------------------------
(* The screen                                                              *)

(* A call carries the cookie its browser has when it is sent.              *)
Call(b, kind, user, role) ==
    [browser |-> b, session |-> sessionCookie[b], number |-> page[b].sent,
     kind |-> kind, user |-> user, role |-> role,
     form |-> IF kind = "load" THEN None ELSE page[b].form,
     stage |-> "sent", lost |-> FALSE, super |-> FALSE, users |-> None]

Doubting(p, doubt) ==
    [p EXCEPT !.doubt = @ \/ doubt,
              !.form = IF doubt /\ @ # None THEN [@ EXCEPT !.sure = FALSE] ELSE @]

Sending(p, kind, others) ==
    [Doubting(p, others # {}) EXCEPT !.sent = @ + 1,
                                     !.doubt = @ /\ ~(kind = "load" /\ others = {})]

Mount(b) ==
    /\ bounds.edits > 0 /\ sessionCookie[b] # None /\ ~page[b].open
    /\ calls' = calls \cup {Call(b, "load", None, None)}
    /\ page' = [page EXCEPT ![b] = Sending([@ EXCEPT !.open = TRUE], "load", {})]
    /\ UNCHANGED <<loginVars, members, turns, edits>>

Edit(b, u) ==
    /\ u \in Editable(b)
    /\ page' = [page EXCEPT ![b].form =
         [user |-> u, role |-> page[b].users[u].role, version |-> page[b].users[u].version,
          alone |-> Mine(b) = {} /\ ~page[b].doubt, sure |-> Mine(b) = {} /\ ~page[b].doubt]]
    /\ UNCHANGED <<loginVars, members, turns, calls, edits>>

Cancel(b) ==
    /\ page[b].form # None /\ ~page[b].busy
    /\ page' = [page EXCEPT ![b].form = None]
    /\ UNCHANGED <<loginVars, members, turns, calls, edits>>

Changes(b, kind, u, role, busy) ==
    /\ edits < bounds.edits /\ edits' = edits + 1
    /\ calls' = calls \cup {Call(b, kind, u, role)}
    /\ page' = [page EXCEPT ![b] = Sending([@ EXCEPT !.busy = busy], kind, Mine(b))]
    /\ UNCHANGED <<loginVars, members, turns>>

(* One form edits a member or adds one; saving either is the screen's only *)
(* lock.  A role that can no longer be chosen is sent if it was filled in. *)
Save(b, role) ==
    /\ page[b].open /\ ~page[b].busy
    /\ IF page[b].form = None
       THEN role \in Assignable(b) /\ \E u \in User : Changes(b, "add", u, role, TRUE)
       ELSE /\ role \in Assignable(b) \cup {page[b].form.role}
            /\ Changes(b, "save", page[b].form.user, role, TRUE)

Remove(b, u) ==
    /\ u \in Editable(b)
    /\ Changes(b, "remove", u, "none", page[b].busy)

-----------------------------------------------------------------------------
(* The routes                                                              *)

(* Only a super admin makes a super admin, or removes herself.             *)
MayGrant(c, u) == c.role = "super" => members[u].role = "super"
MayRemove(c, u) == c.kind = "remove" /\ c.user = u => members[u].role = "super"

LetIn(c) ==
    /\ c.session # None /\ central[c.session] = "live"
    /\ LET u == logins[c.session].user IN Administers(u) /\ MayGrant(c, u) /\ MayRemove(c, u)

Becomes(c, d) == calls' = (calls \ {c}) \cup d

(* The end of a call nobody waits for leaves nothing behind.               *)
Ends(c, d) == Becomes(c, IF c.lost THEN {} ELSE {d})

Authorise(c) ==
    /\ c.stage = "sent"
    /\ IF LetIn(c)
       THEN Becomes(c, {[c EXCEPT !.stage = "asked",
                         !.super = members[logins[c.session].user].role = "super"]})
       ELSE Ends(c, [c EXCEPT !.stage = "refused"])
    /\ UNCHANGED <<loginVars, members, turns, page, edits>>

ListMembers(c) ==
    /\ c.stage = "asked" /\ c.kind = "load"
    /\ Ends(c, [c EXCEPT !.stage = "done", !.users = members])
    /\ UNCHANGED <<loginVars, members, turns, page, edits>>

(* Identity keeps no version of a membership: it overwrites what is there, *)
(* for whoever the email belongs to ...                                    *)
Overwrite(c) ==
    /\ c.stage = "asked"
    /\ members' = [members EXCEPT ![c.user] =
         [role |-> c.role, version |-> @.version + 1, by |-> c.browser]]
    /\ Ends(c, [c EXCEPT !.stage = "done"])
    /\ UNCHANGED <<loginVars, turns, page, edits>>

AddMember(c) == c.kind = "add" /\ Overwrite(c)
EditMember(c) == c.kind = "save" /\ Overwrite(c)
RemoveMember(c) == c.kind = "remove" /\ Overwrite(c)

(* ... or refuses, for the last administrator or for rules of its own.     *)
Refuse(c) ==
    /\ c.stage = "asked" /\ c.kind # "load"
    /\ Ends(c, [c EXCEPT !.stage = "refused"])
    /\ UNCHANGED <<loginVars, members, turns, page, edits>>

-----------------------------------------------------------------------------
(* Answers                                                                 *)

LoadAnswered(c) ==
    /\ c.kind = "load" /\ c.stage = "done" /\ ~c.lost
    /\ page' = [page EXCEPT ![c.browser].users = c.users, ![c.browser].super = c.super,
                            ![c.browser].busy = @ /\ c.user = None]
    /\ Becomes(c, {})
    /\ UNCHANGED <<loginVars, members, turns, edits>>

(* Fault: removing somebody closes the form, whoever it is of. *)
CloseAny(c) == None

(* Fault: the form of who was removed stays open. *)
KeepForm(c) == IF c.kind = "remove" THEN page[c.browser].form ELSE None

(* A save closes the form, a removal that of who it removed: whichever was *)
(* open when it was confirmed, and whatever is open now.                   *)
FormAfter(c) ==
    IF c.kind # "remove" \/ (c.form # None /\ c.form.user = c.user)
    THEN None ELSE page[c.browser].form

(* Fault: a removal is taken out of the list that is shown. *)
ReloadSaved(c) == IF c.kind = "remove" THEN {} ELSE {Call(c.browser, "load", c.user, None)}

(* The list is loaded again; of a save, under its lock.                    *)
Reload(c) ==
    {Call(c.browser, "load", IF c.kind = "remove" THEN None ELSE c.user, None)}

ChangeAnswered(c) ==
    /\ c.kind # "load" /\ c.stage = "done" /\ ~c.lost
    /\ page' = [page EXCEPT ![c.browser] =
         Sending([@ EXCEPT !.form = FormAfter(c)], "load", Mine(c.browser) \ {c})]
    /\ Becomes(c, Reload(c))
    /\ UNCHANGED <<loginVars, members, turns, edits>>

(* Fault: a lock is released by an answer only. *)
StaysLocked(c) == [Doubting(page[c.browser], c.kind = "load" \/ c.stage # "refused")
    EXCEPT !.busy = @ /\ (c.kind = "remove" \/ c.user = None \/ c.stage = "lost")]

(* A failure is shown, and releases the lock of the save it belongs to.    *)
Failing(c) == [Doubting(page[c.browser], c.kind = "load" \/ c.stage # "refused")
    EXCEPT !.busy = @ /\ (c.kind = "remove" \/ c.user = None)]

Failed(c) ==
    /\ c.stage = "refused" /\ ~c.lost
    /\ page' = [page EXCEPT ![c.browser] = Failing(c)]
    /\ Becomes(c, {})
    /\ UNCHANGED <<loginVars, members, turns, edits>>

(* The page gets no answer; the call may be carried out all the same.      *)
Lost(c) ==
    /\ ~c.lost /\ Turn
    /\ page' = [page EXCEPT ![c.browser] = Failing([c EXCEPT !.stage = "lost"])]
    /\ Becomes(c, IF c.stage \in {"sent", "asked"} THEN {[c EXCEPT !.lost = TRUE]} ELSE {})
    /\ UNCHANGED <<loginVars, members, edits>>

(* A screen that was opened before, and has just been loaded.              *)
Loaded(b) == [Closed EXCEPT !.open = TRUE, !.users = members, !.sent = 1,
                            !.super = members[logins[sessionCookie[b]].user].role = "super"]

Init ==
    /\ LoginInit
    /\ page = [b \in Browser |-> IF b \in bounds.open THEN Loaded(b) ELSE Closed]
    /\ calls = {} /\ edits = 0

Next ==
    \/ SigningIn /\ UNCHANGED <<page, calls, edits>>
    \/ \E b \in Browser :
        \/ Mount(b) \/ Cancel(b)
        \/ \E u \in User : Edit(b, u) \/ Remove(b, u)
        \/ \E role \in Roles : Save(b, role)
    \/ \E c \in calls :
        \/ Authorise(c) \/ Refuse(c) \/ ListMembers(c)
        \/ AddMember(c) \/ EditMember(c) \/ RemoveMember(c)
        \/ LoadAnswered(c) \/ ChangeAnswered(c) \/ Failed(c) \/ Lost(c)

Spec == Init /\ [][Next]_vars

-----------------------------------------------------------------------------
(* Properties                                                              *)

TypeOK ==
    /\ SessionsTyped
    /\ \A u \in User : members[u].role \in Roles /\ members[u].by \in Browser \cup {None}
    /\ \A b \in Browser :
        /\ page[b].form = None \/ page[b].form.user \in User

(* The lock is held by a save, or by the reload after it, that will be     *)
(* answered: the screen does not stay locked for want of an answer, in     *)
(* whatever order its calls end (TenantUsersScreen.tsx:54-91).             *)
LockIsHeld ==
    \A b \in Browser : page[b].busy =>
        \E c \in Mine(b) : ~c.lost /\ c.kind # "remove" /\ c.user # None

(* A screen at rest shows what it did itself: the list misses no change    *)
(* this screen made after it was read, unless calls of it overlapped or    *)
(* one got no answer (TenantUsersScreen.tsx:22-33, 80, 104).               *)
ListSettles ==
    \A b \in Browser :
        page[b].users # None /\ Mine(b) = {} /\ ~page[b].doubt =>
            \A u \in User : page[b].users[u] = members[u] \/ members[u].by # b

(* A screen at rest is unlocked and misses nothing it did itself.          *)
ScreenAtRest == TypeOK /\ LockIsHeld /\ ListSettles

(* Saving a form without choosing another role changes the role only back  *)
(* from what another administrator made of it since the list was loaded:   *)
(* never from what this screen made of it, unless calls of the screen      *)
(* overlapped, or one got no answer, when the form was opened or since     *)
(* (TenantUsersScreen.tsx:42-53, 66-70; routes.ts:381-394).                *)
NoBlindSave ==
    [][\A c \in calls : EditMember(c) =>
        LET then == members[c.user] IN
        (c.role = c.form.role /\ then.role # c.role
            /\ c.form.sure /\ ~page[c.browser].doubt) =>
            then.version > c.form.version /\ then.by # c.browser]_vars

(* A form closes by its own Cancel, save or removal; the answer to another *)
(* call closes it only if it was opened while that call was under way      *)
(* (TenantUsersScreen.tsx:79, 103).                                        *)
ClosedByItsOwn ==
    [][\A b \in Browser :
        page[b].form # None /\ page'[b].form = None =>
            \/ Cancel(b) \/ ~page[b].form.alone
            \/ \E c \in Mine(b) \ calls' : c.user = page[b].form.user]_vars

(* A form is saved as it was meant and closed when it was meant.           *)
FormsAreFaithful == NoBlindSave /\ ClosedByItsOwn
=============================================================================
