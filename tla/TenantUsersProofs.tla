-------------------------- MODULE TenantUsersProofs --------------------------
(***************************************************************************)
(* The safety of signing in and of the Users screen, for any number of     *)
(* browsers, users, logins, requests, calls and failures.                  *)
(***************************************************************************)
EXTENDS TenantUsers, TLAPS

Session == {"none", "live", "revoked"}
SignOuts == {"sign-out", "signed-out", "not-signed-out"}
Past == {"redeem", "introspect", "revoke", "ok", "denied"}

ALogin == [browser: Browser, user: User \cup {None}, state: {"issued", "consumed", "expired"},
           back: BOOLEAN, spoiled: BOOLEAN]
ARequest == [browser: Browser, login: Nat, cookie: Nat \cup {None}, stage: Awaits \cup Answers,
             failed: BOOLEAN, answered: BOOLEAN]

SignInTypes ==
    /\ bounds \in Beginnings /\ bounds.logins \in Nat
    /\ logins \in Seq(ALogin) /\ Len(logins) <= bounds.logins
    /\ requests \in Seq(ARequest)
    /\ stateCookie \in [Browser -> Nat \cup {None}] /\ sessionCookie \in [Browser -> Nat \cup {None}]
    /\ central \in [1..bounds.logins -> Session]
    /\ dropped \subseteq DOMAIN logins

(* The cookies of a browser are of its own logins, and its session began.  *)
CookieInv ==
    \A b \in Browser :
       /\ stateCookie[b] # None =>
            stateCookie[b] \in DOMAIN logins /\ logins[stateCookie[b]].browser = b
       /\ sessionCookie[b] # None =>
            /\ sessionCookie[b] \in DOMAIN logins /\ logins[sessionCookie[b]].browser = b
            /\ central[sessionCookie[b]] # "none"

(* How far a request is tells what its login and its session are.          *)
RequestFits(q) ==
    /\ q.login \in DOMAIN logins
    /\ q.cookie # None => q.cookie \in DOMAIN logins /\ logins[q.cookie].browser = q.browser
    /\ q.stage \in Past =>
         logins[q.login].state = "consumed" /\ logins[q.login].browser = q.browser
    /\ q.stage \notin SignOuts => logins[q.login].back
    /\ q.stage \in SignOuts \cup {"introspect", "revoke", "ok", "denied"} => central[q.login] # "none"
    /\ q.stage = "redeem" => central[q.login] = "none"
    /\ q.stage \in {"denied", "signed-out"} => central[q.login] = "revoked"
    /\ q.answered => q.stage \in Answers
RequestsInv == \A r \in DOMAIN requests : RequestFits(requests[r])

(* Another callback of the same login. *)
Rival(r) ==
    \E q \in DOMAIN requests : /\ q # r /\ requests[q].login = requests[r].login
                               /\ requests[q].stage \notin SignOuts

(* Only a consumed state has a session, and a callback consumed it. *)
ConsumedInv ==
    \A l \in DOMAIN logins :
       /\ central[l] # "none" => logins[l].state = "consumed"
       /\ logins[l].state = "consumed" /\ ~logins[l].spoiled =>
            \E q \in DOMAIN requests : /\ requests[q].login = l /\ requests[q].stage \notin SignOuts
                                       /\ requests[q].stage # "consume"
(* A session that has not begun has no login yet. *)
UnbegunInv == \A l \in DOMAIN central : central[l] # "none" => l \in DOMAIN logins

(* A login keeps its cookie until it is answered or spoiled, and its first *)
(* callback brings it.                                                     *)
OwnCookieInv ==
    /\ \A l \in DOMAIN logins :
         ~logins[l].spoiled =>
           \/ stateCookie[logins[l].browser] = l
           \/ \E q \in DOMAIN requests : /\ requests[q].login = l /\ requests[q].answered
                                         /\ requests[q].stage \notin SignOuts
    /\ \A r \in DOMAIN requests :
         LET q == requests[r] IN
           \/ q.stage \in SignOuts \/ q.cookie = q.login \/ logins[q.login].spoiled
           \/ q.browser # logins[q.login].browser \/ Rival(r)

(* An error has a reason, in terms of Rival. *)
ErrorInv ==
    \A r \in DOMAIN requests :
       LET l == requests[r].login IN
         requests[r].stage = "error" =>
           \/ logins[l].user = None \/ logins[l].spoiled \/ logins[l].state = "expired"
           \/ requests[r].failed \/ requests[r].browser # logins[l].browser \/ Rival(r)

(* Who holds a live session, or was about to. *)
HeldInv ==
    \A l \in DOMAIN logins :
       central[l] = "live" =>
         \/ \E b \in Browser : sessionCookie[b] = l
         \/ l \in dropped
         \/ \E q \in DOMAIN requests :
              /\ requests[q].login = l /\ requests[q].stage \notin SignOuts
              /\ \/ requests[q].failed
                 \/ ~requests[q].answered /\ requests[q].stage \in {"introspect", "revoke", "ok"}

(* AdmittedOnce, request by request. *)
OnceInv ==
    \A q, r \in DOMAIN requests :
       requests[q].login = requests[r].login /\ requests[q].stage \in Past
          /\ requests[r].stage \in Past => q = r

SignInInv ==
    /\ SignInTypes /\ CookieInv /\ RequestsInv /\ ConsumedInv /\ UnbegunInv
    /\ OwnCookieInv /\ ErrorInv /\ HeldInv /\ OnceInv
-----------------------------------------------------------------------------
(* The Users screen. *)
Member == [role: Roles, version: Nat, by: Browser \cup {None}]
Members == [User -> Member]
Page == [open: BOOLEAN, users: Members \cup {None}, super: BOOLEAN, form: Form \cup {None},
         busy: BOOLEAN, sent: Nat, doubt: BOOLEAN]
ACall == [browser: Browser, session: Nat \cup {None}, number: Nat,
          kind: {"load", "add", "save", "remove"}, user: User \cup {None}, role: Roles \cup {None},
          form: Form \cup {None}, stage: {"sent", "asked", "done", "refused"}, lost: BOOLEAN,
          super: BOOLEAN, users: Members \cup {None}]

ScreenTypes ==
    /\ members \in Members /\ page \in [Browser -> Page] /\ calls \subseteq ACall

(* The list misses nothing that browser b did; it was true once. *)
Current(list, b) == \A u \in User : list[u] = members[u] \/ members[u].by # b
Older(list) == \A u \in User : list[u] = members[u] \/ list[u].version < members[u].version

CallFits(c) ==
    /\ c.kind # "load" => c.user \in User /\ c.role \in Roles
    /\ c.kind = "load" /\ c.stage = "done" => c.users \in Members /\ Older(c.users)
    /\ c.kind = "save" => c.form # None /\ c.form.user = c.user
    /\ c.lost => page[c.browser].doubt

(* A closed screen has no calls; without doubt there is one at a time. *)
AloneAt(b) ==
    /\ ~page[b].open => Mine(b) = {} /\ page[b].users = None /\ page[b].form = None
    /\ ~page[b].doubt => \A c, d \in Mine(b) : c = d

LockAt(b) == page[b].busy => \E c \in Mine(b) : ~c.lost /\ c.kind # "remove" /\ c.user # None

(* What is shown is current unless a call that was carried out, or a list  *)
(* on its way, says otherwise.                                             *)
ListAt(b) ==
    /\ page[b].users # None => Older(page[b].users)
    /\ ~page[b].doubt =>
         /\ page[b].users # None =>
              \/ Current(page[b].users, b)
              \/ \E c \in Mine(b) : c.kind = "load" \/ c.stage = "done"
         /\ \A c \in Mine(b) : c.kind = "load" /\ c.stage = "done" => Current(c.users, b)

(* What a form was filled from, or what others made of it since. *)
FormCurrent(form, b) ==
    \/ members[form.user].role = form.role /\ members[form.user].version = form.version
    \/ members[form.user].version > form.version /\ members[form.user].by # b

(* A form opened alone belongs to every call of its screen; as long as     *)
(* there is no doubt nothing of this screen went past it, but for what     *)
(* will close it.                                                          *)
FormAt(b) ==
    /\ page[b].form # None /\ page[b].form.alone =>
         \A c \in Mine(b) : /\ c.kind # "add"
                            /\ c.kind # "load" => c.form # None /\ c.form.user = page[b].form.user
    /\ page[b].form # None /\ page[b].form.sure =>
         /\ page[b].form.alone /\ ~page[b].doubt
         /\ \/ FormCurrent(page[b].form, b)
            \/ \E c \in Mine(b) : c.kind # "load" /\ c.stage = "done" /\ c.user = page[b].form.user
    /\ \A c \in Mine(b) :
         c.kind = "save" /\ c.stage \in {"sent", "asked"} /\ c.form.sure /\ ~page[b].doubt =>
           FormCurrent(c.form, b)

ScreenFits(b) == AloneAt(b) /\ LockAt(b) /\ ListAt(b) /\ FormAt(b)

ScreenInv ==
    ScreenTypes /\ (\A c \in calls : CallFits(c)) /\ (\A b \in Browser : ScreenFits(b))

IInv == SignInInv /\ ScreenInv
-----------------------------------------------------------------------------
(* What the steps of signing in do, record by record. *)

LoginSame(k) ==
    /\ logins'[k].browser = logins[k].browser /\ logins'[k].user = logins[k].user
    /\ logins'[k].back = logins[k].back /\ logins'[k].state = logins[k].state

RequestSame(q) ==
    /\ requests'[q].browser = requests[q].browser /\ requests'[q].login = requests[q].login
    /\ requests'[q].cookie = requests[q].cookie

(* A login begins, and spoils the one its browser was in. *)
Begins(b) ==
    /\ UNCHANGED <<bounds, requests, sessionCookie, central, dropped>>
    /\ Len(logins) + 1 \notin DOMAIN logins /\ DOMAIN logins' = DOMAIN logins \cup {Len(logins) + 1}
    /\ logins'[Len(logins) + 1] = Issued(b)
    /\ \A k \in DOMAIN logins :
         LoginSame(k) /\ (logins'[k].spoiled <=> logins[k].spoiled \/ k = stateCookie[b])
    /\ stateCookie' = [stateCookie EXCEPT ![b] = Len(logins) + 1]

(* Identity sends a browser back, or a state expires. *)
LoginTurns(l) ==
    /\ UNCHANGED <<bounds, requests, cookies, central>>
    /\ DOMAIN logins' = DOMAIN logins
    /\ \A k \in DOMAIN logins : k # l => logins'[k] = logins[k]
    /\ logins'[l].browser = logins[l].browser /\ logins'[l].spoiled = logins[l].spoiled
    /\ \/ logins'[l].state = logins[l].state /\ ~logins[l].back
       \/ /\ logins[l].state = "issued" /\ logins'[l].state = "expired"
          /\ logins'[l].back = logins[l].back /\ logins'[l].user = logins[l].user

(* A callback or a sign-out is sent. *)
Sends(b) ==
    /\ UNCHANGED <<bounds, logins, cookies, central>>
    /\ LET q == Len(requests) + 1 IN
       /\ q \notin DOMAIN requests /\ DOMAIN requests' = DOMAIN requests \cup {q}
       /\ \A r \in DOMAIN requests : requests'[r] = requests[r]
       /\ requests'[q].browser = b /\ requests'[q].cookie = stateCookie[b]
       /\ ~requests'[q].answered
       /\ requests'[q].login \in DOMAIN logins
       /\ \/ requests'[q].stage = "consume" /\ logins[requests'[q].login].back
          \/ requests'[q].stage = "sign-out" /\ sessionCookie[b] = requests'[q].login

(* A handler goes on to its next await or to its answer. *)
Goes(r) ==
    LET l == requests[r].login
        old == requests[r].stage
        new == requests'[r].stage
    IN  /\ UNCHANGED <<bounds, cookies>>
        /\ DOMAIN requests' = DOMAIN requests /\ DOMAIN logins' = DOMAIN logins
        /\ DOMAIN central' = DOMAIN central
        /\ \A q \in DOMAIN requests : RequestSame(q) /\ (q # r => requests'[q] = requests[q])
        /\ requests'[r].answered = requests[r].answered /\ (requests[r].failed => requests'[r].failed)
        /\ \A k \in DOMAIN logins :
             /\ logins'[k].spoiled = logins[k].spoiled /\ logins'[k].browser = logins[k].browser
             /\ logins'[k].user = logins[k].user /\ logins'[k].back = logins[k].back
             /\ k # l => logins'[k] = logins[k]
        /\ \A k \in DOMAIN central : k # l => central'[k] = central[k]
        /\ \/ logins' = logins /\ central' = central
              /\ \/ old = "consume" /\ new = "error" /\ ~(Matches(requests[r]) /\ Unused(l))
                 \/ old = "redeem" /\ new = "error" /\ (central[l] # "none" \/ requests'[r].failed)
                 \/ old = "introspect" /\ new = "revoke"
                 \/ old = "introspect" /\ new = "ok"
                 \/ old \in {"consume", "introspect", "revoke"} /\ new = "failed" /\ requests'[r].failed
                 \/ old = "sign-out" /\ new = "not-signed-out"
           \/ central' = central /\ old = "consume" /\ new \in {"redeem", "failed"}
              /\ Matches(requests[r]) /\ Unused(l) /\ logins'[l].state = "consumed"
           \/ logins' = logins /\ central[l] = "none" /\ central'[l] = "live" /\ old = "redeem"
              /\ (new = "introspect" \/ (new = "error" /\ requests'[r].failed))
           \/ logins' = logins /\ central'[l] = "revoked" /\ old = "revoke" /\ new \in {"denied", "failed"}
           \/ logins' = logins /\ central'[l] = "revoked" /\ old = "sign-out"
              /\ new \in {"signed-out", "not-signed-out"}

(* An answer arrives, or is lost. *)
Tells(r) ==
    LET b == requests[r].browser
        l == requests[r].login
    IN  /\ UNCHANGED <<bounds, central>>
        /\ requests[r].stage \in Answers /\ ~requests[r].answered
        /\ DOMAIN requests' = DOMAIN requests /\ DOMAIN logins' = DOMAIN logins
        /\ \A q \in DOMAIN requests :
             /\ RequestSame(q) /\ requests'[q].stage = requests[q].stage
             /\ q # r => requests'[q] = requests[q]
        /\ requests'[r].answered /\ (requests[r].failed => requests'[r].failed)
        /\ \A k \in DOMAIN logins : LoginSame(k)
        /\ \/ UNCHANGED <<logins, cookies>> /\ requests'[r].failed
           \/ /\ \A k \in DOMAIN logins :
                   logins'[k].spoiled <=>
                     \/ logins[k].spoiled
                     \/ requests[r].stage \notin SignOuts /\ k = stateCookie[b] /\ k # l
              /\ stateCookie' = [stateCookie EXCEPT ![b] =
                                   IF requests[r].stage \in SignOuts THEN @ ELSE None]
              /\ sessionCookie' = [sessionCookie EXCEPT ![b] = CookieAfter(r)]
              /\ dropped' = dropped \cup ({sessionCookie[b]} \ {None, l, CookieAfter(r)})

(* Identity ends a session. *)
Ended(l) ==
    /\ UNCHANGED <<bounds, logins, requests, cookies>>
    /\ DOMAIN central' = DOMAIN central /\ central[l] = "live" /\ central'[l] = "revoked"
    /\ \A k \in DOMAIN central : k # l => central'[k] = central[k]

LEMMA Turned ==
  ASSUME NEW S, NEW s \in Seq(S), NEW i \in DOMAIN s, NEW e \in S, NEW t, t = [s EXCEPT ![i] = e]
  PROVE  /\ t \in Seq(S) /\ Len(t) = Len(s) /\ DOMAIN t = DOMAIN s /\ t[i] = e
         /\ \A j \in DOMAIN s : j # i => t[j] = s[j]
OBVIOUS

LEMMA Added ==
  ASSUME NEW S, NEW s \in Seq(S), NEW e \in S
  PROVE  /\ Append(s, e) \in Seq(S) /\ Len(Append(s, e)) = Len(s) + 1 /\ Len(s) + 1 \notin DOMAIN s
         /\ DOMAIN Append(s, e) = DOMAIN s \cup {Len(s) + 1} /\ Append(s, e)[Len(s) + 1] = e
         /\ \A j \in DOMAIN s : Append(s, e)[j] = s[j]
OBVIOUS

(* Every function on the numbers of a sequence is one. *)
LEMMA Rewritten ==
  ASSUME NEW S, NEW s \in Seq(S), NEW t \in [DOMAIN s -> S]
  PROVE  t \in Seq(S) /\ Len(t) = Len(s) /\ DOMAIN t = DOMAIN s
<1>1. DOMAIN s = 1..Len(s) /\ Len(s) \in Nat
  OBVIOUS
<1>2. t \in [1..Len(s) -> S]
  BY <1>1
<1> QED BY <1>1, <1>2

-----------------------------------------------------------------------------
(* Each step of signing in is one of these, and keeps the types. *)

LEMMA SignInFacts ==
  ASSUME SignInTypes
  PROVE  /\ DOMAIN logins = 1..Len(logins) /\ Len(logins) \in Nat /\ DOMAIN requests = 1..Len(requests)
         /\ Len(requests) \in Nat /\ DOMAIN central = 1..bounds.logins
         /\ \A l \in DOMAIN logins : l \in Nat /\ logins[l] \in ALogin /\ l \in DOMAIN central
         /\ \A r \in DOMAIN requests : requests[r] \in ARequest
BY DEF SignInTypes

LEMMA LoginBegins ==
  ASSUME SignInTypes, NEW b \in Browser, Login(b)
  PROVE  Begins(b) /\ SignInTypes'
<1> DEFINE old == Spoil(b, Len(logins) + 1)
           l == Len(logins) + 1
<1>0. /\ Len(logins) < bounds.logins /\ logins' = Append(old, Issued(b))
      /\ stateCookie' = [stateCookie EXCEPT ![b] = l]
      /\ UNCHANGED <<bounds, requests, sessionCookie, central, members, dropped, turns>>
  BY DEF Login, NewState
<1>1. old \in [DOMAIN logins -> ALogin]
  <2> SUFFICES ASSUME NEW k \in DOMAIN logins PROVE old[k] \in ALogin
    BY DEF Spoil
  <2>1. logins[k] \in ALogin
    BY SignInFacts
  <2> QED BY <2>1 DEF Spoil, ALogin
<1>2. /\ old \in Seq(ALogin) /\ Len(old) = Len(logins) /\ DOMAIN old = DOMAIN logins
  BY <1>1, Rewritten DEF SignInTypes
<1>3. \A k \in DOMAIN logins :
        /\ old[k].browser = logins[k].browser /\ old[k].user = logins[k].user
        /\ old[k].back = logins[k].back /\ old[k].state = logins[k].state
        /\ (old[k].spoiled <=> logins[k].spoiled \/ k = stateCookie[b])
  <2> SUFFICES ASSUME NEW k \in DOMAIN logins
               PROVE  /\ old[k].browser = logins[k].browser /\ old[k].user = logins[k].user
                      /\ old[k].back = logins[k].back /\ old[k].state = logins[k].state
                      /\ (old[k].spoiled <=> logins[k].spoiled \/ k = stateCookie[b])
    OBVIOUS
  <2>1. logins[k] \in ALogin /\ k # l
    BY SignInFacts
  <2> QED BY <2>1 DEF Spoil, ALogin
<1>4. Issued(b) \in ALogin
  BY DEF Issued, ALogin
<1> HIDE DEF old
<1>5. /\ logins' \in Seq(ALogin) /\ Len(logins') = l /\ l \notin DOMAIN logins
      /\ DOMAIN logins' = DOMAIN logins \cup {l} /\ logins'[l] = Issued(b)
      /\ \A k \in DOMAIN logins : logins'[k] = old[k]
  BY <1>0, <1>2, <1>4, Added
<1>6. Begins(b)
  BY <1>0, <1>3, <1>5 DEF Begins, LoginSame
<1>7. SignInTypes'
  BY <1>0, <1>5, SignInFacts DEF SignInTypes
<1> QED BY <1>6, <1>7

LEMMA LoginTurning ==
  ASSUME SignInTypes, NEW l \in DOMAIN logins,
         (\E u \in User \cup {None} : Authorize(l, u)) \/ StateExpires(l)
  PROVE  LoginTurns(l) /\ SignInTypes'
<1>1. logins[l] \in ALogin
  BY SignInFacts
<1>2. UNCHANGED <<bounds, requests, cookies, central>>
  BY DEF Authorize, StateExpires
<1>3. \E new \in ALogin :
        /\ logins' = [logins EXCEPT ![l] = new]
        /\ new.browser = logins[l].browser /\ new.spoiled = logins[l].spoiled
        /\ \/ new.state = logins[l].state /\ ~logins[l].back
           \/ /\ logins[l].state = "issued" /\ new.state = "expired"
              /\ new.back = logins[l].back /\ new.user = logins[l].user
  <2>1. CASE \E u \in User \cup {None} : Authorize(l, u)
    <3>1. PICK u \in User \cup {None} : Authorize(l, u)
      BY <2>1
    <3> DEFINE new == [logins[l] EXCEPT !.back = TRUE, !.user = u]
    <3>2. new \in ALogin /\ new.browser = logins[l].browser /\ new.spoiled = logins[l].spoiled
          /\ new.state = logins[l].state
      BY <1>1 DEF ALogin
    <3>3. logins' = [logins EXCEPT ![l] = new] /\ ~logins[l].back
      BY <3>1, <1>1 DEF Authorize
    <3> HIDE DEF new
    <3> QED BY <3>2, <3>3
  <2>2. CASE StateExpires(l)
    <3> DEFINE new == [logins[l] EXCEPT !.state = "expired"]
    <3>1. new \in ALogin /\ new.browser = logins[l].browser /\ new.spoiled = logins[l].spoiled
          /\ new.state = "expired" /\ new.back = logins[l].back /\ new.user = logins[l].user
      BY <1>1 DEF ALogin
    <3>2. logins' = [logins EXCEPT ![l] = new] /\ logins[l].state = "issued"
      BY <2>2 DEF StateExpires
    <3> HIDE DEF new
    <3> QED BY <3>1, <3>2
  <2> QED BY <2>1, <2>2
<1>5. PICK new \in ALogin :
        /\ logins' = [logins EXCEPT ![l] = new]
        /\ new.browser = logins[l].browser /\ new.spoiled = logins[l].spoiled
        /\ \/ new.state = logins[l].state /\ ~logins[l].back
           \/ /\ logins[l].state = "issued" /\ new.state = "expired"
              /\ new.back = logins[l].back /\ new.user = logins[l].user
  BY <1>3
<1>4. /\ logins' \in Seq(ALogin) /\ Len(logins') = Len(logins) /\ DOMAIN logins' = DOMAIN logins
      /\ logins'[l] = new /\ \A k \in DOMAIN logins : k # l => logins'[k] = logins[k]
  BY <1>5, Turned DEF SignInTypes
<1> QED BY <1>2, <1>5, <1>4 DEF LoginTurns, SignInTypes, cookies

LEMMA RequestSent ==
  ASSUME SignInTypes, CookieInv, NEW b \in Browser,
         Logout(b) \/ \E l \in DOMAIN logins : Callback(b, l)
  PROVE  Sends(b) /\ SignInTypes'
<1>1. /\ UNCHANGED <<bounds, logins, cookies, central>>
      /\ \E l \in DOMAIN logins : \E stage \in {"consume", "sign-out"} :
           /\ Send(b, l, stage)
           /\ \/ stage = "consume" /\ logins[l].back
              \/ stage = "sign-out" /\ sessionCookie[b] = l
  BY DEF Logout, Callback, CookieInv
<1>2. PICK l \in DOMAIN logins, stage \in {"consume", "sign-out"} :
           /\ Send(b, l, stage)
           /\ \/ stage = "consume" /\ logins[l].back
              \/ stage = "sign-out" /\ sessionCookie[b] = l
  BY <1>1
<1>3. l \in Nat /\ stateCookie[b] \in Nat \cup {None}
  BY SignInFacts DEF SignInTypes
<1>4. \E new \in ARequest :
        /\ requests' = Append(requests, new)
        /\ new.browser = b /\ new.login = l /\ new.cookie = stateCookie[b]
        /\ new.stage = stage /\ ~new.answered
  <2> DEFINE new == [browser |-> b, login |-> l, cookie |-> stateCookie[b],
                     stage |-> stage, failed |-> FALSE, answered |-> FALSE]
  <2>1. new \in ARequest /\ new.browser = b /\ new.login = l /\ new.cookie = stateCookie[b]
        /\ new.stage = stage /\ ~new.answered
    BY <1>3 DEF ARequest, Awaits
  <2>2. requests' = Append(requests, new)
    BY <1>2 DEF Send
  <2> HIDE DEF new
  <2> QED BY <2>1, <2>2
<1>5. PICK new \in ARequest :
        /\ requests' = Append(requests, new)
        /\ new.browser = b /\ new.login = l /\ new.cookie = stateCookie[b]
        /\ new.stage = stage /\ ~new.answered
  BY <1>4
<1>6. requests \in Seq(ARequest)
  BY DEF SignInTypes
<1>7. /\ requests' \in Seq(ARequest) /\ Len(requests) + 1 \notin DOMAIN requests
      /\ DOMAIN requests' = DOMAIN requests \cup {Len(requests) + 1}
      /\ requests'[Len(requests) + 1] = new
      /\ \A q \in DOMAIN requests : requests'[q] = requests[q]
  BY <1>5, <1>6, Added
<1>8. Sends(b)
  BY <1>1, <1>2, <1>5, <1>7 DEF Sends, cookies
<1>9. SignInTypes'
  BY <1>1, <1>7 DEF SignInTypes, cookies
<1> QED BY <1>8, <1>9

LEMMA SessionEnding ==
  ASSUME SignInTypes, NEW l \in DOMAIN logins, SessionEnds(l)
  PROVE  Ended(l) /\ SignInTypes'
<1>1. l \in DOMAIN central
  BY SignInFacts
<1> QED BY <1>1 DEF SessionEnds, Ended, SignInTypes, Session, cookies

LEMMA RequestTurns ==
  ASSUME SignInTypes, NEW r \in DOMAIN requests, NEW new \in ARequest,
         requests' = [requests EXCEPT ![r] = new],
         new.browser = requests[r].browser, new.login = requests[r].login,
         new.cookie = requests[r].cookie
  PROVE  /\ requests' \in Seq(ARequest) /\ DOMAIN requests' = DOMAIN requests /\ requests'[r] = new
         /\ \A q \in DOMAIN requests : RequestSame(q) /\ (q # r => requests'[q] = requests[q])
<1>1. requests \in Seq(ARequest)
  BY DEF SignInTypes
<1>2. /\ requests' \in Seq(ARequest) /\ Len(requests') = Len(requests)
      /\ DOMAIN requests' = DOMAIN requests /\ requests'[r] = new
      /\ \A q \in DOMAIN requests : q # r => requests'[q] = requests[q]
  BY <1>1, Turned
<1> QED BY <1>2 DEF RequestSame

LEMMA StageTurns ==
  ASSUME SignInTypes, NEW r \in DOMAIN requests, NEW stage \in Awaits \cup Answers, To(r, stage)
  PROVE  /\ requests' \in Seq(ARequest) /\ DOMAIN requests' = DOMAIN requests
         /\ \A q \in DOMAIN requests : RequestSame(q) /\ (q # r => requests'[q] = requests[q])
         /\ requests'[r].stage = stage /\ requests'[r].failed = requests[r].failed
         /\ requests'[r].answered = requests[r].answered
<1> DEFINE new == [requests[r] EXCEPT !.stage = stage]
<1>1. requests[r] \in ARequest
  BY SignInFacts
<1>2. /\ new \in ARequest /\ new.stage = stage /\ new.browser = requests[r].browser
      /\ new.login = requests[r].login /\ new.cookie = requests[r].cookie
      /\ new.failed = requests[r].failed /\ new.answered = requests[r].answered
  BY <1>1 DEF ARequest
<1>3. requests' = [requests EXCEPT ![r] = new]
  BY DEF To
<1> HIDE DEF new
<1> QED BY <1>2, <1>3, RequestTurns

(* A state is consumed. *)
LEMMA StateTurns ==
  ASSUME SignInTypes, NEW l \in DOMAIN logins, logins' = [logins EXCEPT ![l].state = "consumed"]
  PROVE  /\ logins' \in Seq(ALogin) /\ Len(logins') = Len(logins) /\ DOMAIN logins' = DOMAIN logins
         /\ logins'[l].state = "consumed"
         /\ \A k \in DOMAIN logins :
              /\ logins'[k].spoiled = logins[k].spoiled /\ logins'[k].browser = logins[k].browser
              /\ logins'[k].user = logins[k].user /\ logins'[k].back = logins[k].back
              /\ k # l => logins'[k] = logins[k]
<1> DEFINE new == [logins[l] EXCEPT !.state = "consumed"]
<1>1. logins[l] \in ALogin /\ logins \in Seq(ALogin)
  BY SignInFacts DEF SignInTypes
<1>2. /\ new \in ALogin /\ new.browser = logins[l].browser /\ new.spoiled = logins[l].spoiled
      /\ new.user = logins[l].user /\ new.back = logins[l].back /\ new.state = "consumed"
  BY <1>1 DEF ALogin
<1>3. logins' = [logins EXCEPT ![l] = new]
  OBVIOUS
<1> HIDE DEF new
<1>4. /\ logins' \in Seq(ALogin) /\ Len(logins') = Len(logins) /\ DOMAIN logins' = DOMAIN logins
      /\ logins'[l] = new /\ \A k \in DOMAIN logins : k # l => logins'[k] = logins[k]
  BY <1>1, <1>2, <1>3, Turned
<1> QED BY <1>2, <1>4

LEMMA RequestGoes ==
  ASSUME SignInTypes, RequestsInv, NEW r \in DOMAIN requests,
         Consume(r) \/ Redeem(r) \/ Introspect(r) \/ Revoke(r) \/ SignOut(r)
  PROVE  Goes(r) /\ SignInTypes'
<1> DEFINE l == requests[r].login
<1>1. l \in DOMAIN logins /\ l \in DOMAIN central /\ central \in [1..bounds.logins -> Session]
      /\ DOMAIN central = 1..bounds.logins
  BY SignInFacts DEF RequestsInv, RequestFits, SignInTypes
<1>2. CASE Consume(r) /\ Matches(requests[r]) /\ Unused(l)
  <2>1. /\ To(r, "redeem") /\ logins' = [logins EXCEPT ![l].state = "consumed"]
        /\ UNCHANGED <<bounds, cookies, central, members, turns>> /\ requests[r].stage = "consume"
    BY <1>2 DEF Consume, In
  <2>2. /\ requests' \in Seq(ARequest) /\ DOMAIN requests' = DOMAIN requests
        /\ \A q \in DOMAIN requests : RequestSame(q) /\ (q # r => requests'[q] = requests[q])
        /\ requests'[r].stage = "redeem" /\ requests'[r].failed = requests[r].failed
        /\ requests'[r].answered = requests[r].answered
    BY <2>1, StageTurns DEF Awaits
  <2>3. /\ logins' \in Seq(ALogin) /\ Len(logins') = Len(logins) /\ DOMAIN logins' = DOMAIN logins
        /\ logins'[l].state = "consumed"
        /\ \A k \in DOMAIN logins :
             /\ logins'[k].spoiled = logins[k].spoiled /\ logins'[k].browser = logins[k].browser
             /\ logins'[k].user = logins[k].user /\ logins'[k].back = logins[k].back
             /\ k # l => logins'[k] = logins[k]
    BY <2>1, <1>1, StateTurns
  <2>4. Goes(r)
    BY <1>2, <2>1, <2>2, <2>3 DEF Goes, cookies
  <2> QED BY <2>1, <2>2, <2>3, <2>4 DEF SignInTypes, cookies
<1>3. CASE Consume(r) /\ ~(Matches(requests[r]) /\ Unused(l))
  <2>1. /\ To(r, "error") /\ UNCHANGED logins
        /\ UNCHANGED <<bounds, cookies, central, members, turns>> /\ requests[r].stage = "consume"
    BY <1>3 DEF Consume, In
  <2> QED BY <1>1, <1>3, <2>1, StageTurns DEF Goes, SignInTypes, cookies, Awaits, Answers
<1>4. CASE Redeem(r) /\ central[l] = "none"
  <2>1. /\ To(r, "introspect") /\ central' = [central EXCEPT ![l] = "live"]
        /\ UNCHANGED <<bounds, logins, cookies, members, turns>> /\ requests[r].stage = "redeem"
    BY <1>4 DEF Redeem, In
  <2> QED BY <1>1, <1>4, <2>1, StageTurns DEF Goes, SignInTypes, cookies, Awaits, Answers, Session
<1>5. CASE Redeem(r) /\ central[l] # "none"
  <2>1. /\ To(r, "error") /\ UNCHANGED central
        /\ UNCHANGED <<bounds, logins, cookies, members, turns>> /\ requests[r].stage = "redeem"
    BY <1>5 DEF Redeem, In
  <2> QED BY <1>1, <1>5, <2>1, StageTurns DEF Goes, SignInTypes, cookies, Awaits, Answers
<1>6. CASE Introspect(r)
  <2>1. /\ To(r, Admission(l)) /\ requests[r].stage = "introspect"
        /\ UNCHANGED <<bounds, logins, cookies, central, members, turns>>
    BY <1>6 DEF Introspect, In
  <2>2. Admission(l) \in {"ok", "revoke"}
    BY DEF Admission
  <2> QED BY <1>1, <2>1, <2>2, StageTurns DEF Goes, SignInTypes, cookies, Awaits, Answers
<1>7. CASE Revoke(r)
  <2>1. /\ To(r, "denied") /\ central' = [central EXCEPT ![l] = "revoked"]
        /\ UNCHANGED <<bounds, logins, cookies, members, turns>> /\ requests[r].stage = "revoke"
    BY <1>7 DEF Revoke, In
  <2> QED BY <1>1, <2>1, StageTurns DEF Goes, SignInTypes, cookies, Awaits, Answers, Session
<1>8. CASE SignOut(r)
  <2>1. /\ To(r, "signed-out") /\ central' = [central EXCEPT ![l] = "revoked"]
        /\ UNCHANGED <<bounds, logins, cookies, members, turns>> /\ requests[r].stage = "sign-out"
    BY <1>8 DEF SignOut, In
  <2> QED BY <1>1, <2>1, StageTurns DEF Goes, SignInTypes, cookies, Awaits, Answers, Session
<1> QED BY <1>2, <1>3, <1>4, <1>5, <1>6, <1>7, <1>8


LEMMA AwaitGoes ==
  ASSUME SignInTypes, RequestsInv, NEW r \in DOMAIN requests, NEW took \in BOOLEAN, AwaitFails(r, took)
  PROVE  Goes(r) /\ SignInTypes'
<1> DEFINE l == requests[r].login
           stage == requests[r].stage
           after == CASE stage = "redeem" -> "error" [] stage = "sign-out" -> "not-signed-out"
                      [] OTHER -> "failed"
<1>1. l \in DOMAIN logins /\ l \in DOMAIN central /\ central \in [1..bounds.logins -> Session]
      /\ DOMAIN central = 1..bounds.logins /\ requests[r] \in ARequest
  BY SignInFacts DEF RequestsInv, RequestFits, SignInTypes
<1>2. /\ stage \in Awaits /\ UNCHANGED <<bounds, cookies>>
      /\ central' = [central EXCEPT ![l] = IF took THEN Effect(l, stage) ELSE @]
      /\ logins' = IF took /\ stage = "consume" /\ Matches(requests[r]) /\ Unused(l)
                   THEN [logins EXCEPT ![l].state = "consumed"] ELSE logins
      /\ requests' = [requests EXCEPT ![r].failed = TRUE, ![r].stage = after]
  BY DEF AwaitFails
<1>3. after \in {"error", "not-signed-out", "failed"} /\ after \in Answers
      /\ (stage = "redeem" <=> after = "error") /\ (stage = "sign-out" <=> after = "not-signed-out")
  BY DEF Answers
<1>4. \E new \in ARequest :
        /\ requests' = [requests EXCEPT ![r] = new] /\ new.browser = requests[r].browser
        /\ new.login = requests[r].login /\ new.cookie = requests[r].cookie
        /\ new.answered = requests[r].answered /\ new.failed = TRUE /\ new.stage = after
  <2> DEFINE half == [requests[r] EXCEPT !.failed = TRUE]
             new == [half EXCEPT !.stage = after]
  <2>1. /\ half \in ARequest /\ half.browser = requests[r].browser /\ half.login = requests[r].login
        /\ half.cookie = requests[r].cookie /\ half.answered = requests[r].answered
        /\ half.failed = TRUE
    BY <1>1 DEF ARequest
  <2>2. requests' = [requests EXCEPT ![r] = new]
    BY <1>2
  <2> HIDE DEF half, after
  <2>3. /\ new \in ARequest /\ new.browser = half.browser /\ new.login = half.login
        /\ new.cookie = half.cookie /\ new.answered = half.answered
        /\ new.failed = half.failed /\ new.stage = after
    BY <1>3, <2>1 DEF ARequest
  <2> QED BY <2>1, <2>2, <2>3
<1>5. PICK new \in ARequest :
        /\ requests' = [requests EXCEPT ![r] = new] /\ new.browser = requests[r].browser
        /\ new.login = requests[r].login /\ new.cookie = requests[r].cookie
        /\ new.answered = requests[r].answered /\ new.failed = TRUE /\ new.stage = after
  BY <1>4
<1>6. /\ requests' \in Seq(ARequest) /\ DOMAIN requests' = DOMAIN requests /\ requests'[r] = new
      /\ \A q \in DOMAIN requests : RequestSame(q) /\ (q # r => requests'[q] = requests[q])
  BY <1>5, RequestTurns
<1>7. CASE took /\ stage = "consume" /\ Matches(requests[r]) /\ Unused(l)
  <2>1. logins' = [logins EXCEPT ![l].state = "consumed"] /\ central' = central
    BY <1>1, <1>2, <1>7 DEF Effect
  <2>2. /\ logins' \in Seq(ALogin) /\ Len(logins') = Len(logins) /\ DOMAIN logins' = DOMAIN logins
        /\ logins'[l].state = "consumed"
        /\ \A k \in DOMAIN logins :
             /\ logins'[k].spoiled = logins[k].spoiled /\ logins'[k].browser = logins[k].browser
             /\ logins'[k].user = logins[k].user /\ logins'[k].back = logins[k].back
             /\ k # l => logins'[k] = logins[k]
    BY <2>1, <1>1, StateTurns
  <2>3. after = "failed"
    BY <1>7
  <2> HIDE DEF after
  <2>4. Goes(r)
    BY <1>2, <1>5, <1>6, <1>7, <2>1, <2>2, <2>3 DEF Goes, cookies
  <2> QED BY <1>2, <1>6, <2>1, <2>2, <2>4 DEF SignInTypes, cookies
<1>8. CASE ~(took /\ stage = "consume" /\ Matches(requests[r]) /\ Unused(l))
  <2>1. logins' = logins
    BY <1>2, <1>8
  <2>2. /\ central' \in [1..bounds.logins -> Session] /\ DOMAIN central' = DOMAIN central
        /\ \A k \in DOMAIN central : k # l => central'[k] = central[k]
        /\ \/ central' = central
           \/ central[l] = "none" /\ central'[l] = "live" /\ stage = "redeem"
           \/ central'[l] = "revoked" /\ stage \in {"revoke", "sign-out"}
    BY <1>1, <1>2 DEF Effect, Session
  <2> HIDE DEF after
  <2>3. Goes(r)
    BY <1>2, <1>3, <1>5, <1>6, <2>1, <2>2 DEF Goes, cookies, Awaits
  <2> QED BY <1>2, <1>6, <2>1, <2>2, <2>3 DEF SignInTypes, cookies
<1> QED BY <1>7, <1>8

LEMMA AnswerTells ==
  ASSUME SignInTypes, RequestsInv, CookieInv, NEW r \in DOMAIN requests, Answered(r) \/ AnswerLost(r)
  PROVE  Tells(r) /\ SignInTypes'
<1> DEFINE b == requests[r].browser
           l == requests[r].login
<1>1. l \in DOMAIN logins /\ requests[r] \in ARequest /\ b \in Browser /\ l \in Nat
  BY SignInFacts DEF RequestsInv, RequestFits, ARequest
<1>2. requests[r].stage \in Answers /\ ~requests[r].answered /\ UNCHANGED <<bounds, central>>
  BY DEF Answered, AnswerLost
<1>3. CASE AnswerLost(r)
  <2> DEFINE half == [requests[r] EXCEPT !.answered = TRUE]
             new == [half EXCEPT !.failed = TRUE]
  <2>1. /\ half \in ARequest /\ half.browser = b /\ half.login = l /\ half.cookie = requests[r].cookie
        /\ half.stage = requests[r].stage /\ half.answered
    BY <1>1 DEF ARequest
  <2>2. requests' = [requests EXCEPT ![r] = new] /\ UNCHANGED <<logins, cookies>>
    BY <1>3 DEF AnswerLost
  <2> HIDE DEF half
  <2>3. /\ new \in ARequest /\ new.browser = b /\ new.login = l /\ new.cookie = requests[r].cookie
        /\ new.stage = requests[r].stage /\ new.answered /\ new.failed
    BY <2>1 DEF ARequest
  <2> HIDE DEF new
  <2>4. /\ requests' \in Seq(ARequest) /\ DOMAIN requests' = DOMAIN requests /\ requests'[r] = new
        /\ \A q \in DOMAIN requests : RequestSame(q) /\ (q # r => requests'[q] = requests[q])
    BY <2>2, <2>3, RequestTurns
  <2>5. Tells(r)
    BY <1>2, <2>2, <2>3, <2>4 DEF Tells, LoginSame
  <2> QED BY <1>2, <2>2, <2>4, <2>5 DEF SignInTypes, cookies
<1>4. CASE Answered(r)
  <2> DEFINE new == [requests[r] EXCEPT !.answered = TRUE]
             callback == requests[r].stage \notin {"signed-out", "not-signed-out"}
  <2>1. /\ new \in ARequest /\ new.browser = b /\ new.login = l /\ new.cookie = requests[r].cookie
        /\ new.stage = requests[r].stage /\ new.answered /\ new.failed = requests[r].failed
    BY <1>1 DEF ARequest
  <2>2. requests' = [requests EXCEPT ![r] = new]
    BY <1>4 DEF Answered
  <2> HIDE DEF new
  <2>3. /\ requests' \in Seq(ARequest) /\ DOMAIN requests' = DOMAIN requests /\ requests'[r] = new
        /\ \A q \in DOMAIN requests : RequestSame(q) /\ (q # r => requests'[q] = requests[q])
    BY <2>1, <2>2, RequestTurns
  <2>4. callback <=> requests[r].stage \notin SignOuts
    BY <1>2 DEF SignOuts, Answers
  <2>5. /\ stateCookie' = [stateCookie EXCEPT ![b] = IF callback THEN None ELSE @]
        /\ logins' = IF callback THEN Spoil(b, l) ELSE logins
        /\ sessionCookie' = [sessionCookie EXCEPT ![b] = CookieAfter(r)]
        /\ dropped' = dropped \cup ({sessionCookie[b]} \ {None, l, CookieAfter(r)})
    BY <1>4 DEF Answered
  <2> HIDE DEF callback
  <2>6. /\ \A k \in DOMAIN logins :
             /\ logins'[k] \in ALogin /\ LoginSame(k)
             /\ logins'[k].spoiled <=> logins[k].spoiled \/ (callback /\ k = stateCookie[b] /\ k # l)
        /\ logins' \in Seq(ALogin) /\ Len(logins') = Len(logins) /\ DOMAIN logins' = DOMAIN logins
    <3>1. \A k \in DOMAIN logins : logins[k] \in ALogin
      BY SignInFacts
    <3>2. CASE ~callback
      BY <3>1, <3>2, <2>5 DEF LoginSame, SignInTypes
    <3>3. CASE callback
      <4>1. logins' = Spoil(b, l)
        BY <3>3, <2>5
      <4>2. \A k \in DOMAIN logins :
              /\ Spoil(b, l)[k] \in ALogin
              /\ Spoil(b, l)[k].browser = logins[k].browser /\ Spoil(b, l)[k].user = logins[k].user
              /\ Spoil(b, l)[k].back = logins[k].back /\ Spoil(b, l)[k].state = logins[k].state
              /\ Spoil(b, l)[k].spoiled <=> logins[k].spoiled \/ (k = stateCookie[b] /\ k # l)
        <5> SUFFICES ASSUME NEW k \in DOMAIN logins
                     PROVE  /\ Spoil(b, l)[k] \in ALogin
                            /\ Spoil(b, l)[k].browser = logins[k].browser
                            /\ Spoil(b, l)[k].user = logins[k].user
                            /\ Spoil(b, l)[k].back = logins[k].back
                            /\ Spoil(b, l)[k].state = logins[k].state
                            /\ Spoil(b, l)[k].spoiled <=> logins[k].spoiled \/ (k = stateCookie[b] /\ k # l)
          OBVIOUS
        <5>1. logins[k] \in ALogin
          BY <3>1
        <5> QED BY <5>1 DEF Spoil, ALogin
      <4>3. logins' \in [DOMAIN logins -> ALogin]
        BY <4>1, <4>2 DEF Spoil
      <4>4. logins' \in Seq(ALogin) /\ Len(logins') = Len(logins) /\ DOMAIN logins' = DOMAIN logins
        BY <4>3, Rewritten DEF SignInTypes
      <4> QED BY <4>1, <4>2, <4>4, <3>3 DEF LoginSame
    <3> QED BY <3>2, <3>3
  <2>7. Tells(r)
    BY <1>2, <2>1, <2>3, <2>4, <2>5, <2>6 DEF Tells
  <2>8. CookieAfter(r) \in Nat \cup {None}
    BY <1>1 DEF CookieAfter, SignInTypes
  <2>9. dropped' \subseteq DOMAIN logins
    BY <1>1, <2>5, <2>8 DEF SignInTypes, CookieInv
  <2> QED BY <1>1, <1>2, <2>3, <2>5, <2>6, <2>7, <2>8, <2>9 DEF SignInTypes
<1> QED BY <1>3, <1>4

SignInStep ==
    \/ \E b \in Browser : Begins(b) \/ Sends(b)
    \/ \E l \in DOMAIN logins : LoginTurns(l) \/ Ended(l)
    \/ \E r \in DOMAIN requests : Goes(r) \/ Tells(r)
    \/ UNCHANGED loginVars

LEMMA SignInSteps ==
  ASSUME SignInTypes, RequestsInv, CookieInv, SigningIn \/ UNCHANGED loginVars
  PROVE  SignInStep /\ SignInTypes'
<1>1. CASE \E b \in Browser : Login(b)
  BY <1>1, LoginBegins DEF SignInStep
<1>2. CASE \E b \in Browser : Logout(b) \/ \E l \in DOMAIN logins : Callback(b, l)
  BY <1>2, RequestSent DEF SignInStep
<1>3. CASE \E l \in DOMAIN logins : (\E u \in User \cup {None} : Authorize(l, u)) \/ StateExpires(l)
  BY <1>3, LoginTurning DEF SignInStep
<1>4. CASE \E l \in DOMAIN logins : SessionEnds(l)
  BY <1>4, SessionEnding DEF SignInStep
<1>5. CASE \E r \in DOMAIN requests :
             Consume(r) \/ Redeem(r) \/ Introspect(r) \/ Revoke(r) \/ SignOut(r)
  BY <1>5, RequestGoes DEF SignInStep
<1>6. CASE \E r \in DOMAIN requests : \E took \in BOOLEAN : AwaitFails(r, took)
  BY <1>6, AwaitGoes DEF SignInStep
<1>7. CASE \E r \in DOMAIN requests : Answered(r) \/ AnswerLost(r)
  BY <1>7, AnswerTells DEF SignInStep
<1>8. CASE UNCHANGED loginVars \/ \E u \in User : RoleChanges(u)
  BY <1>8 DEF SignInStep, RoleChanges, loginVars, signInVars, cookies, SignInTypes
<1> QED BY <1>1, <1>2, <1>3, <1>4, <1>5, <1>6, <1>7, <1>8 DEF SigningIn

(* What no step takes back. *)
Onward ==
    /\ \A k \in DOMAIN logins :
         /\ k \in DOMAIN logins' /\ logins'[k].browser = logins[k].browser
         /\ logins[k].spoiled => logins'[k].spoiled
         /\ logins[k].back => logins'[k].back /\ logins'[k].user = logins[k].user
         /\ logins'[k].state = logins[k].state \/ logins[k].state = "issued"
    /\ \A q \in DOMAIN requests :
         /\ q \in DOMAIN requests' /\ RequestSame(q)
         /\ requests[q].failed => requests'[q].failed
         /\ requests[q].answered => requests'[q].answered /\ requests'[q].stage = requests[q].stage
         /\ requests[q].stage \in SignOuts <=> requests'[q].stage \in SignOuts
         /\ requests'[q].stage = "consume" => requests[q].stage = "consume"
         /\ requests[q].stage \in Answers => requests'[q].stage = requests[q].stage
    /\ DOMAIN central' = DOMAIN central
    /\ \A k \in DOMAIN central :
         /\ central[k] # "none" => central'[k] # "none"
         /\ central[k] = "revoked" => central'[k] = "revoked"

LEMMA StepsGoOnward ==
  ASSUME SignInTypes, RequestsInv, SignInStep
  PROVE  Onward
<1>1. ASSUME NEW b \in Browser, Begins(b) PROVE Onward
  BY <1>1 DEF Begins, Onward, LoginSame, RequestSame
<1>2. ASSUME NEW b \in Browser, Sends(b) PROVE Onward
  BY <1>2 DEF Sends, Onward, RequestSame
<1>3. ASSUME NEW l \in DOMAIN logins, LoginTurns(l) PROVE Onward
  BY <1>3 DEF LoginTurns, Onward, RequestSame
<1>4. ASSUME NEW l \in DOMAIN logins, Ended(l) PROVE Onward
  BY <1>4 DEF Ended, Onward, RequestSame, cookies
<1>5. ASSUME NEW r \in DOMAIN requests, Goes(r) PROVE Onward
  <2>1. /\ requests[r].answered => requests[r].stage \in Answers
        /\ requests[r].stage \notin Answers
        /\ requests'[r].stage # "consume"
        /\ requests[r].stage \in SignOuts <=> requests'[r].stage \in SignOuts
    BY <1>5 DEF Goes, RequestsInv, RequestFits, Answers, SignOuts
  <2>2. \A k \in DOMAIN logins :
         /\ k \in DOMAIN logins' /\ logins'[k].browser = logins[k].browser
         /\ logins[k].spoiled => logins'[k].spoiled
         /\ logins[k].back => logins'[k].back /\ logins'[k].user = logins[k].user
         /\ logins'[k].state = logins[k].state \/ logins[k].state = "issued"
    BY <1>5 DEF Goes, Unused
  <2>3. \A k \in DOMAIN central :
         /\ central[k] # "none" => central'[k] # "none"
         /\ central[k] = "revoked" => central'[k] = "revoked"
    BY <1>5 DEF Goes
  <2> QED BY <1>5, <2>1, <2>2, <2>3 DEF Goes, Onward
<1>6. ASSUME NEW r \in DOMAIN requests, Tells(r) PROVE Onward
  BY <1>6 DEF Tells, Onward, LoginSame, RequestSame
<1>7. CASE UNCHANGED loginVars
  BY <1>7 DEF Onward, loginVars, signInVars, cookies, RequestSame
<1> QED BY <1>1, <1>2, <1>3, <1>4, <1>5, <1>6, <1>7 DEF SignInStep

LEMMA CookieInductive ==
  ASSUME SignInTypes, RequestsInv, CookieInv, SignInStep, Onward, SignInTypes'
  PROVE  CookieInv'
<1>1. ASSUME NEW b \in Browser, Begins(b) PROVE CookieInv'
  <2>1. Len(logins) + 1 \in DOMAIN logins' /\ logins'[Len(logins) + 1].browser = b
    BY <1>1 DEF Begins, Issued
  <2>2. \A c \in Browser : stateCookie'[c] = IF c = b THEN Len(logins) + 1 ELSE stateCookie[c]
    BY <1>1 DEF Begins, SignInTypes
  <2>3. UNCHANGED <<sessionCookie, central>>
    BY <1>1 DEF Begins
  <2> QED BY <2>1, <2>2, <2>3 DEF CookieInv, Onward
<1>2. ASSUME NEW b \in Browser, Sends(b) PROVE CookieInv'
  BY <1>2 DEF Sends, CookieInv, cookies
<1>3. ASSUME NEW l \in DOMAIN logins, LoginTurns(l) PROVE CookieInv'
  BY <1>3 DEF LoginTurns, CookieInv, cookies, Onward
<1>4. ASSUME NEW l \in DOMAIN logins, Ended(l) PROVE CookieInv'
  BY <1>4, SignInFacts DEF Ended, CookieInv, cookies, Onward
<1>5. ASSUME NEW r \in DOMAIN requests, Goes(r) PROVE CookieInv'
  BY <1>5, SignInFacts DEF Goes, CookieInv, cookies, Onward
<1>6. ASSUME NEW r \in DOMAIN requests, Tells(r) PROVE CookieInv'
  <2> DEFINE b == requests[r].browser
             l == requests[r].login
  <2>1. /\ requests[r].stage = "ok" => logins[l].browser = b /\ central[l] # "none"
        /\ l \in DOMAIN logins
    BY DEF RequestsInv, RequestFits, Past, SignOuts
  <2>2. CookieAfter(r) \in {None, sessionCookie[b]} \/ (requests[r].stage = "ok" /\ CookieAfter(r) = l)
    BY DEF CookieAfter
  <2>3. ASSUME NEW c \in Browser
        PROVE  /\ stateCookie'[c] \in {None, stateCookie[c]}
               /\ \/ sessionCookie'[c] \in {None, sessionCookie[c]}
                  \/ c = b /\ requests[r].stage = "ok" /\ sessionCookie'[c] = l
    BY <1>6, <2>2 DEF Tells, cookies, SignInTypes
  <2>4. UNCHANGED central
    BY <1>6 DEF Tells
  <2> QED BY <2>1, <2>3, <2>4 DEF CookieInv, Onward
<1>7. CASE UNCHANGED loginVars
  BY <1>7 DEF CookieInv, loginVars, signInVars, cookies
<1> QED BY <1>1, <1>2, <1>3, <1>4, <1>5, <1>6, <1>7 DEF SignInStep

LEMMA UnbegunInductive ==
  ASSUME SignInTypes, RequestsInv, UnbegunInv, SignInStep, Onward
  PROVE  UnbegunInv'
<1>1. \A k \in DOMAIN central : central'[k] # "none" => central[k] # "none" \/ k \in DOMAIN logins
  BY DEF SignInStep, Begins, Sends, LoginTurns, Ended, Goes, Tells, RequestsInv, RequestFits,
         loginVars, signInVars
<1> QED BY <1>1 DEF UnbegunInv, Onward


(* A request whose stage is what it was still fits. *)
LEMMA StillFits ==
  ASSUME SignInTypes, RequestsInv, Onward, NEW q \in DOMAIN requests,
         requests'[q].stage = requests[q].stage, requests'[q].answered => requests'[q].stage \in Answers,
         requests[q].stage = "redeem" => central'[requests[q].login] = central[requests[q].login]
  PROVE  RequestFits(requests[q])'
<1> DEFINE l == requests[q].login
<1>1. RequestFits(requests[q]) /\ l \in DOMAIN central /\ None \notin Nat
  BY SignInFacts, NoneIsNothing DEF RequestsInv, RequestFits
<1>2. requests'[q].login = l /\ requests'[q].cookie = requests[q].cookie
      /\ requests'[q].browser = requests[q].browser
  BY DEF Onward, RequestSame
<1> QED BY <1>1, <1>2 DEF RequestFits, Onward

LEMMA RequestsInductive ==
  ASSUME SignInTypes, RequestsInv, CookieInv, ConsumedInv, OnceInv, SignInStep, Onward
  PROVE  RequestsInv'
<1> SUFFICES ASSUME NEW q \in DOMAIN requests' PROVE RequestFits(requests[q])'
  BY DEF RequestsInv
<1>0. \A k \in DOMAIN requests : RequestFits(requests[k]) /\ requests[k].login \in DOMAIN central
  BY SignInFacts DEF RequestsInv, RequestFits
<1>1. ASSUME NEW b \in Browser, Begins(b) PROVE RequestFits(requests[q])'
  <2>1. q \in DOMAIN requests /\ requests' = requests /\ central' = central
    BY <1>1 DEF Begins
  <2> QED BY <1>0, <2>1, StillFits DEF RequestFits
<1>2. ASSUME NEW b \in Browser, Sends(b) PROVE RequestFits(requests[q])'
  <2>1. CASE q \in DOMAIN requests
    BY <1>0, <1>2, <2>1, StillFits DEF Sends, RequestFits
  <2>2. CASE q = Len(requests) + 1
    <3> DEFINE new == requests'[q]
    <3>1. /\ new.browser = b /\ new.cookie = stateCookie[b] /\ ~new.answered
          /\ new.login \in DOMAIN logins /\ logins' = logins /\ central' = central
          /\ \/ new.stage = "consume" /\ logins[new.login].back
             \/ new.stage = "sign-out" /\ sessionCookie[b] = new.login
      BY <1>2, <2>2 DEF Sends
    <3>2. new.login # None /\ (new.stage = "sign-out" => central[new.login] # "none")
      BY <3>1, SignInFacts, NoneIsNothing DEF CookieInv
    <3>3. new.cookie # None => new.cookie \in DOMAIN logins /\ logins[new.cookie].browser = new.browser
      BY <3>1 DEF CookieInv
    <3> HIDE DEF new
    <3>4. /\ new.stage \notin Past /\ new.stage \notin {"denied", "signed-out"}
          /\ new.stage \notin SignOuts => logins[new.login].back
          /\ new.stage \in SignOuts \cup {"introspect", "revoke", "ok", "denied"} =>
               central[new.login] # "none"
      BY <3>1, <3>2 DEF Past, SignOuts
    <3> QED BY <3>1, <3>3, <3>4 DEF RequestFits, new, Past
  <2> QED BY <1>2, <2>1, <2>2 DEF Sends
<1>3. ASSUME NEW l \in DOMAIN logins, LoginTurns(l) PROVE RequestFits(requests[q])'
  <2>1. q \in DOMAIN requests /\ requests' = requests /\ central' = central
    BY <1>3 DEF LoginTurns
  <2> QED BY <1>0, <2>1, StillFits DEF RequestFits
<1>4. ASSUME NEW l \in DOMAIN logins, Ended(l) PROVE RequestFits(requests[q])'
  <2>1. q \in DOMAIN requests /\ requests' = requests /\ central[l] = "live"
        /\ \A k \in DOMAIN central : k # l => central'[k] = central[k]
    BY <1>4 DEF Ended
  <2> QED BY <1>0, <2>1, StillFits DEF RequestFits
<1>5. ASSUME NEW r \in DOMAIN requests, Goes(r) PROVE RequestFits(requests[q])'
  <2> DEFINE l == requests[r].login
  <2>1. q \in DOMAIN requests /\ l \in DOMAIN central /\ l \in DOMAIN logins
    BY <1>0, <1>5 DEF Goes, RequestFits
  <2>2. CASE q # r
    <3>1. requests'[q] = requests[q]
      BY <1>5, <2>1, <2>2 DEF Goes
    <3>2. requests[q].stage = "redeem" => central'[requests[q].login] = central[requests[q].login]
      <4> SUFFICES ASSUME requests[q].stage = "redeem"
                   PROVE  central'[requests[q].login] = central[requests[q].login]
        OBVIOUS
      <4>1. requests[q].login # l \/ requests[r].stage \notin Past
        BY <2>1, <2>2 DEF OnceInv, Past
      <4>2. requests[q].login # l \/ central[l] = "none"
        BY <1>0, <2>1 DEF RequestFits
      <4>3. requests[r].stage = "sign-out" => central[l] # "none"
        BY <1>0 DEF RequestFits, SignOuts
      <4> QED BY <1>0, <1>5, <2>1, <4>1, <4>2, <4>3 DEF Goes, Past
    <3> QED BY <1>0, <2>1, <3>1, <3>2, StillFits DEF RequestFits
  <2>3. CASE q = r
    <3>1. /\ requests'[r].login = l /\ requests'[r].cookie = requests[r].cookie
          /\ requests'[r].browser = requests[r].browser /\ ~requests'[r].answered
          /\ l \in DOMAIN logins'
      BY <1>0, <1>5, <2>1 DEF Goes, RequestSame, RequestFits, Answers
    <3>2. /\ requests[r].cookie # None =>
               requests[r].cookie \in DOMAIN logins' /\ logins'[requests[r].cookie].browser = requests[r].browser
          /\ requests'[r].stage \notin SignOuts => logins'[l].back
      BY <1>0, <1>5, <2>1 DEF RequestFits, Onward
    <3>3. requests[r].stage = "consume" /\ requests'[r].stage = "redeem" =>
            /\ logins'[l].state = "consumed" /\ logins[l].browser = requests[r].browser
            /\ central'[l] = "none"
      <4> SUFFICES ASSUME requests[r].stage = "consume", requests'[r].stage = "redeem"
                   PROVE  /\ logins'[l].state = "consumed" /\ logins[l].browser = requests[r].browser
                          /\ central'[l] = "none"
        OBVIOUS
      <4>1. Matches(requests[r]) /\ Unused(l) /\ logins'[l].state = "consumed" /\ central' = central
        BY <1>5 DEF Goes
      <4>2. central[l] = "none"
        BY <2>1, <4>1 DEF ConsumedInv, Unused
      <4>3. l # None
        BY <2>1, SignInFacts, NoneIsNothing
      <4> QED BY <1>0, <4>1, <4>2, <4>3 DEF Matches, RequestFits
    <3>4. requests'[r].stage \in Past =>
            logins'[l].state = "consumed" /\ logins'[l].browser = requests[r].browser
      BY <1>0, <1>5, <2>1, <3>3 DEF Goes, Past, RequestFits, Onward
    <3>5. /\ requests'[r].stage \in SignOuts \cup {"introspect", "revoke", "ok", "denied"} =>
               central'[l] # "none"
          /\ requests'[r].stage = "redeem" => central'[l] = "none"
          /\ requests'[r].stage \in {"denied", "signed-out"} => central'[l] = "revoked"
      BY <1>0, <1>5, <2>1, <3>3 DEF Goes, SignOuts, RequestFits, Onward
    <3> QED BY <2>3, <3>1, <3>2, <3>4, <3>5 DEF RequestFits
  <2> QED BY <2>2, <2>3
<1>6. ASSUME NEW r \in DOMAIN requests, Tells(r) PROVE RequestFits(requests[q])'
  <2>1. /\ q \in DOMAIN requests /\ requests'[q].stage = requests[q].stage /\ central' = central
        /\ requests[r].stage \in Answers /\ (q # r => requests'[q] = requests[q])
    BY <1>6 DEF Tells
  <2> QED BY <1>0, <2>1, StillFits DEF RequestFits
<1>7. CASE UNCHANGED loginVars
  <2>1. q \in DOMAIN requests /\ requests' = requests /\ central' = central
    BY <1>7 DEF loginVars, signInVars
  <2> QED BY <1>0, <2>1, StillFits DEF RequestFits
<1> QED BY <1>1, <1>2, <1>3, <1>4, <1>5, <1>6, <1>7 DEF SignInStep

LEMMA OnceInductive ==
  ASSUME SignInTypes, RequestsInv, OnceInv, SignInStep, Onward
  PROVE  OnceInv'
<1>1. ASSUME NEW r \in DOMAIN requests, Goes(r) PROVE OnceInv'
  <2> DEFINE l == requests[r].login
  <2>1. DOMAIN requests' = DOMAIN requests
        /\ \A q \in DOMAIN requests : requests'[q].login = requests[q].login
                                      /\ (q # r => requests'[q] = requests[q])
    BY <1>1 DEF Goes, RequestSame
  <2>2. CASE requests'[r].stage \in Past => requests[r].stage \in Past
    BY <2>1, <2>2 DEF OnceInv
  <2>3. CASE requests'[r].stage \in Past /\ requests[r].stage \notin Past
    <3>1. logins[l].state = "issued"
      BY <1>1, <2>3 DEF Goes, Past, Unused
    <3>2. \A q \in DOMAIN requests : requests[q].login = l => requests[q].stage \notin Past
      BY <3>1 DEF RequestsInv, RequestFits
    <3> QED BY <2>1, <3>2 DEF OnceInv
  <2> QED BY <2>2, <2>3
<1>2. ASSUME NEW b \in Browser, Sends(b) PROVE OnceInv'
  <2>1. requests'[Len(requests) + 1].stage \notin Past
    BY <1>2 DEF Sends, Past
  <2> QED BY <1>2, <2>1 DEF Sends, OnceInv
<1>3. CASE \/ \E b \in Browser : Begins(b)
           \/ \E l \in DOMAIN logins : LoginTurns(l) \/ Ended(l)
           \/ \E r \in DOMAIN requests : Tells(r)
           \/ UNCHANGED loginVars
  <2>1. DOMAIN requests' = DOMAIN requests
        /\ \A q \in DOMAIN requests : /\ requests'[q].login = requests[q].login
                                      /\ requests'[q].stage = requests[q].stage
    BY <1>3 DEF Begins, LoginTurns, Ended, Tells, RequestSame, loginVars, signInVars
  <2> QED BY <2>1 DEF OnceInv
<1> QED BY <1>1, <1>2, <1>3 DEF SignInStep

LEMMA ConsumedInductive ==
  ASSUME SignInTypes, RequestsInv, ConsumedInv, UnbegunInv, SignInStep, Onward, SignInTypes'
  PROVE  ConsumedInv'
<1> DEFINE Fits(k) ==
       /\ central[k] # "none" => logins[k].state = "consumed"
       /\ logins[k].state = "consumed" /\ ~logins[k].spoiled =>
            \E q \in DOMAIN requests : /\ requests[q].login = k /\ requests[q].stage \notin SignOuts
                                       /\ requests[q].stage # "consume"
<1> SUFFICES ASSUME NEW k \in DOMAIN logins' PROVE Fits(k)'
  BY DEF ConsumedInv
(* Whatever was consumed, by a request or before the first, stays so. *)
<1>1. ASSUME k \in DOMAIN logins, logins'[k].state = "consumed" => logins[k].state = "consumed",
             central'[k] # "none" => central[k] # "none" \/ logins[k].state = "consumed"
      PROVE Fits(k)'
  <2>1. Fits(k)
    BY <1>1 DEF ConsumedInv
  <2>2. central'[k] # "none" => logins'[k].state = "consumed"
    BY <1>1, <2>1 DEF Onward
  <2>3. ASSUME logins'[k].state = "consumed", ~logins'[k].spoiled
        PROVE  \E q \in DOMAIN requests' : /\ requests'[q].login = k /\ requests'[q].stage \notin SignOuts
                                           /\ requests'[q].stage # "consume"
    <3>1. ~logins[k].spoiled /\ logins[k].state = "consumed"
      BY <1>1, <2>3 DEF Onward
    <3>2. PICK q \in DOMAIN requests : /\ requests[q].login = k /\ requests[q].stage \notin SignOuts
                                       /\ requests[q].stage # "consume"
      BY <2>1, <3>1
    <3> QED BY <3>2 DEF Onward, RequestSame
  <2> QED BY <2>2, <2>3
<1>2. ASSUME NEW b \in Browser, Begins(b) PROVE Fits(k)'
  <2>1. CASE k \in DOMAIN logins
    <3>1. logins'[k].state = logins[k].state /\ central' = central
      BY <1>2, <2>1 DEF Begins, LoginSame
    <3> QED BY <1>1, <2>1, <3>1
  <2>2. CASE k \notin DOMAIN logins
    <3>1. k = Len(logins) + 1 /\ logins'[k] = Issued(b) /\ central' = central
      BY <1>2, <2>2 DEF Begins
    <3>2. logins'[k].state = "issued"
      BY <3>1 DEF Issued
    <3>3. k \in DOMAIN central' => central'[k] = "none"
      BY <2>2, <3>1 DEF UnbegunInv
    <3>4. k \in DOMAIN central'
      <4>1. k \in 1..Len(logins') /\ Len(logins') \in Nat /\ Len(logins') <= bounds'.logins
        BY DEF SignInTypes
      <4>2. DOMAIN central' = 1..bounds'.logins /\ bounds'.logins \in Nat
        BY DEF SignInTypes
      <4> QED BY <4>1, <4>2
    <3> QED BY <3>2, <3>3, <3>4
  <2> QED BY <2>1, <2>2
<1>3. ASSUME NEW b \in Browser, Sends(b) PROVE Fits(k)'
  BY <1>1, <1>3 DEF Sends
<1>4. ASSUME NEW l \in DOMAIN logins, LoginTurns(l) PROVE Fits(k)'
  <2>1. k \in DOMAIN logins /\ central' = central
        /\ (logins'[k].state = "consumed" => logins[k].state = "consumed")
    BY <1>4 DEF LoginTurns
  <2> QED BY <1>1, <2>1
<1>5. ASSUME NEW l \in DOMAIN logins, Ended(l) PROVE Fits(k)'
  <2>1. k \in DOMAIN logins /\ logins' = logins /\ (central'[k] # "none" => central[k] # "none")
    BY <1>5, SignInFacts DEF Ended
  <2> QED BY <1>1, <2>1
<1>6. ASSUME NEW r \in DOMAIN requests, Goes(r) PROVE Fits(k)'
  <2>1. k \in DOMAIN logins /\ k \in DOMAIN central
    BY <1>6, SignInFacts DEF Goes
  <2>2. requests[r].stage \in {"redeem", "introspect", "revoke"} =>
          logins[requests[r].login].state = "consumed"
    BY DEF RequestsInv, RequestFits, Past
  <2>3. requests[r].stage = "sign-out" => central[requests[r].login] # "none"
    BY DEF RequestsInv, RequestFits, SignOuts
  <2>4. central'[k] # "none" => central[k] # "none" \/ logins[k].state = "consumed"
    BY <1>6, <2>1, <2>2, <2>3 DEF Goes
  <2>5. CASE logins'[k].state = "consumed" => logins[k].state = "consumed"
    BY <1>1, <2>1, <2>4, <2>5
  <2>6. CASE logins'[k].state = "consumed" /\ logins[k].state # "consumed"
    <3>1. /\ k = requests[r].login /\ requests[r].stage = "consume"
          /\ requests'[r].stage \in {"redeem", "failed"}
      BY <1>6, <2>1, <2>6 DEF Goes
    <3>2. requests'[r].login = k /\ r \in DOMAIN requests'
      BY <3>1 DEF Onward, RequestSame
    <3> QED BY <2>6, <3>1, <3>2 DEF SignOuts
  <2> QED BY <2>5, <2>6
<1>7. ASSUME NEW r \in DOMAIN requests, Tells(r) PROVE Fits(k)'
  <2>1. k \in DOMAIN logins /\ central' = central /\ logins'[k].state = logins[k].state
    BY <1>7 DEF Tells, LoginSame
  <2> QED BY <1>1, <2>1
<1>8. CASE UNCHANGED loginVars
  BY <1>1, <1>8 DEF loginVars, signInVars
<1> QED BY <1>2, <1>3, <1>4, <1>5, <1>6, <1>7, <1>8 DEF SignInStep

(* A rival stays one. *)
LEMMA RivalsStay ==
  ASSUME Onward, NEW r \in DOMAIN requests, Rival(r)
  PROVE  Rival(r)'
<1>1. PICK q \in DOMAIN requests :
        q # r /\ requests[q].login = requests[r].login /\ requests[q].stage \notin SignOuts
  BY DEF Rival
<1>2. /\ q \in DOMAIN requests' /\ requests'[q].login = requests'[r].login
      /\ requests'[q].stage \notin SignOuts
  BY <1>1 DEF Onward, RequestSame
<1> QED BY <1>1, <1>2 DEF Rival

LEMMA OwnCookieInductive ==
  ASSUME SignInTypes, RequestsInv, CookieInv, OwnCookieInv, SignInStep, Onward
  PROVE  OwnCookieInv'
<1> DEFINE Told(k) == \E q \in DOMAIN requests : /\ requests[q].login = k /\ requests[q].answered
                                                 /\ requests[q].stage \notin SignOuts
           Kept(k) == ~logins[k].spoiled => stateCookie[logins[k].browser] = k \/ Told(k)
           Brings(r) == LET q == requests[r] IN
                          \/ q.stage \in SignOuts \/ q.cookie = q.login \/ logins[q.login].spoiled
                          \/ q.browser # logins[q.login].browser \/ Rival(r)
<1>1. \A k \in DOMAIN logins : Kept(k)
  BY DEF OwnCookieInv
<1>2. \A k \in DOMAIN logins : Told(k) => Told(k)'
  <2> SUFFICES ASSUME NEW k \in DOMAIN logins, Told(k) PROVE Told(k)'
    OBVIOUS
  <2>1. PICK q \in DOMAIN requests : /\ requests[q].login = k /\ requests[q].answered
                                     /\ requests[q].stage \notin SignOuts
    OBVIOUS
  <2> QED BY <2>1 DEF Onward, RequestSame
<1>3. ASSUME NEW k \in DOMAIN logins' PROVE Kept(k)'
  <2> HIDE DEF Told
  <2>1. ASSUME k \in DOMAIN logins, stateCookie' = stateCookie PROVE Kept(k)'
    BY <1>1, <1>2, <2>1 DEF Onward
  <2>2. ASSUME NEW b \in Browser, Begins(b) PROVE Kept(k)'
    <3>1. \A c \in Browser : stateCookie'[c] = IF c = b THEN Len(logins) + 1 ELSE stateCookie[c]
      BY <2>2 DEF Begins, SignInTypes
    <3>2. CASE k = Len(logins) + 1
      BY <2>2, <3>1, <3>2 DEF Begins, Issued
    <3>3. CASE k \in DOMAIN logins
      <4>1. logins[k].browser \in Browser /\ logins'[k].browser = logins[k].browser
            /\ (logins'[k].spoiled <=> logins[k].spoiled \/ k = stateCookie[b])
        BY <2>2, <3>3, SignInFacts DEF Begins, LoginSame, ALogin
      <4> QED BY <1>1, <1>2, <3>1, <3>3, <4>1
    <3> QED BY <2>2, <3>2, <3>3 DEF Begins
  <2>3. ASSUME NEW r \in DOMAIN requests, Tells(r) PROVE Kept(k)'
    <3> DEFINE b == requests[r].browser
               l == requests[r].login
    <3>1. k \in DOMAIN logins /\ logins[k].browser \in Browser /\ logins'[k].browser = logins[k].browser
      BY <2>3, SignInFacts DEF Tells, ALogin, LoginSame
    <3>2. CASE UNCHANGED cookies \/ requests[r].stage \in SignOuts
      <4>1. stateCookie' = stateCookie
        BY <2>3, <3>2 DEF Tells, cookies, SignInTypes
      <4> QED BY <2>1, <3>1, <4>1
    <3>3. CASE ~UNCHANGED cookies /\ requests[r].stage \notin SignOuts
      <4>1. /\ \A c \in Browser : c # b => stateCookie'[c] = stateCookie[c]
            /\ logins'[k].spoiled <=> logins[k].spoiled \/ (k = stateCookie[b] /\ k # l)
        BY <2>3, <3>1, <3>3 DEF Tells, SignInTypes
      <4>2. CASE k = l
        <5>1. requests'[r].answered /\ requests'[r].login = k /\ requests'[r].stage \notin SignOuts
              /\ r \in DOMAIN requests'
          BY <2>3, <3>3, <4>2 DEF Tells, RequestSame
        <5>2. Told(k)'
          BY <5>1 DEF Told
        <5> QED BY <5>2
      <4>3. CASE k # l
        BY <1>1, <1>2, <3>1, <4>1, <4>3
      <4> QED BY <4>2, <4>3
    <3> QED BY <3>2, <3>3
  <2>4. CASE \/ \E b \in Browser : Sends(b)
             \/ \E l \in DOMAIN logins : LoginTurns(l) \/ Ended(l)
             \/ \E r \in DOMAIN requests : Goes(r)
             \/ UNCHANGED loginVars
    <3>1. stateCookie' = stateCookie /\ DOMAIN logins' = DOMAIN logins
      BY <2>4 DEF Sends, LoginTurns, Ended, Goes, cookies, loginVars, signInVars
    <3> QED BY <2>1, <3>1
  <2> QED BY <2>2, <2>3, <2>4 DEF SignInStep
<1>4. ASSUME NEW r \in DOMAIN requests' PROVE Brings(r)'
  <2>1. CASE r \in DOMAIN requests
    <3>1. Brings(r) /\ requests[r].login \in DOMAIN logins
      BY <2>1 DEF OwnCookieInv, RequestsInv, RequestFits
    <3>2. Rival(r) => Rival(r)'
      BY <2>1, RivalsStay
    <3> QED BY <2>1, <3>1, <3>2 DEF Onward, RequestSame
  <2>2. CASE r \notin DOMAIN requests
    <3>1. PICK b \in Browser : Sends(b)
      BY <2>2 DEF SignInStep, Begins, LoginTurns, Ended, Goes, Tells, loginVars, signInVars
    <3> DEFINE new == requests'[r]
               l == new.login
    <3>2. /\ new.browser = b /\ new.cookie = stateCookie[b] /\ l \in DOMAIN logins
          /\ logins' = logins /\ stateCookie' = stateCookie
      BY <2>2, <3>1 DEF Sends, cookies
    <3> SUFFICES ASSUME new.stage \notin SignOuts, new.cookie # l, ~logins[l].spoiled,
                        b = logins[l].browser
                 PROVE  Rival(r)'
      BY <3>2
    <3>3. PICK q \in DOMAIN requests : /\ requests[q].login = l /\ requests[q].answered
                                       /\ requests[q].stage \notin SignOuts
      BY <1>1, <3>2
    <3>4. q # r /\ q \in DOMAIN requests' /\ requests'[q] = requests[q]
      BY <2>2, <3>1 DEF Sends
    <3> QED BY <3>3, <3>4 DEF Rival
  <2> QED BY <2>1, <2>2
<1> QED BY <1>3, <1>4 DEF OwnCookieInv

LEMMA ErrorInductive ==
  ASSUME SignInTypes, RequestsInv, ConsumedInv, OwnCookieInv, ErrorInv, SignInStep, Onward
  PROVE  ErrorInv'
<1> DEFINE Reason(r) == LET l == requests[r].login IN
             \/ logins[l].user = None \/ logins[l].spoiled \/ logins[l].state = "expired"
             \/ requests[r].failed \/ requests[r].browser # logins[l].browser \/ Rival(r)
<1> SUFFICES ASSUME NEW r \in DOMAIN requests', requests'[r].stage = "error" PROVE Reason(r)'
  BY DEF ErrorInv
(* A reason stays one. *)
<1>1. ASSUME r \in DOMAIN requests, Reason(r) PROVE Reason(r)'
  <2>1. Rival(r) => Rival(r)'
    BY <1>1, RivalsStay
  <2>2. requests[r].login \in DOMAIN logins /\ logins[requests[r].login].back
    <3>1. requests[r].stage \in SignOuts <=> requests'[r].stage \in SignOuts
      BY <1>1 DEF Onward
    <3>2. requests[r].stage \notin SignOuts
      BY <3>1 DEF SignOuts
    <3> QED BY <1>1, <3>2 DEF RequestsInv, RequestFits
  <2> QED BY <1>1, <2>1, <2>2 DEF Onward, RequestSame
<1>2. CASE r \in DOMAIN requests /\ requests[r].stage = "error"
  <2>1. Reason(r)
    BY <1>2 DEF ErrorInv
  <2> QED BY <1>1, <1>2, <2>1
<1>3. CASE r \in DOMAIN requests /\ requests[r].stage # "error"
  <2> DEFINE l == requests[r].login
  <2>1. Goes(r)
    BY <1>3 DEF SignInStep, Begins, Sends, LoginTurns, Ended, Goes, Tells, loginVars, signInVars
  <2>2. l \in DOMAIN logins /\ requests[r].stage \notin SignOuts
        /\ (requests[r].stage = "redeem" => central[l] = "none")
    BY <1>3, <2>1 DEF RequestsInv, RequestFits, Goes, SignOuts
  <2>3. \/ requests'[r].failed
        \/ requests[r].stage = "consume" /\ ~(Matches(requests[r]) /\ Unused(l))
    BY <1>3, <2>1, <2>2 DEF Goes
  <2>4. CASE requests'[r].failed
    BY <2>4
  <2>5. CASE requests[r].stage = "consume" /\ ~Matches(requests[r])
    BY <1>1, <1>3, <2>2, <2>5 DEF Matches, OwnCookieInv
  <2>6. CASE requests[r].stage = "consume" /\ ~Unused(l)
    <3>1. logins[l].state \in {"consumed", "expired"}
      BY <2>2, <2>6, SignInFacts DEF Unused, ALogin
    <3>2. CASE logins[l].state = "consumed" /\ ~logins[l].spoiled
      <4>1. PICK q \in DOMAIN requests : /\ requests[q].login = l /\ requests[q].stage \notin SignOuts
                                         /\ requests[q].stage # "consume"
        BY <2>2, <3>2 DEF ConsumedInv
      <4>2. Rival(r)
        BY <2>6, <4>1 DEF Rival
      <4> QED BY <1>1, <1>3, <4>2
    <3> QED BY <1>1, <1>3, <3>1, <3>2
  <2> QED BY <2>3, <2>4, <2>5, <2>6
<1>4. CASE r \notin DOMAIN requests
  <2>1. PICK b \in Browser : Sends(b)
    BY <1>4 DEF SignInStep, Begins, LoginTurns, Ended, Goes, Tells, loginVars, signInVars
  <2> QED BY <1>4, <2>1 DEF Sends
<1> QED BY <1>2, <1>3, <1>4

LEMMA HeldInductive ==
  ASSUME SignInTypes, RequestsInv, CookieInv, UnbegunInv, HeldInv, SignInStep, Onward, SignInTypes'
  PROVE  HeldInv'
<1> DEFINE Waits(q, k) ==
             /\ requests[q].login = k /\ requests[q].stage \notin SignOuts
             /\ \/ requests[q].failed
                \/ ~requests[q].answered /\ requests[q].stage \in {"introspect", "revoke", "ok"}
           Held(k) == \/ \E b \in Browser : sessionCookie[b] = k
                      \/ k \in dropped
                      \/ \E q \in DOMAIN requests : Waits(q, k)
<1> SUFFICES ASSUME NEW k \in DOMAIN logins', central'[k] = "live" PROVE Held(k)'
  BY DEF HeldInv
<1>1. k \in DOMAIN central
  <2>1. k \in 1..Len(logins') /\ Len(logins') \in Nat /\ Len(logins') <= bounds'.logins
    BY DEF SignInTypes
  <2>2. DOMAIN central' = 1..bounds'.logins /\ bounds'.logins \in Nat
    BY DEF SignInTypes
  <2> QED BY <2>1, <2>2 DEF Onward
<1>2. ASSUME central[k] = "live" PROVE k \in DOMAIN logins /\ Held(k)
  BY <1>1, <1>2 DEF UnbegunInv, HeldInv
<1>3. CASE \/ \E b \in Browser : Begins(b) \/ Sends(b)
           \/ \E l \in DOMAIN logins : LoginTurns(l) \/ Ended(l)
           \/ UNCHANGED loginVars
  <2>1. /\ central[k] = "live" /\ sessionCookie' = sessionCookie /\ dropped' = dropped
        /\ \A q \in DOMAIN requests : q \in DOMAIN requests' /\ requests'[q] = requests[q]
    BY <1>1, <1>3 DEF Begins, Sends, LoginTurns, Ended, cookies, loginVars, signInVars
  <2>2. Held(k)
    BY <1>2, <2>1
  <2> QED BY <2>1, <2>2
<1>4. ASSUME NEW r \in DOMAIN requests, Goes(r) PROVE Held(k)'
  <2>0. /\ sessionCookie' = sessionCookie /\ dropped' = dropped
        /\ \A q \in DOMAIN requests : q # r => requests'[q] = requests[q]
        /\ DOMAIN requests' = DOMAIN requests
        /\ requests'[r].login = requests[r].login /\ requests'[r].answered = requests[r].answered
        /\ (requests[r].failed => requests'[r].failed)
        /\ (requests[r].stage \in SignOuts <=> requests'[r].stage \in SignOuts)
    BY <1>4 DEF Goes, cookies, RequestSame, Onward
  <2>1. CASE central[k] = "live"
    <3>1. Held(k)
      BY <1>2, <2>1
    <3>2. CASE \E b \in Browser : sessionCookie[b] = k
      BY <2>0, <3>2
    <3>3. CASE k \in dropped
      BY <2>0, <3>3
    <3>4. CASE \E q \in DOMAIN requests : Waits(q, k)
      <4>1. PICK q \in DOMAIN requests : Waits(q, k)
        BY <3>4
      <4>2. CASE q # r
        BY <2>0, <4>1, <4>2
      <4>3. CASE q = r
        <5>1. requests'[r].failed \/ requests'[r].stage \in {"introspect", "revoke", "ok"}
          BY <1>1, <1>4, <2>1, <4>1, <4>3 DEF Goes
        <5>2. requests[r].failed \/ ~requests[r].answered
          BY <4>1, <4>3
        <5>3. Waits(r, k)'
          BY <2>0, <4>1, <4>3, <5>1, <5>2
        <5> QED BY <2>0, <5>3
      <4> QED BY <4>2, <4>3
    <3> QED BY <3>1, <3>2, <3>3, <3>4
  <2>2. CASE central[k] # "live"
    <3>1. /\ k = requests[r].login /\ requests[r].stage = "redeem"
          /\ requests'[r].stage = "introspect" \/ requests'[r].failed
      BY <1>1, <1>4, <2>2 DEF Goes
    <3>2. ~requests[r].answered
      BY <3>1 DEF RequestsInv, RequestFits, Answers
    <3>3. requests[r].stage \notin SignOuts
      BY <3>1 DEF SignOuts
    <3>4. Waits(r, k)'
      BY <2>0, <3>1, <3>2, <3>3
    <3> QED BY <2>0, <3>4
  <2> QED BY <2>1, <2>2
<1>5. ASSUME NEW r \in DOMAIN requests, Tells(r) PROVE Held(k)'
  <2> DEFINE b == requests[r].browser
             l == requests[r].login
  <2>0. /\ DOMAIN requests' = DOMAIN requests /\ central[k] = "live" /\ b \in Browser
        /\ \A q \in DOMAIN requests :
             /\ RequestSame(q) /\ requests'[q].stage = requests[q].stage
             /\ q # r => requests'[q] = requests[q]
             /\ requests[q].failed => requests'[q].failed
    BY <1>5, SignInFacts DEF Tells, ARequest
  <2>1. Held(k) /\ k \in DOMAIN logins
    BY <1>2, <2>0
  <2>2. CASE UNCHANGED cookies /\ requests'[r].failed
    <3>1. \A q \in DOMAIN requests : Waits(q, k) => Waits(q, k)'
      BY <2>0, <2>2 DEF RequestSame
    <3> QED BY <2>0, <2>1, <2>2, <3>1 DEF cookies
  <2>3. CASE ~(UNCHANGED cookies /\ requests'[r].failed)
    <3>1. /\ \A c \in Browser : sessionCookie'[c] = IF c = b THEN CookieAfter(r) ELSE sessionCookie[c]
          /\ dropped' = dropped \cup ({sessionCookie[b]} \ {None, l, CookieAfter(r)})
      BY <1>5, <2>3 DEF Tells, SignInTypes, cookies
    <3>2. CASE \E c \in Browser : sessionCookie[c] = k
      <4>1. PICK c \in Browser : sessionCookie[c] = k
        BY <3>2
      <4>2. CASE c # b \/ CookieAfter(r) = k
        BY <2>0, <3>1, <4>1, <4>2
      <4>3. CASE c = b /\ CookieAfter(r) # k
        <5>1. k # None
          BY <2>1, SignInFacts, NoneIsNothing
        <5>2. k # l
          <6>1. CookieAfter(r) # sessionCookie[b]
            BY <4>1, <4>3
          <6>2. requests[r].stage = "ok" => CookieAfter(r) = l
            BY DEF CookieAfter
          <6>3. requests[r].stage = "signed-out" => central[l] = "revoked"
            BY DEF RequestsInv, RequestFits
          <6>4. requests[r].stage \in {"ok", "signed-out"}
            BY <6>1 DEF CookieAfter
          <6> QED BY <2>0, <4>3, <6>2, <6>3, <6>4
        <5>3. k \in dropped'
          BY <3>1, <4>1, <4>3, <5>1, <5>2
        <5> QED BY <5>3
      <4> QED BY <4>2, <4>3
    <3>3. CASE k \in dropped
      BY <3>1, <3>3
    <3>4. CASE \E q \in DOMAIN requests : Waits(q, k)
      <4>1. PICK q \in DOMAIN requests : Waits(q, k)
        BY <3>4
      <4>2. CASE q # r \/ requests[r].failed
        <5>1. Waits(q, k)'
          BY <2>0, <4>1, <4>2 DEF RequestSame
        <5> QED BY <2>0, <5>1
      <4>3. CASE q = r /\ ~requests[r].failed
        <5>1. requests[r].stage = "ok" /\ l = k
          BY <1>5, <4>1, <4>3 DEF Tells, Answers
        <5>2. CookieAfter(r) = k
          BY <5>1 DEF CookieAfter
        <5> QED BY <2>0, <3>1, <5>2
      <4> QED BY <4>2, <4>3
    <3> QED BY <2>1, <3>2, <3>3, <3>4
  <2> QED BY <2>2, <2>3
<1> QED BY <1>3, <1>4, <1>5 DEF SignInStep

LEMMA SignInInductive ==
  ASSUME SignInInv, SigningIn \/ UNCHANGED loginVars
  PROVE  SignInInv'
<1>1. SignInStep /\ SignInTypes'
  BY SignInSteps DEF SignInInv
<1>2. Onward
  BY <1>1, StepsGoOnward DEF SignInInv
<1> QED BY <1>1, <1>2, CookieInductive, RequestsInductive, ConsumedInductive, UnbegunInductive,
           OwnCookieInductive, ErrorInductive, HeldInductive, OnceInductive DEF SignInInv

LEMMA SignInStarts == ASSUME LoginInit PROVE SignInInv
<1> DEFINE sessions == [l \in DOMAIN bounds.in |-> Opened(bounds.in[l].browser, bounds.in[l].user)]
<1>1. /\ bounds \in Beginnings /\ logins = sessions /\ requests = <<>> /\ dropped = {}
      /\ central = [l \in 1..bounds.logins |-> IF l \in DOMAIN bounds.in THEN "live" ELSE "none"]
      /\ stateCookie = [b \in Browser |-> None]
      /\ sessionCookie = [b \in Browser |->
           IF Holds(b, logins) = {} THEN None ELSE CHOOSE l \in Holds(b, logins) : TRUE]
  BY DEF LoginInit
<1>2. /\ bounds.in \in Seq([browser: Browser, user: User]) /\ bounds.logins \in Nat
      /\ Len(bounds.in) <= bounds.logins
      /\ \A i, j \in DOMAIN bounds.in : bounds.in[i].browser = bounds.in[j].browser => i = j
  BY <1>1, BeginningsFit
<1>3. /\ logins \in Seq(ALogin) /\ Len(logins) = Len(bounds.in) /\ DOMAIN logins = DOMAIN bounds.in
      /\ DOMAIN logins = 1..Len(bounds.in)
  <2>1. \A l \in DOMAIN bounds.in : bounds.in[l] \in [browser: Browser, user: User]
    <3> DEFINE Seats == [browser: Browser, user: User]
    <3>1. bounds.in \in Seq(Seats)
      BY <1>2
    <3> HIDE DEF Seats
    <3>2. \A l \in DOMAIN bounds.in : bounds.in[l] \in Seats
      BY <3>1
    <3> QED BY <3>2 DEF Seats
  <2>2. sessions \in [1..Len(bounds.in) -> ALogin]
    BY <1>2, <2>1 DEF Opened, ALogin
  <2> QED BY <1>1, <1>2, <2>2
<1>4. \A l \in DOMAIN logins :
        /\ logins[l].browser = bounds.in[l].browser /\ logins[l].state = "consumed"
        /\ logins[l].spoiled /\ l \in Nat /\ central[l] = "live"
  BY <1>1, <1>2, <1>3 DEF Opened
<1>5. \A b \in Browser :
        \/ sessionCookie[b] = None
        \/ sessionCookie[b] \in DOMAIN logins /\ logins[sessionCookie[b]].browser = b
  BY <1>1 DEF Holds
<1>6. SignInTypes
  <2>1. central \in [1..bounds.logins -> Session]
    BY <1>1 DEF Session
  <2>2. stateCookie \in [Browser -> Nat \cup {None}] /\ sessionCookie \in [Browser -> Nat \cup {None}]
    BY <1>1, <1>4, <1>5
  <2>3. requests \in Seq(ARequest)
    BY <1>1
  <2> QED BY <1>1, <1>2, <1>3, <2>1, <2>2, <2>3 DEF SignInTypes
<1>7. DOMAIN requests = {}
  <2>1. requests = <<>>
    BY <1>1
  <2> QED BY <2>1
<1>8. CookieInv
  <2>1. \A b \in Browser : stateCookie[b] = None
    BY <1>1
  <2>2. \A l \in DOMAIN logins : central[l] # "none"
    BY <1>4
  <2> QED BY <1>5, <2>1, <2>2 DEF CookieInv
<1>9. RequestsInv /\ ErrorInv /\ OnceInv
  BY <1>7 DEF RequestsInv, ErrorInv, OnceInv
<1>10. ConsumedInv /\ OwnCookieInv
  BY <1>4, <1>7 DEF ConsumedInv, OwnCookieInv
<1>11. UnbegunInv
  BY <1>1, <1>3 DEF UnbegunInv
<1>12. HeldInv
  <2> SUFFICES ASSUME NEW l \in DOMAIN logins PROVE \E b \in Browser : sessionCookie[b] = l
    BY DEF HeldInv
  <2> DEFINE b == logins[l].browser
  <2>1. b \in Browser
    BY <1>6, SignInFacts DEF ALogin
  <2>2. l \in Holds(b, logins) /\ \A k \in Holds(b, logins) : k = l
    BY <1>2, <1>3, <1>4 DEF Holds
  <2>3. sessionCookie[b] = l
    BY <1>1, <2>1, <2>2
  <2> QED BY <2>1, <2>3
<1> QED BY <1>6, <1>8, <1>9, <1>10, <1>11, <1>12 DEF SignInInv

(* The run's properties of signing in follow. *)
LEMMA SignInSafe ==
  ASSUME SignInInv
  PROVE  SessionsTyped /\ OneAdmission /\ OnlyRivalsSpoil /\ NoStraySession
<1> USE DEF SignInInv
<1>1. SessionsTyped
  <2>1. \A l \in DOMAIN logins : logins[l].state \in {"issued", "consumed", "expired"}
    BY SignInFacts DEF ALogin
  <2>2. \A l \in DOMAIN logins : central[l] # "none" => logins[l].state = "consumed"
    BY DEF ConsumedInv
  <2>3. \A l \in DOMAIN central : central[l] \in {"none", "live", "revoked"}
    BY DEF SignInTypes, Session
  <2>4. \A b \in Browser :
          stateCookie[b] \in {None} \cup DOMAIN logins /\ sessionCookie[b] \in {None} \cup DOMAIN logins
    BY DEF CookieInv
  <2>5. \A r \in DOMAIN requests : requests[r].stage \in Answers \cup Awaits
    BY SignInFacts DEF ARequest
  <2> QED BY <2>1, <2>2, <2>3, <2>4, <2>5 DEF SessionsTyped, SignInTypes
<1>2. OneAdmission
  <2>1. AdmittedOnce
    BY DEF AdmittedOnce, Callbacks, OnceInv, Past
  <2>2. OwnLogin
    BY DEF OwnLogin, CookieInv
  <2> QED BY <2>1, <2>2 DEF OneAdmission
<1>3. OnlyRivalsSpoil
  <2>1. \A r \in DOMAIN requests : Rival(r) => Callbacks(requests[r].login) # {r}
    BY DEF Rival, Callbacks, SignOuts
  <2> QED BY <2>1 DEF OnlyRivalsSpoil, ErrorInv
<1>4. NoStraySession
  <2> SUFFICES ASSUME NEW l \in DOMAIN logins, central[l] = "live",
                      NEW q \in DOMAIN requests, requests[q].login = l, requests[q].stage \notin SignOuts,
                      ~requests[q].answered \/ requests[q].failed
               PROVE  \E r \in Callbacks(l) : ~requests[r].answered \/ requests[r].failed
    BY DEF NoStraySession, HeldInv
  <2>1. q \in Callbacks(l)
    BY DEF Callbacks, SignOuts
  <2> QED BY <2>1
<1> QED BY <1>1, <1>2, <1>3, <1>4

-----------------------------------------------------------------------------
(* The Users screen.  A step is of one screen, or changes what Identity    *)
(* keeps: the rest is as it was.                                           *)

LEMMA ScreenFacts ==
  ASSUME ScreenTypes, \A c \in calls : CallFits(c), NEW b \in Browser
  PROVE  /\ page[b] \in Page /\ Mine(b) \subseteq calls
         /\ page[b].users # None => page[b].users \in Members
         /\ page[b].form # None => page[b].form \in Form
         /\ \A c \in Mine(b) : /\ c \in ACall /\ c.browser = b /\ CallFits(c)
                               /\ c.form # None => c.form \in Form
                               /\ c.kind = "load" /\ c.stage = "done" => c.users \in Members
         /\ \A u \in User : members[u] \in Member
<1>1. page[b] \in Page /\ Mine(b) \subseteq calls /\ \A u \in User : members[u] \in Member
  BY DEF ScreenTypes, Mine, Members
<1>2. (page[b].users # None => page[b].users \in Members) /\ (page[b].form # None => page[b].form \in Form)
  BY <1>1 DEF Page
<1>3. \A c \in Mine(b) : c \in ACall /\ c.browser = b /\ CallFits(c)
  BY DEF ScreenTypes, Mine
<1>4. \A c \in Mine(b) : c.form # None => c.form \in Form
  BY <1>3 DEF ACall
<1> QED BY <1>1, <1>2, <1>3, <1>4 DEF CallFits

(* What happens elsewhere, be it to a member, takes nothing from a screen. *)
Spares(b) ==
    \/ members' = members
    \/ \E u \in User : /\ \A v \in User \ {u} : members'[v] = members[v]
                       /\ members'[u].version = members[u].version + 1 /\ members'[u].by # b

LEMMA ListsSpared ==
  ASSUME members \in Members, NEW b \in Browser, Spares(b), NEW list \in Members
  PROVE  (Current(list, b) => Current(list, b)') /\ (Older(list) => Older(list)')
<1>1. \A v \in User : members[v].version \in Nat /\ list[v].version \in Nat
  BY DEF Members, Member
<1> QED BY <1>1 DEF Spares, Current, Older

LEMMA FormsSpared ==
  ASSUME members \in Members, NEW b \in Browser, Spares(b), NEW form \in Form, FormCurrent(form, b)
  PROVE  FormCurrent(form, b)'
<1>1. \A v \in User : members[v].version \in Nat
  BY DEF Members, Member
<1>2. form.user \in User /\ form.version \in Nat
  BY DEF Form
<1>3. CASE members' = members
  BY <1>3 DEF FormCurrent
<1>4. ASSUME NEW u \in User, \A v \in User \ {u} : members'[v] = members[v],
             members'[u].version = members[u].version + 1, members'[u].by # b
      PROVE  FormCurrent(form, b)'
  <2>1. CASE form.user = u
    <3>1. members[u].version >= form.version
      BY <1>1, <1>2, <2>1 DEF FormCurrent
    <3> QED BY <1>1, <1>2, <1>4, <2>1, <3>1 DEF FormCurrent
  <2>2. CASE form.user # u
    BY <1>2, <1>4, <2>2 DEF FormCurrent
  <2> QED BY <2>1, <2>2
<1> QED BY <1>3, <1>4 DEF Spares

LEMMA Elsewhere ==
  ASSUME ScreenTypes, \A c \in calls : CallFits(c), NEW b \in Browser, ScreenFits(b),
         page'[b] = page[b], Mine(b)' = Mine(b), Spares(b)
  PROVE  ScreenFits(b)'
<1>1. AloneAt(b)' /\ LockAt(b)'
  BY DEF ScreenFits, AloneAt, LockAt
<1>2. \A list \in Members : (Current(list, b) => Current(list, b)') /\ (Older(list) => Older(list)')
  BY ListsSpared DEF ScreenTypes
<1>3. \A form \in Form : FormCurrent(form, b) => FormCurrent(form, b)'
  BY FormsSpared DEF ScreenTypes
<1>4. ListAt(b)'
  <2>1. ListAt(b)
    BY DEF ScreenFits
  <2>2. page'[b].users # None => page'[b].users \in Members /\ Older(page[b].users)'
    BY <1>2, <2>1, ScreenFacts DEF ListAt
  <2> SUFFICES ASSUME ~page[b].doubt
               PROVE  /\ page[b].users # None =>
                           \/ Current(page[b].users, b)'
                           \/ \E c \in Mine(b) : c.kind = "load" \/ c.stage = "done"
                      /\ \A c \in Mine(b) : c.kind = "load" /\ c.stage = "done" => Current(c.users, b)'
    BY <2>2 DEF ListAt
  <2> QED BY <1>2, <2>1, ScreenFacts DEF ListAt
<1>5. FormAt(b)'
  <2>1. FormAt(b)
    BY DEF ScreenFits
  <2>2. ASSUME page[b].form # None, page[b].form.sure
        PROVE  /\ page[b].form.alone /\ ~page[b].doubt
               /\ \/ FormCurrent(page[b].form, b)'
                  \/ \E c \in Mine(b) : c.kind # "load" /\ c.stage = "done" /\ c.user = page[b].form.user
    <3>1. page[b].form \in Form
      BY <2>2, ScreenFacts
    <3>2. FormCurrent(page[b].form, b) => FormCurrent(page[b].form, b)'
      BY <1>3, <3>1
    <3> QED BY <2>1, <2>2, <3>2 DEF FormAt
  <2>3. ASSUME NEW c \in Mine(b), c.kind = "save", c.stage \in {"sent", "asked"}, c.form.sure,
               ~page[b].doubt
        PROVE  FormCurrent(c.form, b)'
    <3>1. c.form \in Form
      BY <2>3, ScreenFacts DEF CallFits
    <3>2. FormCurrent(c.form, b)
      BY <2>1, <2>3 DEF FormAt
    <3> QED BY <1>3, <3>1, <3>2
  <2> QED BY <2>1, <2>2, <2>3 DEF FormAt
<1> QED BY <1>1, <1>4, <1>5 DEF ScreenFits

(* It is enough to look at the screen a step is of. *)
LEMMA ScreenStep ==
  ASSUME ScreenInv, NEW b \in Browser, ScreenTypes',
         \A x \in Browser \ {b} : page'[x] = page[x] /\ Mine(x)' = Mine(x) /\ Spares(x),
         \A c \in Mine(b)' : CallFits(c)', ScreenFits(b)'
  PROVE  ScreenInv'
<1>1. ASSUME NEW x \in Browser PROVE ScreenFits(x)'
  BY Elsewhere DEF ScreenInv
<1>2. ASSUME NEW c \in calls' PROVE CallFits(c)'
  <2> DEFINE x == c.browser
  <2>1. x \in Browser /\ c \in Mine(x)'
    BY DEF ScreenTypes, ACall, Mine
  <2>2. CASE x # b
    <3>1. c \in calls /\ CallFits(c) /\ page'[x] = page[x] /\ Spares(x)
      BY <2>1, <2>2 DEF Mine, ScreenInv
    <3>2. c.kind = "load" /\ c.stage = "done" => Older(c.users)'
      BY <2>1, <3>1, ListsSpared DEF CallFits, ScreenInv, ScreenTypes
    <3> QED BY <3>1, <3>2 DEF CallFits
  <2> QED BY <2>1, <2>2
<1> QED BY <1>1, <1>2 DEF ScreenInv

(* The calls of a screen after one of them is replaced. *)
LEMMA CallsOf ==
  ASSUME NEW b \in Browser, NEW c, NEW D, calls' = (calls \ {c}) \cup D,
         c \in calls => c.browser = b, \A d \in D : d.browser = b
  PROVE  /\ Mine(b)' = (Mine(b) \ {c}) \cup D
         /\ \A x \in Browser \ {b} : Mine(x)' = Mine(x)
BY DEF Mine

(* A form that is the same but for the doubt in it. *)
SameForm(new, old) ==
    /\ new = None <=> old = None
    /\ old # None => /\ new \in Form /\ new.user = old.user /\ new.role = old.role
                     /\ new.version = old.version /\ new.alone = old.alone
                     /\ (new.sure => old.sure)

LEMMA DoubtingEffect ==
  ASSUME NEW p \in Page, NEW doubt \in BOOLEAN, NEW d, d = Doubting(p, doubt)
  PROVE  /\ d \in Page /\ d.open = p.open /\ d.users = p.users /\ d.super = p.super
         /\ d.busy = p.busy /\ d.sent = p.sent /\ (d.doubt <=> p.doubt \/ doubt)
         /\ SameForm(d.form, p.form) /\ (doubt /\ d.form # None => ~d.form.sure)
<1> DEFINE form == IF doubt /\ p.form # None THEN [p.form EXCEPT !.sure = FALSE] ELSE p.form
           half == [p EXCEPT !.doubt = @ \/ doubt]
<1>1. p.form \in Form \cup {None}
  BY DEF Page
<1>2. /\ SameForm(form, p.form) /\ (doubt /\ form # None => ~form.sure)
      /\ form \in Form \cup {None}
  <2>1. CASE doubt /\ p.form # None
    <3>1. p.form \in Form /\ form = [p.form EXCEPT !.sure = FALSE]
      BY <1>1, <2>1
    <3>2. /\ form \in Form /\ form.user = p.form.user /\ form.role = p.form.role
          /\ form.version = p.form.version /\ form.alone = p.form.alone /\ ~form.sure
      BY <3>1 DEF Form
    <3> QED BY <2>1, <3>2, NoneIsNoForm DEF SameForm
  <2>2. CASE ~(doubt /\ p.form # None)
    BY <1>1, <2>2 DEF SameForm
  <2> QED BY <2>1, <2>2
<1>3. /\ half \in Page /\ half.open = p.open /\ half.users = p.users /\ half.super = p.super
      /\ half.busy = p.busy /\ half.sent = p.sent /\ (half.doubt <=> p.doubt \/ doubt)
  BY DEF Page
<1>4. d = [half EXCEPT !.form = form]
  BY DEF Doubting
<1> HIDE DEF form, half
<1>5. /\ d \in Page /\ d.open = half.open /\ d.users = half.users /\ d.super = half.super
      /\ d.busy = half.busy /\ d.sent = half.sent /\ d.doubt = half.doubt /\ d.form = form
  BY <1>2, <1>3, <1>4 DEF Page
<1> QED BY <1>2, <1>3, <1>5

LEMMA SendingEffect ==
  ASSUME NEW p \in Page, NEW kind, NEW others, NEW d, d = Sending(p, kind, others)
  PROVE  /\ d \in Page /\ d.open = p.open /\ d.users = p.users /\ d.super = p.super
         /\ d.busy = p.busy
         /\ (d.doubt <=> (p.doubt \/ others # {}) /\ ~(kind = "load" /\ others = {}))
         /\ SameForm(d.form, p.form) /\ (others # {} /\ d.form # None => ~d.form.sure)
<1> DEFINE half == Doubting(p, others # {})
           most == [half EXCEPT !.sent = @ + 1]
<1>1. /\ half \in Page /\ half.open = p.open /\ half.users = p.users /\ half.super = p.super
      /\ half.busy = p.busy /\ (half.doubt <=> p.doubt \/ others # {})
      /\ SameForm(half.form, p.form) /\ (others # {} /\ half.form # None => ~half.form.sure)
  BY DoubtingEffect
<1>2. d = [most EXCEPT !.doubt = @ /\ ~(kind = "load" /\ others = {})]
  BY DEF Sending
<1> HIDE DEF half
<1>3. /\ most \in Page /\ most.open = half.open /\ most.users = half.users /\ most.super = half.super
      /\ most.busy = half.busy /\ most.doubt = half.doubt /\ most.form = half.form
  BY <1>1 DEF Page
<1> HIDE DEF most
<1>4. /\ d \in Page /\ d.open = most.open /\ d.users = most.users /\ d.super = most.super
      /\ d.busy = most.busy /\ d.form = most.form
      /\ (d.doubt <=> most.doubt /\ ~(kind = "load" /\ others = {}))
  BY <1>2, <1>3 DEF Page
<1> QED BY <1>1, <1>3, <1>4

LEMMA CallEffect ==
  ASSUME SignInTypes, ScreenTypes, NEW b \in Browser, NEW kind \in {"load", "add", "save", "remove"},
         NEW u \in User \cup {None}, NEW role \in Roles \cup {None}, NEW c, c = Call(b, kind, u, role)
  PROVE  /\ c \in ACall /\ c.browser = b /\ c.kind = kind /\ c.user = u /\ c.role = role
         /\ c.stage = "sent" /\ ~c.lost /\ c.form = IF kind = "load" THEN None ELSE page[b].form
<1>1. /\ page[b].form \in Form \cup {None} /\ page[b].sent \in Nat
      /\ sessionCookie[b] \in Nat \cup {None}
  BY DEF ScreenTypes, Page, SignInTypes
<1> QED BY <1>1 DEF Call, ACall

LEMMA ChangeSent ==
  ASSUME SignInTypes, ScreenInv, NEW b \in Browser, NEW kind \in {"add", "save", "remove"},
         NEW u \in User, NEW role \in Roles, NEW busy \in BOOLEAN, Changes(b, kind, u, role, busy),
         page[b].open, busy => page[b].busy \/ kind # "remove",
         kind = "save" => page[b].form # None /\ page[b].form.user = u,
         kind = "add" => page[b].form = None
  PROVE  ScreenInv'
<1> DEFINE p == page[b]
           half == [p EXCEPT !.busy = busy]
           q == Sending(half, kind, Mine(b))
           new == Call(b, kind, u, role)
<1>0. /\ ScreenTypes /\ (\A c \in calls : CallFits(c)) /\ ScreenFits(b)
      /\ \A c \in Mine(b) : CallFits(c)
  BY DEF ScreenInv, Mine
<1>1. /\ new \in ACall /\ new.browser = b /\ new.kind = kind /\ new.user = u /\ new.role = role
      /\ new.stage = "sent" /\ ~new.lost /\ new.form = p.form
  BY <1>0, CallEffect
<1>2. /\ half \in Page /\ half.open = p.open /\ half.users = p.users /\ half.busy = busy
      /\ half.doubt = p.doubt /\ half.form = p.form /\ p \in Page
  BY <1>0 DEF ScreenTypes, Page
<1>3. /\ calls' = calls \cup {new} /\ page' = [page EXCEPT ![b] = q] /\ members' = members
  BY DEF Changes
<1> HIDE DEF new, half
<1>4. /\ q \in Page /\ q.open = p.open /\ q.users = p.users /\ q.busy = busy
      /\ (q.doubt <=> p.doubt \/ Mine(b) # {})
      /\ SameForm(q.form, p.form) /\ (Mine(b) # {} /\ q.form # None => ~q.form.sure)
  <2>1. /\ q \in Page /\ q.open = half.open /\ q.users = half.users /\ q.super = half.super
        /\ q.busy = half.busy
        /\ (q.doubt <=> (half.doubt \/ Mine(b) # {}) /\ ~(kind = "load" /\ Mine(b) = {}))
        /\ SameForm(q.form, half.form) /\ (Mine(b) # {} /\ q.form # None => ~q.form.sure)
    BY <1>2, SendingEffect
  <2> QED BY <2>1, <1>2
<1> HIDE DEF q
<1>5. /\ Mine(b)' = Mine(b) \cup {new} /\ page'[b] = q
      /\ \A x \in Browser \ {b} : page'[x] = page[x] /\ Mine(x)' = Mine(x) /\ Spares(x)
  BY <1>0, <1>1, <1>3 DEF Mine, ScreenTypes, Spares
<1>6. ScreenTypes'
  BY <1>0, <1>1, <1>3, <1>4 DEF ScreenTypes
<1>7. \A c \in Mine(b)' : CallFits(c)'
  <2> SUFFICES ASSUME NEW c \in Mine(b)' PROVE CallFits(c)'
    OBVIOUS
  <2>1. CASE c = new
    BY <1>1, <2>1 DEF CallFits
  <2>2. CASE c \in Mine(b)
    <3>1. CallFits(c) /\ c.browser = b
      BY <1>0, <2>2 DEF Mine
    <3>2. \A list : Older(list)' <=> Older(list)
      BY <1>3 DEF Older
    <3> QED BY <1>4, <1>5, <3>1, <3>2 DEF CallFits
  <2> QED BY <1>5, <2>1, <2>2
<1>8. AloneAt(b)'
  BY <1>4, <1>5 DEF AloneAt
<1>9. LockAt(b)'
  <2>1. CASE p.busy
    BY <1>0, <1>5, <2>1 DEF LockAt, ScreenFits
  <2>2. CASE ~p.busy
    BY <1>1, <1>4, <1>5, <2>2, NoneIsNothing DEF LockAt
  <2> QED BY <2>1, <2>2
<1>10. ListAt(b)'
  <2>1. \A list : (Current(list, b)' <=> Current(list, b)) /\ (Older(list)' <=> Older(list))
    BY <1>3 DEF Current, Older
  <2> QED BY <1>0, <1>1, <1>4, <1>5, <2>1 DEF ListAt, ScreenFits
<1>11. FormAt(b)'
  <2>0. \A form : FormCurrent(form, b)' <=> FormCurrent(form, b)
    BY <1>3 DEF FormCurrent
  <2>1. FormAt(b)
    BY <1>0 DEF ScreenFits
  <2>2. ASSUME q.form # None, q.form.alone, NEW c \in Mine(b) \cup {new}
        PROVE  /\ c.kind # "add"
               /\ c.kind # "load" => c.form # None /\ c.form.user = q.form.user
    <3>1. p.form # None /\ p.form.alone /\ q.form.user = p.form.user
      BY <1>4, <2>2 DEF SameForm
    <3>2. CASE c = new
      BY <1>1, <3>1, <3>2
    <3>3. CASE c \in Mine(b)
      BY <2>1, <3>1, <3>3 DEF FormAt
    <3> QED BY <3>2, <3>3
  <2>3. ASSUME q.form # None, q.form.sure
        PROVE  q.form.alone /\ ~q.doubt /\ FormCurrent(q.form, b)
    <3>1. Mine(b) = {} /\ p.form # None /\ p.form.sure
      BY <1>4, <2>3 DEF SameForm
    <3>2. p.form.alone /\ ~p.doubt /\ FormCurrent(p.form, b)
      BY <2>1, <3>1 DEF FormAt
    <3> QED BY <1>4, <3>1, <3>2 DEF SameForm, FormCurrent
  <2>4. ASSUME NEW c \in Mine(b) \cup {new}, c.kind = "save", c.stage \in {"sent", "asked"},
               c.form.sure, ~q.doubt
        PROVE  FormCurrent(c.form, b)
    <3>1. Mine(b) = {} /\ c = new /\ ~p.doubt
      BY <1>4, <2>4
    <3> QED BY <1>1, <2>1, <2>4, <3>1 DEF FormAt
  <2> QED BY <1>5, <2>0, <2>2, <2>3, <2>4 DEF FormAt
<1>12. ScreenFits(b)'
  BY <1>8, <1>9, <1>10, <1>11 DEF ScreenFits
<1> QED BY <1>5, <1>6, <1>7, <1>12, ScreenStep

LEMMA MountInductive ==
  ASSUME SignInTypes, ScreenInv, NEW b \in Browser, Mount(b)
  PROVE  ScreenInv'
<1> DEFINE p == page[b]
           half == [p EXCEPT !.open = TRUE]
           q == Sending(half, "load", {})
           new == Call(b, "load", None, None)
<1>0. /\ ScreenTypes /\ (\A c \in calls : CallFits(c)) /\ ScreenFits(b)
  BY DEF ScreenInv
<1>1. /\ new \in ACall /\ new.browser = b /\ new.kind = "load" /\ new.stage = "sent" /\ ~new.lost
  BY <1>0, CallEffect
<1>2. /\ half \in Page /\ half.open /\ half.users = p.users /\ half.busy = p.busy
      /\ half.form = p.form
  BY <1>0 DEF ScreenTypes, Page
<1>3. /\ calls' = calls \cup {new} /\ page' = [page EXCEPT ![b] = q] /\ members' = members /\ ~p.open
  BY DEF Mount
<1>4. Mine(b) = {} /\ p.users = None /\ p.form = None /\ ~p.busy
  BY <1>0, <1>3 DEF ScreenFits, AloneAt, LockAt
<1> HIDE DEF new, half
<1>5. /\ q \in Page /\ q.open /\ q.users = None /\ ~q.busy /\ q.form = None /\ ~q.doubt
  <2>1. /\ q \in Page /\ q.open = half.open /\ q.users = half.users /\ q.super = half.super
        /\ q.busy = half.busy
        /\ (q.doubt <=> (half.doubt \/ {} # {}) /\ ~("load" = "load" /\ {} = {}))
        /\ SameForm(q.form, half.form) /\ ({} # {} /\ q.form # None => ~q.form.sure)
    BY <1>2, SendingEffect
  <2> QED BY <2>1, <1>2, <1>4 DEF SameForm
<1> HIDE DEF q
<1>6. /\ Mine(b)' = {new} /\ page'[b] = q
      /\ \A x \in Browser \ {b} : page'[x] = page[x] /\ Mine(x)' = Mine(x) /\ Spares(x)
  <2>1. Mine(b)' = Mine(b) \cup {new} /\ \A x \in Browser \ {b} : Mine(x)' = Mine(x)
    BY <1>1, <1>3 DEF Mine
  <2> QED BY <2>1, <1>0, <1>3, <1>4 DEF ScreenTypes, Spares
<1>7. ScreenTypes'
  BY <1>0, <1>1, <1>3, <1>5 DEF ScreenTypes
<1>8. \A c \in Mine(b)' : CallFits(c)'
  BY <1>1, <1>6 DEF CallFits
<1>9. ScreenFits(b)'
  BY <1>1, <1>5, <1>6 DEF ScreenFits, AloneAt, LockAt, ListAt, FormAt
<1> QED BY <1>6, <1>7, <1>8, <1>9, ScreenStep

LEMMA EditInductive ==
  ASSUME ScreenInv, NEW b \in Browser, NEW u \in User, Edit(b, u)
  PROVE  ScreenInv'
<1> DEFINE p == page[b]
           alone == Mine(b) = {} /\ ~p.doubt
           form == [user |-> u, role |-> p.users[u].role, version |-> p.users[u].version,
                    alone |-> alone, sure |-> alone]
           q == [p EXCEPT !.form = form]
<1>0. /\ ScreenTypes /\ (\A c \in calls : CallFits(c)) /\ ScreenFits(b)
      /\ \A c \in Mine(b) : CallFits(c)
  BY DEF ScreenInv, Mine
<1>1. p \in Page /\ p.users # None /\ p.users \in Members /\ p.users[u] \in Member
  <2>1. p.users # None
    BY DEF Edit, Editable
  <2>2. p \in Page /\ p.users \in Members
    BY <1>0, <2>1, ScreenFacts
  <2> QED BY <2>1, <2>2 DEF Members
<1>2. page' = [page EXCEPT ![b] = q] /\ calls' = calls /\ members' = members
  BY DEF Edit
<1> HIDE DEF alone
<1>3. alone \in BOOLEAN
  BY DEF alone
<1>4. /\ form \in Form /\ form.user = u /\ form.role = p.users[u].role
      /\ form.version = p.users[u].version /\ (form.alone <=> alone) /\ (form.sure <=> alone)
  BY <1>1, <1>3 DEF Form, Member
<1> HIDE DEF form
<1>5. /\ q \in Page /\ q.open = p.open /\ q.users = p.users /\ q.busy = p.busy /\ q.doubt = p.doubt
      /\ q.form = form
  BY <1>1, <1>4 DEF Page
<1> HIDE DEF q
<1>6. /\ page'[b] = q /\ Mine(b)' = Mine(b)
      /\ \A x \in Browser \ {b} : page'[x] = page[x] /\ Mine(x)' = Mine(x) /\ Spares(x)
  BY <1>0, <1>2 DEF Mine, ScreenTypes, Spares
<1>7. ScreenTypes'
  BY <1>0, <1>2, <1>5 DEF ScreenTypes
<1>8. /\ \A list : (Current(list, b)' <=> Current(list, b)) /\ (Older(list)' <=> Older(list))
      /\ \A f : FormCurrent(f, b)' <=> FormCurrent(f, b)
  BY <1>2 DEF Current, Older, FormCurrent
<1>9. \A c \in Mine(b)' : CallFits(c)'
  <2> SUFFICES ASSUME NEW c \in Mine(b) PROVE CallFits(c)'
    BY <1>6
  <2>1. CallFits(c) /\ c.browser = b
    BY <1>0 DEF Mine
  <2> QED BY <1>5, <1>6, <1>8, <2>1 DEF CallFits
<1>10. AloneAt(b)' /\ LockAt(b)' /\ ListAt(b)'
  BY <1>0, <1>1, <1>5, <1>6, <1>8 DEF ScreenFits, AloneAt, LockAt, ListAt
<1>11. alone => FormCurrent(form, b)
  <2> SUFFICES ASSUME alone PROVE FormCurrent(form, b)
    OBVIOUS
  <2>1. Older(p.users) /\ Current(p.users, b)
    BY <1>0, <1>1 DEF alone, ScreenFits, ListAt
  <2> QED BY <1>4, <2>1 DEF FormCurrent, Older, Current
<1>12. FormAt(b)'
  BY <1>0, <1>4, <1>5, <1>6, <1>8, <1>11 DEF FormAt, ScreenFits, alone
<1>13. ScreenFits(b)'
  BY <1>10, <1>12 DEF ScreenFits
<1> QED BY <1>6, <1>7, <1>9, <1>13, ScreenStep

LEMMA CancelInductive ==
  ASSUME ScreenInv, NEW b \in Browser, Cancel(b)
  PROVE  ScreenInv'
<1> DEFINE p == page[b]
           q == [p EXCEPT !.form = None]
<1>0. /\ ScreenTypes /\ (\A c \in calls : CallFits(c)) /\ ScreenFits(b)
      /\ \A c \in Mine(b) : CallFits(c)
  BY DEF ScreenInv, Mine
<1>1. page' = [page EXCEPT ![b] = q] /\ calls' = calls /\ members' = members
  BY DEF Cancel
<1>2. /\ q \in Page /\ q.open = p.open /\ q.users = p.users /\ q.busy = p.busy /\ q.doubt = p.doubt
      /\ q.form = None
  BY <1>0 DEF Page, ScreenTypes
<1> HIDE DEF q
<1>3. /\ page'[b] = q /\ Mine(b)' = Mine(b)
      /\ \A x \in Browser \ {b} : page'[x] = page[x] /\ Mine(x)' = Mine(x) /\ Spares(x)
  BY <1>0, <1>1 DEF Mine, ScreenTypes, Spares
<1>4. ScreenTypes'
  BY <1>0, <1>1, <1>2 DEF ScreenTypes
<1>5. /\ \A list : (Current(list, b)' <=> Current(list, b)) /\ (Older(list)' <=> Older(list))
      /\ \A f : FormCurrent(f, b)' <=> FormCurrent(f, b)
  BY <1>1 DEF Current, Older, FormCurrent
<1>6. \A c \in Mine(b)' : CallFits(c)'
  <2> SUFFICES ASSUME NEW c \in Mine(b) PROVE CallFits(c)'
    BY <1>3
  <2>1. CallFits(c) /\ c.browser = b
    BY <1>0 DEF Mine
  <2> QED BY <1>2, <1>3, <1>5, <2>1 DEF CallFits
<1>7. AloneAt(b)' /\ LockAt(b)' /\ ListAt(b)' /\ FormAt(b)'
  BY <1>0, <1>2, <1>3, <1>5 DEF ScreenFits, AloneAt, LockAt, ListAt, FormAt
<1> QED BY <1>3, <1>4, <1>6, <1>7, ScreenStep DEF ScreenFits

(* How a call goes on: nobody waits for the end of a lost one. *)
GoesOn(d, c) ==
    /\ d \in ACall /\ d.browser = c.browser /\ d.kind = c.kind /\ d.user = c.user
    /\ d.role = c.role /\ d.form = c.form /\ d.lost = c.lost

Handles(c, d) ==
    /\ page' = page /\ GoesOn(d, c) /\ c.stage \in {"sent", "asked"}
    /\ \/ calls' = (calls \ {c}) \cup {d}
       \/ c.lost /\ calls' = calls \ {c}

LEMMA HandledInductive ==
  ASSUME ScreenInv, NEW c \in calls, NEW d, Handles(c, d), members' = members,
         d.kind = "load" /\ d.stage = "done" => d.users = members
  PROVE  ScreenInv'
<1> DEFINE b == c.browser
           p == page[b]
<1>0. /\ ScreenTypes /\ (\A x \in calls : CallFits(x)) /\ c \in Mine(b) /\ b \in Browser
      /\ c \in ACall /\ CallFits(c)
  BY DEF ScreenInv, ScreenTypes, ACall, Mine
<1>1. ScreenFits(b) /\ \A x \in Mine(b) : CallFits(x) /\ x.browser = b
  BY <1>0 DEF ScreenInv, Mine
<1>2. /\ d \in ACall /\ d.browser = b /\ d.kind = c.kind /\ d.user = c.user /\ d.role = c.role
      /\ d.form = c.form /\ d.lost = c.lost /\ c.stage \in {"sent", "asked"} /\ page' = page
  BY DEF Handles, GoesOn
<1> DEFINE D == IF calls' = (calls \ {c}) \cup {d} THEN {d} ELSE {}
<1>3. calls' = (calls \ {c}) \cup D /\ D \subseteq {d} /\ (~c.lost => D = {d})
  BY DEF Handles
<1> HIDE DEF D
<1>4. /\ Mine(b)' = (Mine(b) \ {c}) \cup D /\ page'[b] = p
      /\ \A x \in Browser \ {b} : page'[x] = page[x] /\ Mine(x)' = Mine(x) /\ Spares(x)
  BY <1>2, <1>3 DEF Mine, Spares
<1>5. ScreenTypes'
  BY <1>0, <1>2, <1>3 DEF ScreenTypes
<1>6. /\ \A list : (Current(list, b)' <=> Current(list, b)) /\ (Older(list)' <=> Older(list))
      /\ \A f : FormCurrent(f, b)' <=> FormCurrent(f, b)
  BY DEF Current, Older, FormCurrent
<1>7. members \in Members /\ Older(members) /\ Current(members, b)
  BY <1>0 DEF ScreenTypes, Older, Current
<1>8. \A x \in Mine(b)' : CallFits(x)'
  <2> SUFFICES ASSUME NEW x \in Mine(b)' PROVE CallFits(x)'
    OBVIOUS
  <2>1. CASE x \in Mine(b)
    BY <1>1, <1>4, <1>6, <2>1 DEF CallFits
  <2>2. CASE x = d
    BY <1>0, <1>2, <1>4, <1>6, <1>7, <2>2 DEF CallFits
  <2> QED BY <1>3, <1>4, <2>1, <2>2
<1>9. ~p.doubt => Mine(b) = {c} /\ ~c.lost /\ Mine(b)' = {d}
  BY <1>0, <1>1, <1>3, <1>4 DEF ScreenFits, AloneAt, CallFits
<1>10. AloneAt(b)'
  BY <1>0, <1>1, <1>3, <1>4, <1>9 DEF ScreenFits, AloneAt
<1>11. LockAt(b)'
  <2> SUFFICES ASSUME p.busy
               PROVE  \E x \in Mine(b)' : ~x.lost /\ x.kind # "remove" /\ x.user # None
    BY <1>4 DEF LockAt
  <2>1. PICK x \in Mine(b) : ~x.lost /\ x.kind # "remove" /\ x.user # None
    BY <1>1 DEF ScreenFits, LockAt
  <2>2. CASE x = c
    BY <1>2, <1>3, <1>4, <2>1, <2>2
  <2>3. CASE x # c
    BY <1>4, <2>1, <2>3
  <2> QED BY <2>2, <2>3
<1>12. ListAt(b)'
  <2>1. ListAt(b)
    BY <1>1 DEF ScreenFits
  <2>2. ~p.doubt /\ p.users # None => Current(p.users, b) \/ d.kind = "load"
    BY <1>2, <1>9, <2>1 DEF ListAt
  <2>3. d.kind = "load" /\ d.stage = "done" => Current(d.users, b)
    BY <1>7
  <2> QED BY <1>4, <1>6, <1>9, <2>1, <2>2, <2>3 DEF ListAt
<1>13. FormAt(b)'
  <2>1. FormAt(b)
    BY <1>1 DEF ScreenFits
  <2>2. ASSUME p.form # None, p.form.alone, NEW x \in Mine(b)'
        PROVE  x.kind # "add" /\ (x.kind # "load" => x.form # None /\ x.form.user = p.form.user)
    BY <1>0, <1>2, <1>3, <1>4, <2>1, <2>2 DEF FormAt
  <2>3. ASSUME p.form # None, p.form.sure
        PROVE  p.form.alone /\ ~p.doubt /\ FormCurrent(p.form, b)
    BY <1>2, <1>9, <2>1, <2>3 DEF FormAt
  <2>4. ASSUME NEW x \in Mine(b)', x.kind = "save", x.stage \in {"sent", "asked"}, x.form.sure, ~p.doubt
        PROVE  FormCurrent(x.form, b)
    BY <1>0, <1>2, <1>9, <2>1, <2>4 DEF FormAt
  <2> QED BY <1>4, <1>6, <2>2, <2>3, <2>4 DEF FormAt
<1>14. ScreenFits(b)'
  BY <1>10, <1>11, <1>12, <1>13 DEF ScreenFits
<1> QED BY <1>0, <1>4, <1>5, <1>8, <1>14, ScreenStep

(* A member is overwritten: the form of that member is about to close. *)
LEMMA OverwrittenInductive ==
  ASSUME ScreenInv, NEW c \in calls, c.kind # "load", NEW d, Handles(c, d), c.stage = "asked",
         d.stage = "done", members' \in Members,
         \A v \in User \ {c.user} : members'[v] = members[v],
         members'[c.user].version = members[c.user].version + 1, members'[c.user].by = c.browser
  PROVE  ScreenInv'
<1> DEFINE b == c.browser
           p == page[b]
<1>0. /\ ScreenTypes /\ (\A x \in calls : CallFits(x)) /\ c \in Mine(b) /\ b \in Browser
      /\ c \in ACall /\ CallFits(c) /\ c.user \in User
  BY DEF ScreenInv, ScreenTypes, ACall, Mine, CallFits
<1>1. ScreenFits(b) /\ \A x \in Mine(b) : CallFits(x) /\ x.browser = b
  BY <1>0 DEF ScreenInv, Mine
<1>2. /\ d \in ACall /\ d.browser = b /\ d.kind = c.kind /\ d.user = c.user /\ d.role = c.role
      /\ d.form = c.form /\ d.lost = c.lost /\ page' = page
  BY DEF Handles, GoesOn
<1> DEFINE D == IF calls' = (calls \ {c}) \cup {d} THEN {d} ELSE {}
<1>3. calls' = (calls \ {c}) \cup D /\ D \subseteq {d} /\ (~c.lost => D = {d})
  BY DEF Handles
<1> HIDE DEF D
<1>4. /\ Mine(b)' = (Mine(b) \ {c}) \cup D /\ page'[b] = p
      /\ \A x \in Browser \ {b} : page'[x] = page[x] /\ Mine(x)' = Mine(x)
  BY <1>2, <1>3 DEF Mine
<1>5. \A x \in Browser \ {b} : Spares(x)
  BY <1>0 DEF Spares
<1>6. ScreenTypes'
  BY <1>0, <1>2, <1>3 DEF ScreenTypes
<1>7. \A list \in Members : Older(list) => Older(list)'
  <2> SUFFICES ASSUME NEW list \in Members, Older(list) PROVE Older(list)'
    OBVIOUS
  <2>1. \A v \in User : members[v].version \in Nat /\ list[v].version \in Nat
    BY <1>0 DEF ScreenTypes, Members, Member
  <2> QED BY <1>0, <2>1 DEF Older
<1>8. \A x \in Mine(b)' : CallFits(x)'
  <2> SUFFICES ASSUME NEW x \in Mine(b)' PROVE CallFits(x)'
    OBVIOUS
  <2>1. CASE x \in Mine(b)
    BY <1>1, <1>4, <1>7, <2>1 DEF CallFits
  <2>2. CASE x = d
    BY <1>0, <1>2, <1>4, <2>2 DEF CallFits
  <2> QED BY <1>3, <1>4, <2>1, <2>2
<1>9. ~p.doubt => Mine(b) = {c} /\ ~c.lost /\ Mine(b)' = {d}
  BY <1>0, <1>1, <1>3, <1>4 DEF ScreenFits, AloneAt, CallFits
<1>10. AloneAt(b)'
  BY <1>0, <1>1, <1>3, <1>4, <1>9 DEF ScreenFits, AloneAt
<1>11. LockAt(b)'
  <2> SUFFICES ASSUME p.busy
               PROVE  \E x \in Mine(b)' : ~x.lost /\ x.kind # "remove" /\ x.user # None
    BY <1>4 DEF LockAt
  <2>1. PICK x \in Mine(b) : ~x.lost /\ x.kind # "remove" /\ x.user # None
    BY <1>1 DEF ScreenFits, LockAt
  <2>2. CASE x = c
    BY <1>2, <1>3, <1>4, <2>1, <2>2
  <2>3. CASE x # c
    BY <1>4, <2>1, <2>3
  <2> QED BY <2>2, <2>3
<1>12. ListAt(b)'
  <2>1. p.users # None => p.users \in Members /\ Older(p.users)
    BY <1>0, <1>1, ScreenFacts DEF ScreenFits, ListAt
  <2>2. ~p.doubt => \E x \in Mine(b)' : x.stage = "done"
    BY <1>9
  <2>3. ~p.doubt => \A x \in Mine(b)' : x.kind # "load"
    BY <1>2, <1>9
  <2> QED BY <1>4, <1>7, <2>1, <2>2, <2>3 DEF ListAt
<1>13. FormAt(b)'
  <2>1. FormAt(b)
    BY <1>1 DEF ScreenFits
  <2>2. ASSUME p.form # None, p.form.alone, NEW x \in Mine(b)'
        PROVE  x.kind # "add" /\ (x.kind # "load" => x.form # None /\ x.form.user = p.form.user)
    BY <1>0, <1>2, <1>3, <1>4, <2>1, <2>2 DEF FormAt
  <2>3. ASSUME p.form # None, p.form.sure
        PROVE  /\ p.form.alone /\ ~p.doubt
               /\ \/ FormCurrent(p.form, b)'
                  \/ \E x \in Mine(b)' : x.kind # "load" /\ x.stage = "done" /\ x.user = p.form.user
    <3>1. p.form.alone /\ ~p.doubt /\ p.form \in Form
      BY <1>0, <2>1, <2>3, ScreenFacts DEF FormAt
    <3>2. CASE c.user = p.form.user
      <4>1. d \in Mine(b)' /\ d.kind # "load" /\ d.user = p.form.user
        BY <1>2, <1>9, <3>1, <3>2
      <4> QED BY <3>1, <4>1
    <3>3. CASE c.user # p.form.user
      <4>1. FormCurrent(p.form, b)
        BY <1>9, <2>1, <2>3, <3>1, <3>3 DEF FormAt
      <4>2. p.form.user \in User
        BY <3>1 DEF Form
      <4>3. members'[p.form.user] = members[p.form.user]
        BY <3>3, <4>2
      <4> QED BY <1>4, <3>1, <4>1, <4>3 DEF FormCurrent
    <3> QED BY <3>2, <3>3
  <2>4. ~p.doubt => \A x \in Mine(b)' : x.stage = "done"
    BY <1>9
  <2> QED BY <1>4, <2>2, <2>3, <2>4 DEF FormAt
<1>14. ScreenFits(b)'
  BY <1>10, <1>11, <1>12, <1>13 DEF ScreenFits
<1> QED BY <1>0, <1>4, <1>5, <1>6, <1>8, <1>14, ScreenStep

LEMMA AuthoriseInductive ==
  ASSUME ScreenInv, NEW c \in calls, Authorise(c) \/ ListMembers(c) \/ Refuse(c)
  PROVE  ScreenInv'
<1>1. c \in ACall /\ members \in Members
  BY DEF ScreenInv, ScreenTypes
<1>2. CASE Authorise(c)
  <2> DEFINE right == members[logins[c.session].user].role = "super"
             half == [c EXCEPT !.stage = "asked"]
             asked == [half EXCEPT !.super = right]
             refused == [c EXCEPT !.stage = "refused"]
  <2>1. /\ calls' = (calls \ {c}) \cup {asked} \/ calls' = (calls \ {c}) \cup {refused}
           \/ (c.lost /\ calls' = (calls \ {c}) \cup {})
        /\ page' = page /\ members' = members /\ c.stage = "sent"
    BY <1>2 DEF Authorise, Becomes, Ends
  <2> HIDE DEF right
  <2>2. right \in BOOLEAN
    BY DEF right
  <2>3. /\ half \in ACall /\ half.browser = c.browser /\ half.kind = c.kind /\ half.user = c.user
        /\ half.role = c.role /\ half.form = c.form /\ half.lost = c.lost /\ half.stage = "asked"
    BY <1>1 DEF ACall
  <2> HIDE DEF half
  <2>4. GoesOn(asked, c) /\ asked.stage = "asked"
    BY <2>2, <2>3 DEF ACall, GoesOn
  <2>5. GoesOn(refused, c) /\ refused.stage = "refused"
    BY <1>1 DEF ACall, GoesOn
  <2> HIDE DEF asked, refused
  <2>6. Handles(c, asked) \/ Handles(c, refused)
    BY <2>1, <2>4, <2>5 DEF Handles
  <2> QED BY <2>1, <2>4, <2>5, <2>6, HandledInductive
<1>3. CASE ListMembers(c)
  <2> DEFINE half == [c EXCEPT !.stage = "done"]
             done == [half EXCEPT !.users = members]
  <2>1. /\ calls' = (calls \ {c}) \cup {done} \/ (c.lost /\ calls' = (calls \ {c}) \cup {})
        /\ page' = page /\ members' = members /\ c.stage = "asked"
    BY <1>3 DEF ListMembers, Becomes, Ends
  <2>2. /\ half \in ACall /\ half.browser = c.browser /\ half.kind = c.kind /\ half.user = c.user
        /\ half.role = c.role /\ half.form = c.form /\ half.lost = c.lost
    BY <1>1 DEF ACall
  <2> HIDE DEF half
  <2>3. GoesOn(done, c) /\ done.users = members
    BY <1>1, <2>2 DEF ACall, GoesOn
  <2> HIDE DEF done
  <2>4. Handles(c, done)
    BY <2>1, <2>3 DEF Handles
  <2> QED BY <2>1, <2>3, <2>4, HandledInductive
<1>4. CASE Refuse(c)
  <2> DEFINE refused == [c EXCEPT !.stage = "refused"]
  <2>1. /\ calls' = (calls \ {c}) \cup {refused} \/ (c.lost /\ calls' = (calls \ {c}) \cup {})
        /\ page' = page /\ members' = members /\ c.stage = "asked"
    BY <1>4 DEF Refuse, Becomes, Ends
  <2>2. GoesOn(refused, c) /\ refused.stage = "refused"
    BY <1>1 DEF ACall, GoesOn
  <2> HIDE DEF refused
  <2>3. Handles(c, refused)
    BY <2>1, <2>2 DEF Handles
  <2> QED BY <2>1, <2>2, <2>3, HandledInductive
<1> QED BY <1>2, <1>3, <1>4

LEMMA OverwriteInductive ==
  ASSUME ScreenInv, NEW c \in calls, c.kind # "load", Overwrite(c)
  PROVE  ScreenInv'
<1> DEFINE old == members[c.user]
           new == [role |-> c.role, version |-> old.version + 1, by |-> c.browser]
           done == [c EXCEPT !.stage = "done"]
<1>1. /\ c \in ACall /\ members \in Members /\ c.user \in User /\ c.role \in Roles
      /\ c.browser \in Browser
  BY DEF ScreenInv, ScreenTypes, CallFits, ACall
<1>2. /\ calls' = (calls \ {c}) \cup {done} \/ (c.lost /\ calls' = (calls \ {c}) \cup {})
      /\ page' = page /\ c.stage = "asked" /\ members' = [members EXCEPT ![c.user] = new]
  BY DEF Overwrite, Becomes, Ends
<1>3. old.version \in Nat
  BY <1>1 DEF Members, Member
<1>4. new \in Member /\ new.version = old.version + 1 /\ new.by = c.browser
  BY <1>1, <1>3 DEF Member
<1>5. GoesOn(done, c) /\ done.stage = "done"
  BY <1>1 DEF ACall, GoesOn
<1> HIDE DEF new, done
<1>6. Handles(c, done)
  BY <1>2, <1>5 DEF Handles
<1>7. /\ members' \in Members /\ members'[c.user] = new
      /\ \A v \in User \ {c.user} : members'[v] = members[v]
  BY <1>1, <1>2, <1>4 DEF Members
<1>8. members'[c.user].version = members[c.user].version + 1 /\ members'[c.user].by = c.browser
  BY <1>4, <1>7
<1> QED BY <1>2, <1>5, <1>6, <1>7, <1>8, OverwrittenInductive

LEMMA LoadAnsweredInductive ==
  ASSUME ScreenInv, NEW c \in calls, LoadAnswered(c)
  PROVE  ScreenInv'
<1> DEFINE b == c.browser
           p == page[b]
           first == [p EXCEPT !.users = c.users]
           second == [first EXCEPT !.super = c.super]
           q == [second EXCEPT !.busy = @ /\ c.user = None]
<1>0. /\ ScreenTypes /\ (\A x \in calls : CallFits(x)) /\ c \in Mine(b) /\ b \in Browser
      /\ c \in ACall /\ CallFits(c) /\ p \in Page
  BY DEF ScreenInv, ScreenTypes, ACall, Mine
<1>1. ScreenFits(b) /\ \A x \in Mine(b) : CallFits(x) /\ x.browser = b
  BY <1>0 DEF ScreenInv, Mine
<1>2. /\ c.kind = "load" /\ c.stage = "done" /\ ~c.lost /\ page' = [page EXCEPT ![b] = q]
      /\ calls' = (calls \ {c}) \cup {} /\ members' = members
  BY <1>0 DEF LoadAnswered, Becomes, ScreenTypes
<1>3. c.users \in Members /\ Older(c.users) /\ c.super \in BOOLEAN
  BY <1>0, <1>2 DEF CallFits, ACall
<1>4. /\ first \in Page /\ first.open = p.open /\ first.users = c.users /\ first.busy = p.busy
      /\ first.form = p.form /\ first.doubt = p.doubt
  BY <1>0, <1>3 DEF Page
<1> HIDE DEF first
<1>5. /\ second \in Page /\ second.open = p.open /\ second.users = c.users /\ second.busy = p.busy
      /\ second.form = p.form /\ second.doubt = p.doubt
  BY <1>3, <1>4 DEF Page
<1> HIDE DEF second
<1>6. /\ q \in Page /\ q.open = p.open /\ q.users = c.users /\ (q.busy <=> p.busy /\ c.user = None)
      /\ q.form = p.form /\ q.doubt = p.doubt
  BY <1>5 DEF Page
<1> HIDE DEF q
<1>7. /\ Mine(b)' = Mine(b) \ {c} /\ page'[b] = q
      /\ \A x \in Browser \ {b} : page'[x] = page[x] /\ Mine(x)' = Mine(x) /\ Spares(x)
  BY <1>0, <1>2 DEF Mine, Spares, ScreenTypes
<1>8. ScreenTypes'
  BY <1>0, <1>2, <1>6 DEF ScreenTypes
<1>9. /\ \A list : (Current(list, b)' <=> Current(list, b)) /\ (Older(list)' <=> Older(list))
      /\ \A f : FormCurrent(f, b)' <=> FormCurrent(f, b)
  BY <1>2 DEF Current, Older, FormCurrent
<1>10. \A x \in Mine(b)' : CallFits(x)'
  BY <1>1, <1>6, <1>7, <1>9 DEF CallFits
<1>11. ~p.doubt => Mine(b) = {c} /\ Mine(b)' = {}
  BY <1>0, <1>1, <1>7 DEF ScreenFits, AloneAt
<1>12. AloneAt(b)'
  BY <1>0, <1>1, <1>6, <1>7 DEF ScreenFits, AloneAt
<1>13. LockAt(b)'
  BY <1>1, <1>6, <1>7 DEF ScreenFits, LockAt
<1>14. ListAt(b)'
  <2>1. ~p.doubt => Current(c.users, b)
    BY <1>0, <1>1, <1>2 DEF ScreenFits, ListAt
  <2> QED BY <1>3, <1>6, <1>7, <1>9, <1>11, <2>1 DEF ListAt
<1>15. FormAt(b)'
  <2>1. FormAt(b)
    BY <1>1 DEF ScreenFits
  <2>2. p.form # None /\ p.form.sure => p.form.alone /\ ~p.doubt /\ FormCurrent(p.form, b)
    BY <1>2, <1>11, <2>1 DEF FormAt
  <2> QED BY <1>6, <1>7, <1>9, <1>11, <2>1, <2>2 DEF FormAt
<1>16. ScreenFits(b)'
  BY <1>12, <1>13, <1>14, <1>15 DEF ScreenFits
<1> QED BY <1>0, <1>7, <1>8, <1>10, <1>16, ScreenStep

(* A change is confirmed: its form closes, and the list is loaded again.   *)
LEMMA ChangeAnsweredInductive ==
  ASSUME SignInTypes, ScreenInv, NEW c \in calls, ChangeAnswered(c)
  PROVE  ScreenInv'
<1> DEFINE b == c.browser
           p == page[b]
           others == Mine(b) \ {c}
           half == [p EXCEPT !.form = FormAfter(c)]
           q == Sending(half, "load", others)
           user == IF c.kind = "remove" THEN None ELSE c.user
           new == Call(b, "load", user, None)
<1>0. /\ ScreenTypes /\ (\A x \in calls : CallFits(x)) /\ c \in Mine(b) /\ b \in Browser
      /\ c \in ACall /\ CallFits(c) /\ p \in Page /\ c.user \in User \cup {None}
  BY DEF ScreenInv, ScreenTypes, ACall, Mine
<1>1. ScreenFits(b) /\ \A x \in Mine(b) : CallFits(x) /\ x.browser = b
  BY <1>0 DEF ScreenInv, Mine
<1>2. /\ c.kind # "load" /\ c.stage = "done" /\ ~c.lost /\ page' = [page EXCEPT ![b] = q]
      /\ calls' = (calls \ {c}) \cup {new} /\ members' = members
  BY DEF ChangeAnswered, Becomes, Reload
<1>3. /\ new \in ACall /\ new.browser = b /\ new.kind = "load" /\ new.user = user
      /\ new.stage = "sent" /\ ~new.lost
  BY <1>0, CallEffect
<1>4. /\ FormAfter(c) \in {None, p.form}
      /\ FormAfter(c) # None => c.kind = "remove" /\ ~(c.form # None /\ c.form.user = c.user)
  BY DEF FormAfter
<1>5. /\ half \in Page /\ half.open = p.open /\ half.users = p.users /\ half.busy = p.busy
      /\ half.doubt = p.doubt /\ half.form = FormAfter(c)
  BY <1>0, <1>4 DEF Page
<1> HIDE DEF new, half
<1>6. /\ q \in Page /\ q.open = p.open /\ q.users = p.users /\ q.busy = p.busy
      /\ (q.doubt <=> others # {})
      /\ SameForm(q.form, FormAfter(c)) /\ (others # {} /\ q.form # None => ~q.form.sure)
  <2>1. /\ q \in Page /\ q.open = half.open /\ q.users = half.users /\ q.super = half.super
        /\ q.busy = half.busy
        /\ (q.doubt <=> (half.doubt \/ others # {}) /\ ~("load" = "load" /\ others = {}))
        /\ SameForm(q.form, half.form) /\ (others # {} /\ q.form # None => ~q.form.sure)
    BY <1>5, SendingEffect
  <2> QED BY <2>1, <1>5
<1> HIDE DEF q
<1>7. /\ Mine(b)' = others \cup {new} /\ page'[b] = q
      /\ \A x \in Browser \ {b} : page'[x] = page[x] /\ Mine(x)' = Mine(x) /\ Spares(x)
  BY <1>0, <1>2, <1>3 DEF Mine, Spares, ScreenTypes
<1>8. ScreenTypes'
  BY <1>0, <1>2, <1>3, <1>6 DEF ScreenTypes
<1>9. /\ \A list : (Current(list, b)' <=> Current(list, b)) /\ (Older(list)' <=> Older(list))
      /\ \A f : FormCurrent(f, b)' <=> FormCurrent(f, b)
  BY <1>2 DEF Current, Older, FormCurrent
<1>10. \A x \in Mine(b)' : CallFits(x)'
  BY <1>1, <1>3, <1>6, <1>7, <1>9 DEF CallFits
<1>11. AloneAt(b)'
  BY <1>0, <1>1, <1>6, <1>7 DEF ScreenFits, AloneAt
<1>12. LockAt(b)'
  <2> SUFFICES ASSUME p.busy
               PROVE  \E x \in Mine(b)' : ~x.lost /\ x.kind # "remove" /\ x.user # None
    BY <1>6, <1>7 DEF LockAt
  <2>1. PICK x \in Mine(b) : ~x.lost /\ x.kind # "remove" /\ x.user # None
    BY <1>1 DEF ScreenFits, LockAt
  <2>2. CASE x = c
    BY <1>3, <1>7, <2>1, <2>2
  <2>3. CASE x # c
    BY <1>7, <2>1, <2>3
  <2> QED BY <2>2, <2>3
<1>13. ListAt(b)'
  <2>1. p.users # None => Older(p.users)
    BY <1>1 DEF ScreenFits, ListAt
  <2>2. ~q.doubt => Mine(b)' = {new}
    BY <1>6, <1>7
  <2> QED BY <1>3, <1>6, <1>7, <1>9, <2>1, <2>2 DEF ListAt
<1>14. FormAt(b)'
  <2>1. FormAt(b)
    BY <1>1 DEF ScreenFits
  <2>2. q.form # None => p.form # None /\ SameForm(q.form, p.form) /\ FormAfter(c) = p.form
    BY <1>4, <1>6 DEF SameForm
  <2>3. ASSUME q.form # None, q.form.alone, NEW x \in Mine(b)'
        PROVE  x.kind # "add" /\ (x.kind # "load" => x.form # None /\ x.form.user = q.form.user)
    BY <1>3, <1>7, <2>1, <2>2, <2>3 DEF FormAt, SameForm
  <2>4. ASSUME q.form # None, q.form.sure
        PROVE  q.form.alone /\ ~q.doubt /\ FormCurrent(q.form, b)
    <3>1. /\ others = {} /\ ~q.doubt /\ p.form # None /\ p.form.sure /\ p.form.alone
          /\ q.form.alone /\ q.form.user = p.form.user /\ q.form.role = p.form.role
          /\ q.form.version = p.form.version
      BY <1>6, <2>1, <2>2, <2>4 DEF FormAt, SameForm
    <3>2. c.form # None /\ c.form.user = p.form.user
      BY <1>0, <1>2, <2>1, <3>1 DEF FormAt
    <3>3. c.user # p.form.user
      BY <1>4, <2>2, <2>4, <3>1, <3>2
    <3>4. FormCurrent(p.form, b)
      BY <2>1, <3>1, <3>3 DEF FormAt
    <3> QED BY <3>1, <3>4 DEF FormCurrent
  <2>5. ~q.doubt => Mine(b)' = {new}
    BY <1>6, <1>7
  <2> QED BY <1>3, <1>7, <1>9, <2>3, <2>4, <2>5 DEF FormAt
<1>15. ScreenFits(b)'
  BY <1>11, <1>12, <1>13, <1>14 DEF ScreenFits
<1> QED BY <1>0, <1>7, <1>8, <1>10, <1>15, ScreenStep

(* A call fails: its lock is released, and unless it was a change that was *)
(* refused there is doubt.                                                 *)
LEMMA FailingInductive ==
  ASSUME ScreenInv, NEW c \in calls, Failed(c) \/ Lost(c)
  PROVE  ScreenInv'
<1> DEFINE b == c.browser
           p == page[b]
           doubt == c.kind = "load" \/ Lost(c)
           half == Doubting(p, doubt)
           q == [half EXCEPT !.busy = @ /\ (c.kind = "remove" \/ c.user = None)]
           gone == [c EXCEPT !.lost = TRUE]
<1>0. /\ ScreenTypes /\ (\A x \in calls : CallFits(x)) /\ c \in Mine(b) /\ b \in Browser
      /\ c \in ACall /\ CallFits(c) /\ p \in Page
  BY DEF ScreenInv, ScreenTypes, ACall, Mine
<1>1. ScreenFits(b) /\ \A x \in Mine(b) : CallFits(x) /\ x.browser = b
  BY <1>0 DEF ScreenInv, Mine
<1>2. /\ ~c.lost /\ members' = members /\ page' = [page EXCEPT ![b] = q]
      /\ \/ calls' = (calls \ {c}) \cup {}
         \/ calls' = (calls \ {c}) \cup {gone} /\ Lost(c)
      /\ ~Lost(c) => c.stage = "refused"
  <2>1. CASE Lost(c)
    <3> DEFINE lost == [c EXCEPT !.stage = "lost"]
    <3>1. /\ lost.browser = c.browser /\ lost.kind = c.kind /\ lost.stage = "lost"
          /\ lost.user = c.user
      BY <1>0 DEF ACall
    <3>2. Failing(lost) = [Doubting(page[lost.browser], lost.kind = "load" \/ lost.stage # "refused")
                             EXCEPT !.busy = @ /\ (lost.kind = "remove" \/ lost.user = None)]
      BY DEF Failing
    <3>3. (lost.kind = "load" \/ lost.stage # "refused") = doubt
      BY <2>1, <3>1
    <3> HIDE DEF doubt
    <3>4. Failing(lost) = q
      BY <3>1, <3>2, <3>3
    <3> HIDE DEF q, lost
    <3> QED BY <2>1, <3>4 DEF Lost, Becomes, lost
  <2>2. CASE Failed(c) /\ ~Lost(c)
    <3>1. (c.kind = "load" \/ c.stage # "refused") = doubt
      BY <2>2 DEF Failed
    <3> HIDE DEF doubt
    <3>2. Failing(c) = q
      BY <3>1 DEF Failing
    <3> QED BY <2>2, <3>2 DEF Failed, Becomes
  <2> QED BY <2>1, <2>2
<1>3. /\ half \in Page /\ half.open = p.open /\ half.users = p.users /\ half.busy = p.busy
      /\ (half.doubt <=> p.doubt \/ doubt) /\ SameForm(half.form, p.form)
      /\ (doubt /\ half.form # None => ~half.form.sure)
  <2>1. doubt \in BOOLEAN
    OBVIOUS
  <2> HIDE DEF doubt
  <2> QED BY <1>0, <2>1, DoubtingEffect
<1> HIDE DEF half
<1>4. /\ q \in Page /\ q.open = p.open /\ q.users = p.users
      /\ (q.busy => p.busy /\ (c.kind = "remove" \/ c.user = None))
      /\ (q.doubt <=> p.doubt \/ doubt) /\ SameForm(q.form, p.form)
      /\ (doubt /\ q.form # None => ~q.form.sure)
  BY <1>3 DEF Page
<1>5. /\ gone \in ACall /\ gone.browser = b /\ gone.kind = c.kind /\ gone.user = c.user
      /\ gone.role = c.role /\ gone.form = c.form /\ gone.stage = c.stage /\ gone.users = c.users
      /\ gone.lost
  BY <1>0 DEF ACall
<1> HIDE DEF q, gone
<1>6. /\ Mine(b)' \subseteq (Mine(b) \ {c}) \cup {gone} /\ Mine(b) \ {c} \subseteq Mine(b)'
      /\ ~doubt => Mine(b)' = Mine(b) \ {c}
      /\ page'[b] = q
      /\ \A x \in Browser \ {b} : page'[x] = page[x] /\ Mine(x)' = Mine(x) /\ Spares(x)
  BY <1>0, <1>2, <1>5 DEF Mine, Spares, ScreenTypes
<1>7. ScreenTypes'
  BY <1>0, <1>2, <1>4, <1>5 DEF ScreenTypes
<1>8. /\ \A list : (Current(list, b)' <=> Current(list, b)) /\ (Older(list)' <=> Older(list))
      /\ \A f : FormCurrent(f, b)' <=> FormCurrent(f, b)
  BY <1>2 DEF Current, Older, FormCurrent
<1>9. \A x \in Mine(b)' : CallFits(x)'
  <2> SUFFICES ASSUME NEW x \in Mine(b)' PROVE CallFits(x)'
    OBVIOUS
  <2>1. CASE x \in Mine(b)
    BY <1>1, <1>4, <1>6, <1>8, <2>1 DEF CallFits
  <2>2. CASE x = gone /\ x \notin Mine(b)
    <3>1. doubt
      BY <1>6, <2>2
    <3> QED BY <1>0, <1>4, <1>5, <1>6, <1>8, <2>2, <3>1 DEF CallFits
  <2> QED BY <1>6, <2>1, <2>2
<1>10. ~q.doubt => Mine(b) = {c} /\ Mine(b)' = {} /\ ~p.doubt /\ c.kind # "load" /\ c.stage = "refused"
  BY <1>0, <1>1, <1>2, <1>4, <1>6 DEF ScreenFits, AloneAt
<1>11. AloneAt(b)'
  <2>1. p.open
    BY <1>0, <1>1 DEF ScreenFits, AloneAt
  <2> QED BY <1>4, <1>6, <1>10, <2>1 DEF AloneAt
<1>12. LockAt(b)'
  BY <1>1, <1>4, <1>6 DEF ScreenFits, LockAt
<1>13. ListAt(b)'
  <2>1. ListAt(b)
    BY <1>1 DEF ScreenFits
  <2>2. ~q.doubt /\ p.users # None => Current(p.users, b)
    BY <1>10, <2>1 DEF ListAt
  <2> QED BY <1>4, <1>6, <1>8, <1>10, <2>1, <2>2 DEF ListAt
<1>14. FormAt(b)'
  <2>1. FormAt(b)
    BY <1>1 DEF ScreenFits
  <2>2. ASSUME q.form # None, q.form.alone, NEW x \in Mine(b)'
        PROVE  x.kind # "add" /\ (x.kind # "load" => x.form # None /\ x.form.user = q.form.user)
    <3>1. /\ p.form # None /\ p.form.alone /\ q.form.user = p.form.user
          /\ c.kind # "add" /\ (c.kind # "load" => c.form # None /\ c.form.user = p.form.user)
      BY <1>0, <1>4, <2>1, <2>2 DEF FormAt, SameForm
    <3>2. CASE x = gone
      BY <1>5, <3>1, <3>2
    <3>3. CASE x \in Mine(b)
      BY <2>1, <3>1, <3>3 DEF FormAt
    <3> QED BY <1>6, <3>2, <3>3
  <2>3. ASSUME q.form # None, q.form.sure
        PROVE  q.form.alone /\ ~q.doubt /\ FormCurrent(q.form, b)
    <3>1. ~doubt /\ p.form # None /\ p.form.sure /\ p.form.alone /\ ~p.doubt
      BY <1>4, <2>1, <2>3 DEF SameForm, FormAt
    <3>2. ~q.doubt
      BY <1>4, <3>1
    <3>3. FormCurrent(p.form, b)
      BY <1>10, <2>1, <3>1, <3>2 DEF FormAt
    <3> QED BY <1>4, <3>1, <3>2, <3>3 DEF SameForm, FormCurrent
  <2> QED BY <1>6, <1>8, <1>10, <2>2, <2>3 DEF FormAt
<1>15. ScreenFits(b)'
  BY <1>11, <1>12, <1>13, <1>14 DEF ScreenFits
<1> QED BY <1>0, <1>6, <1>7, <1>9, <1>15, ScreenStep

(* Roles change elsewhere too. *)
LEMMA RolesInductive ==
  ASSUME SignInTypes, ScreenInv, SigningIn, UNCHANGED <<page, calls>>
  PROVE  ScreenInv'
<1>0. ScreenTypes /\ \A c \in calls : CallFits(c)
  BY DEF ScreenInv
<1>1. CASE members' = members
  <2>1. ASSUME NEW b \in Browser PROVE ScreenFits(b)'
    <3>1. Spares(b) /\ Mine(b)' = Mine(b)
      BY <1>1 DEF Spares, Mine
    <3> QED BY <1>0, <3>1, Elsewhere DEF ScreenInv
  <2>2. \A list : Older(list)' <=> Older(list)
    BY <1>1 DEF Older
  <2>3. \A c \in calls' : CallFits(c)'
    BY <1>0, <2>2 DEF CallFits
  <2> QED BY <1>0, <1>1, <2>1, <2>3 DEF ScreenInv, ScreenTypes
<1>2. ASSUME NEW u \in User, RoleChanges(u) PROVE ScreenInv'
  <2>1. PICK role \in bounds.given \ {members[u].role} :
          members' = [members EXCEPT ![u] =
            [role |-> role, version |-> members[u].version + 1, by |-> None]]
    BY <1>2 DEF RoleChanges
  <2> DEFINE new == [role |-> role, version |-> members[u].version + 1, by |-> None]
  <2>2. role \in Roles /\ members[u].version \in Nat /\ members \in Members
    BY <1>0, <2>1, BeginningsFit DEF SignInTypes, ScreenTypes, Members, Member
  <2>3. new \in Member /\ new.version = members[u].version + 1 /\ new.by = None
    BY <2>2 DEF Member
  <2>4. members' = [members EXCEPT ![u] = new]
    BY <2>1
  <2> HIDE DEF new
  <2>5. /\ members' \in Members /\ members'[u] = new
        /\ \A v \in User \ {u} : members'[v] = members[v]
    BY <2>2, <2>3, <2>4 DEF Members
  <2>6. \A b \in Browser : Spares(b)
    BY <2>3, <2>5, NoneIsNothing DEF Spares
  <2>7. \A b \in Browser : ScreenFits(b)'
    <3> SUFFICES ASSUME NEW b \in Browser PROVE ScreenFits(b)'
      OBVIOUS
    <3>1. Mine(b)' = Mine(b)
      BY DEF Mine
    <3> QED BY <1>0, <2>6, <3>1, Elsewhere DEF ScreenInv
  <2>8. \A c \in calls' : CallFits(c)'
    <3> SUFFICES ASSUME NEW c \in calls PROVE CallFits(c)'
      OBVIOUS
    <3>1. CallFits(c) /\ c.browser \in Browser
      BY <1>0 DEF ScreenTypes, ACall
    <3>2. c.kind = "load" /\ c.stage = "done" => Older(c.users)'
      BY <2>2, <2>6, <3>1, ListsSpared DEF CallFits
    <3> QED BY <3>1, <3>2 DEF CallFits
  <2> QED BY <1>0, <2>5, <2>7, <2>8 DEF ScreenInv, ScreenTypes
<1>3. members' = members \/ \E u \in User : RoleChanges(u)
  BY DEF SigningIn, Login, Logout, Callback, Authorize, StateExpires, SessionEnds, Consume, Redeem,
         Introspect, Revoke, SignOut, AwaitFails, Answered, AnswerLost
<1> QED BY <1>1, <1>2, <1>3

-----------------------------------------------------------------------------
(* The invariant holds. *)

LEMMA ScreenStarts ==
  ASSUME Init
  PROVE  ScreenInv
<1>1. /\ LoginInit /\ calls = {}
      /\ page = [b \in Browser |-> IF b \in bounds.open THEN Loaded(b) ELSE Closed]
  BY DEF Init
<1>2. members = [u \in User |-> [role |-> bounds.role[u], version |-> 0, by |-> None]]
      /\ bounds.role \in [User -> Roles]
  BY <1>1, BeginningsFit DEF LoginInit
<1>3. members \in Members
  BY <1>2 DEF Members, Member
<1>4. /\ Closed \in Page /\ ~Closed.open /\ Closed.users = None /\ Closed.form = None
      /\ ~Closed.busy /\ ~Closed.doubt
  BY DEF Closed, Page
<1>5. ASSUME NEW b \in Browser
      PROVE  /\ Loaded(b) \in Page /\ Loaded(b).open /\ Loaded(b).users = members
             /\ Loaded(b).form = None /\ ~Loaded(b).busy /\ ~Loaded(b).doubt
  <2> DEFINE right == members[logins[sessionCookie[b]].user].role = "super"
             one == [Closed EXCEPT !.open = TRUE]
             two == [one EXCEPT !.users = members]
             three == [two EXCEPT !.sent = 1]
             four == [three EXCEPT !.super = right]
  <2>1. Loaded(b) = four
    BY DEF Loaded
  <2>2. right \in BOOLEAN
    OBVIOUS
  <2> HIDE DEF right
  <2>3. /\ one \in Page /\ one.open /\ one.form = None /\ ~one.busy /\ ~one.doubt
    BY <1>4 DEF Page
  <2> HIDE DEF one
  <2>4. /\ two \in Page /\ two.open /\ two.users = members /\ two.form = None /\ ~two.busy /\ ~two.doubt
    BY <1>3, <2>3 DEF Page
  <2> HIDE DEF two
  <2>5. /\ three \in Page /\ three.open /\ three.users = members /\ three.form = None
        /\ ~three.busy /\ ~three.doubt
    BY <2>4 DEF Page
  <2> HIDE DEF three
  <2>6. /\ four \in Page /\ four.open /\ four.users = members /\ four.form = None
        /\ ~four.busy /\ ~four.doubt
    BY <2>2, <2>5 DEF Page
  <2> QED BY <2>1, <2>6
<1>6. ScreenTypes
  BY <1>1, <1>3, <1>4, <1>5 DEF ScreenTypes
<1>7. ASSUME NEW b \in Browser PROVE ScreenFits(b)
  <2>1. Mine(b) = {}
    BY <1>1 DEF Mine
  <2>2. /\ page[b].form = None /\ ~page[b].busy
        /\ page[b].users = None \/ (page[b].users = members /\ page[b].open)
    BY <1>1, <1>4, <1>5
  <2>3. Older(members) /\ Current(members, b)
    BY DEF Older, Current
  <2> QED BY <2>1, <2>2, <2>3 DEF ScreenFits, AloneAt, LockAt, ListAt, FormAt
<1> QED BY <1>1, <1>6, <1>7 DEF ScreenInv

LEMMA ScreenInductive ==
  ASSUME SignInTypes, ScreenInv, [Next]_vars
  PROVE  ScreenInv'
<1>0. ScreenTypes
  BY DEF ScreenInv
<1>1. CASE SigningIn /\ UNCHANGED <<page, calls, edits>>
  BY <1>1, RolesInductive
<1>2. ASSUME NEW b \in Browser, Mount(b) \/ Cancel(b) PROVE ScreenInv'
  BY <1>2, MountInductive, CancelInductive
<1>3. ASSUME NEW b \in Browser, NEW u \in User, Edit(b, u) PROVE ScreenInv'
  BY <1>3, EditInductive
<1>4. ASSUME NEW b \in Browser, NEW u \in User, Remove(b, u) PROVE ScreenInv'
  <2>1. page[b].busy \in BOOLEAN
    BY <1>0 DEF ScreenTypes, Page
  <2>2. page[b].open
    <3>1. page[b].users # None
      BY <1>4 DEF Remove, Editable
    <3> QED BY <3>1 DEF ScreenInv, ScreenFits, AloneAt
  <2> QED BY <1>4, <2>1, <2>2, ChangeSent DEF Remove, Roles
<1>5. ASSUME NEW b \in Browser, NEW role \in Roles, Save(b, role) PROVE ScreenInv'
  <2>1. page[b].open /\ ~page[b].busy
    BY <1>5 DEF Save
  <2>2. CASE page[b].form = None
    <3>1. PICK u \in User : Changes(b, "add", u, role, TRUE)
      BY <1>5, <2>2 DEF Save
    <3> QED BY <2>1, <2>2, <3>1, ChangeSent
  <2>3. CASE page[b].form # None
    <3>1. page[b].form.user \in User
      BY <1>0, <2>3 DEF ScreenTypes, Page, Form
    <3>2. Changes(b, "save", page[b].form.user, role, TRUE)
      BY <1>5, <2>3 DEF Save
    <3> QED BY <2>1, <2>3, <3>1, <3>2, ChangeSent
  <2> QED BY <2>2, <2>3
<1>6. ASSUME NEW c \in calls, Authorise(c) \/ Refuse(c) \/ ListMembers(c) PROVE ScreenInv'
  BY <1>6, AuthoriseInductive
<1>7. ASSUME NEW c \in calls, AddMember(c) \/ EditMember(c) \/ RemoveMember(c) PROVE ScreenInv'
  BY <1>7, OverwriteInductive DEF AddMember, EditMember, RemoveMember
<1>8. ASSUME NEW c \in calls, LoadAnswered(c) \/ ChangeAnswered(c) PROVE ScreenInv'
  BY <1>8, LoadAnsweredInductive, ChangeAnsweredInductive
<1>9. ASSUME NEW c \in calls, Failed(c) \/ Lost(c) PROVE ScreenInv'
  BY <1>9, FailingInductive
<1>10. CASE UNCHANGED vars
  <2>1. page' = page /\ calls' = calls /\ members' = members
    BY <1>10 DEF vars
  <2>2. \A list : (Older(list)' <=> Older(list))
    BY <2>1 DEF Older
  <2>3. \A c \in calls' : CallFits(c)'
    BY <2>1, <2>2 DEF CallFits, ScreenInv
  <2>4. ASSUME NEW b \in Browser PROVE ScreenFits(b)'
    <3>1. Spares(b) /\ Mine(b)' = Mine(b) /\ page'[b] = page[b]
      BY <2>1 DEF Spares, Mine
    <3> QED BY <3>1, Elsewhere DEF ScreenInv
  <2> QED BY <2>1, <2>3, <2>4 DEF ScreenInv, ScreenTypes
<1> QED BY <1>1, <1>2, <1>3, <1>4, <1>5, <1>6, <1>7, <1>8, <1>9, <1>10 DEF Next

LEMMA NextIInv == IInv /\ [Next]_vars => IInv'
<1> SUFFICES ASSUME IInv, [Next]_vars PROVE IInv'
  OBVIOUS
<1>1. SignInInv /\ SignInTypes /\ ScreenInv
  BY DEF IInv, SignInInv
<1>2. SigningIn \/ UNCHANGED loginVars
  BY DEF Next, vars, loginVars, Mount, Cancel, Edit, Remove, Save, Changes, Authorise, Refuse,
         ListMembers, AddMember, EditMember, RemoveMember, Overwrite, LoadAnswered, ChangeAnswered,
         Failed, Lost
<1> QED BY <1>1, <1>2, SignInInductive, ScreenInductive DEF IInv

LEMMA InvariantHolds == Spec => []IInv
<1>1. Init => IInv
  BY SignInStarts, ScreenStarts DEF Init, IInv
<1> QED BY <1>1, NextIInv, PTL DEF Spec

-----------------------------------------------------------------------------
(* A login gets past its state once, and a browser only holds the session  *)
(* of a login begun in it (auth/routes.ts:75-102, db/mysql.ts:97-105), for *)
(* however many browsers, logins, replays and failures there are.          *)
THEOREM OneAdmissionHolds == Spec => []OneAdmission
<1>1. IInv => OneAdmission
  BY SignInSafe DEF IInv
<1> QED BY <1>1, InvariantHolds, PTL

(* A login that fails does so for a reason of its own, or because of a     *)
(* rival of it in its browser (auth/routes.ts:75-82).                      *)
THEOREM OnlyRivalsSpoilHolds == Spec => []OnlyRivalsSpoil
<1>1. IInv => OnlyRivalsSpoil
  BY SignInSafe DEF IInv
<1> QED BY <1>1, InvariantHolds, PTL

(* No live session is left behind at Identity unless a call or an answer   *)
(* of its login failed or another tab took its cookie away                 *)
(* (auth/routes.ts:83-115, 117-136).                                       *)
THEOREM NoStraySessionHolds == Spec => []NoStraySession
<1>1. IInv => NoStraySession
  BY SignInSafe DEF IInv
<1> QED BY <1>1, InvariantHolds, PTL

(* The lock of the Users screen is always held by a call that will be      *)
(* answered, and a screen at rest misses nothing that it did itself        *)
(* (TenantUsersScreen.tsx:22-33, 54-91).                                   *)
THEOREM ScreenAtRestHolds == Spec => []ScreenAtRest
<1>1. IInv => ScreenAtRest
  <2> SUFFICES ASSUME IInv PROVE ScreenAtRest
    OBVIOUS
  <2>1. SessionsTyped /\ ScreenTypes /\ \A b \in Browser : ScreenFits(b)
    BY SignInSafe DEF IInv, ScreenInv
  <2>2. TypeOK
    <3>1. \A u \in User : members[u] \in Member
      BY <2>1 DEF ScreenTypes, Members
    <3>2. \A u \in User : members[u].role \in Roles /\ members[u].by \in Browser \cup {None}
      BY <3>1 DEF Member
    <3>3. \A b \in Browser : page[b].form = None \/ page[b].form.user \in User
      BY <2>1 DEF ScreenTypes, Page, Form
    <3> QED BY <2>1, <3>2, <3>3 DEF TypeOK
  <2>3. LockIsHeld
    BY <2>1 DEF LockIsHeld, ScreenFits, LockAt
  <2>4. ListSettles
    BY <2>1 DEF ListSettles, ScreenFits, ListAt, Current
  <2> QED BY <2>2, <2>3, <2>4 DEF ScreenAtRest
<1> QED BY <1>1, InvariantHolds, PTL

(* A form that is saved without choosing another role, by a screen that    *)
(* knows of no doubt, takes back only what another administrator did.      *)
LEMMA SavedKnowingly ==
  ASSUME IInv, NEW c \in calls, EditMember(c), c.role = c.form.role, members[c.user].role # c.role,
         c.form.sure, ~page[c.browser].doubt
  PROVE  members[c.user].version > c.form.version /\ members[c.user].by # c.browser
<1>1. c.kind = "save" /\ c.stage = "asked"
  BY DEF EditMember, Overwrite
<1>2. c.browser \in Browser /\ c \in Mine(c.browser) /\ c.form.user = c.user
  BY <1>1 DEF IInv, ScreenInv, ScreenTypes, ACall, Mine, CallFits
<1>3. FormCurrent(c.form, c.browser)
  BY <1>1, <1>2 DEF IInv, ScreenInv, ScreenFits, FormAt
<1> QED BY <1>2, <1>3 DEF FormCurrent

(* A form that closes was cancelled, or closed by a call that was its own. *)
LEMMA ClosedKnowingly ==
  ASSUME IInv, Next, NEW b \in Browser, page[b].form # None, page'[b].form = None,
         page[b].form.alone
  PROVE  Cancel(b) \/ \E c \in Mine(b) \ calls' : c.user = page[b].form.user
<1>0. /\ SignInTypes /\ ScreenTypes /\ ScreenFits(b) /\ (\A c \in calls : CallFits(c))
      /\ \A x \in Browser : page[x] \in Page
  BY DEF IInv, SignInInv, ScreenInv, ScreenTypes
<1>1. ASSUME NEW x \in Browser, NEW q, page' = [page EXCEPT ![x] = q], SameForm(q.form, page[x].form)
      PROVE  FALSE
  <2>1. page[b].form = page'[b].form \/ (x = b /\ page'[b].form = q.form)
    BY <1>0, <1>1 DEF ScreenTypes
  <2> QED BY <1>1, <2>1 DEF SameForm
<1>2. ASSUME NEW x \in Browser, NEW kind, NEW u, NEW role, NEW busy \in BOOLEAN,
             Changes(x, kind, u, role, busy)
      PROVE  FALSE
  <2> DEFINE half == [page[x] EXCEPT !.busy = busy]
             q == Sending(half, kind, Mine(x))
  <2>1. half \in Page /\ half.form = page[x].form
    BY <1>0 DEF Page
  <2>2. page' = [page EXCEPT ![x] = q]
    BY <1>2 DEF Changes
  <2> HIDE DEF half
  <2>3. SameForm(q.form, half.form)
    BY <2>1, SendingEffect
  <2> HIDE DEF q
  <2> QED BY <1>1, <2>1, <2>2, <2>3
<1>3. ASSUME page' = page PROVE FALSE
  BY <1>3
<1>4. CASE SigningIn /\ UNCHANGED <<page, calls, edits>>
  BY <1>3, <1>4
<1>5. ASSUME NEW x \in Browser, Mount(x) PROVE FALSE
  <2>1. x # b
    BY <1>0, <1>5 DEF Mount, ScreenFits, AloneAt
  <2> QED BY <1>0, <1>5, <2>1 DEF Mount, ScreenTypes
<1>6. ASSUME NEW x \in Browser, Cancel(x) PROVE Cancel(b)
  <2>1. x # b => page'[b] = page[b]
    BY <1>0, <1>6 DEF Cancel, ScreenTypes
  <2> QED BY <1>6, <2>1
<1>7. ASSUME NEW x \in Browser, NEW u \in User, Edit(x, u) PROVE FALSE
  <2> DEFINE alone == Mine(x) = {} /\ ~page[x].doubt
             form == [user |-> u, role |-> page[x].users[u].role, version |-> page[x].users[u].version,
                      alone |-> alone, sure |-> alone]
  <2>1. page[x].users # None
    BY <1>7 DEF Edit, Editable
  <2>2. page[x].users[u] \in Member
    BY <1>0, <2>1, ScreenFacts DEF Members
  <2>3. page' = [page EXCEPT ![x] = [page[x] EXCEPT !.form = form]]
    BY <1>7 DEF Edit
  <2> HIDE DEF alone
  <2>4. alone \in BOOLEAN
    BY DEF alone
  <2>5. form \in Form
    BY <2>2, <2>4 DEF Form, Member
  <2> HIDE DEF form
  <2>6. x # b \/ page'[b].form = form
    BY <1>0, <2>3 DEF ScreenTypes, Page
  <2>7. x # b => page'[b] = page[b]
    BY <1>0, <2>3 DEF ScreenTypes
  <2> QED BY <2>5, <2>6, <2>7, NoneIsNoForm
<1>8. ASSUME NEW x \in Browser, NEW u \in User, Remove(x, u) PROVE FALSE
  <2>1. page[x].busy \in BOOLEAN
    BY <1>0 DEF Page
  <2> QED BY <1>2, <1>8, <2>1 DEF Remove
<1>9. ASSUME NEW x \in Browser, NEW role \in Roles, Save(x, role) PROVE FALSE
  BY <1>2, <1>9 DEF Save
<1>10. ASSUME NEW c \in calls, Authorise(c) \/ Refuse(c) \/ ListMembers(c)
                                \/ AddMember(c) \/ EditMember(c) \/ RemoveMember(c)
       PROVE  FALSE
  BY <1>3, <1>10 DEF Authorise, Refuse, ListMembers, AddMember, EditMember, RemoveMember, Overwrite
<1>11. ASSUME NEW c \in calls, LoadAnswered(c) PROVE FALSE
  <2> DEFINE x == c.browser
  <2>1. x \in Browser
    BY <1>0 DEF ScreenTypes, ACall
  <2>2. page'[x].form = page[x].form /\ \A y \in Browser : y # x => page'[y] = page[y]
    BY <1>0, <1>11, <2>1 DEF LoadAnswered, ScreenTypes, Page
  <2> QED BY <2>2
<1>12. ASSUME NEW c \in calls, Failed(c) \/ Lost(c) PROVE FALSE
  <2> DEFINE x == c.browser
  <2>1. x \in Browser /\ c \in ACall
    BY <1>0 DEF ScreenTypes, ACall
  <2>2. \E doubt, free \in BOOLEAN :
          page' = [page EXCEPT ![x] = [Doubting(page[x], doubt) EXCEPT !.busy = @ /\ free]]
    <3>1. CASE Failed(c)
      BY <3>1 DEF Failed, Failing
    <3>2. CASE Lost(c)
      <4> DEFINE lost == [c EXCEPT !.stage = "lost"]
      <4>1. lost.browser = x
        BY <2>1 DEF ACall
      <4>2. page' = [page EXCEPT ![x] = Failing(lost)]
        BY <3>2 DEF Lost
      <4> HIDE DEF lost
      <4> QED BY <4>1, <4>2 DEF Failing
    <3> QED BY <1>12, <3>1, <3>2
  <2>3. PICK doubt \in BOOLEAN, free \in BOOLEAN :
          page' = [page EXCEPT ![x] = [Doubting(page[x], doubt) EXCEPT !.busy = @ /\ free]]
    BY <2>2
  <2> DEFINE half == Doubting(page[x], doubt)
             q == [half EXCEPT !.busy = @ /\ free]
  <2>4. half \in Page /\ SameForm(half.form, page[x].form)
    BY <1>0, <2>1, DoubtingEffect
  <2>5. page' = [page EXCEPT ![x] = q]
    BY <2>3
  <2> HIDE DEF half
  <2>6. q.form = half.form
    BY <2>4 DEF Page
  <2> HIDE DEF q
  <2> QED BY <1>1, <2>1, <2>4, <2>5, <2>6
<1>13. ASSUME NEW c \in calls, ChangeAnswered(c)
       PROVE  \E x \in Mine(b) \ calls' : x.user = page[b].form.user
  <2> DEFINE x == c.browser
             half == [page[x] EXCEPT !.form = FormAfter(c)]
             q == Sending(half, "load", Mine(x) \ {c})
             user == IF c.kind = "remove" THEN None ELSE c.user
             new == Call(x, "load", user, None)
  <2>1. /\ x \in Browser /\ c \in ACall /\ CallFits(c) /\ c \in Mine(x)
        /\ c.kind # "load" /\ user \in User \cup {None}
    BY <1>0, <1>13 DEF ScreenTypes, ACall, Mine, ChangeAnswered
  <2>2. page' = [page EXCEPT ![x] = q] /\ calls' = (calls \ {c}) \cup {new}
    BY <1>13 DEF ChangeAnswered, Becomes, Reload
  <2>3. c \notin calls'
    <3>1. new.kind = "load"
      BY <1>0, <2>1, CallEffect
    <3> HIDE DEF new
    <3> QED BY <2>1, <2>2, <3>1
  <2>4. x = b /\ FormAfter(c) = None
    <3>1. FormAfter(c) \in {None, page[x].form}
      BY DEF FormAfter
    <3>2. half \in Page /\ half.form = FormAfter(c)
      BY <1>0, <2>1, <3>1 DEF Page
    <3> HIDE DEF half
    <3>3. SameForm(q.form, half.form)
      BY <3>2, SendingEffect
    <3> HIDE DEF q
    <3>4. FormAfter(c) = page[x].form => FALSE
      BY <1>1, <2>1, <2>2, <3>2, <3>3
    <3>5. x # b => page'[b] = page[b]
      BY <1>0, <2>2 DEF ScreenTypes
    <3> QED BY <3>1, <3>4, <3>5
  <2>5. c.form # None /\ c.form.user = page[b].form.user /\ c.kind \in {"save", "remove"}
    BY <1>0, <2>1, <2>4 DEF ScreenFits, FormAt, ACall
  <2>6. c.user = page[b].form.user
    BY <2>1, <2>4, <2>5 DEF FormAfter, CallFits
  <2> QED BY <2>1, <2>3, <2>4, <2>6
<1> QED BY <1>4, <1>5, <1>6, <1>7, <1>8, <1>9, <1>10, <1>11, <1>12, <1>13 DEF Next

(* A form is saved as it was meant, and closed when it was meant: saving   *)
(* without choosing another role undoes nothing that this screen did, and  *)
(* only its own Cancel, save or removal closes a form                      *)
(* (TenantUsersScreen.tsx:42-53, 66-70, 79, 103).                          *)
THEOREM FormsAreFaithfulHolds == Spec => FormsAreFaithful
<1> DEFINE Knowing ==
             \A c \in calls : EditMember(c) =>
               LET then == members[c.user] IN
               (c.role = c.form.role /\ then.role # c.role
                  /\ c.form.sure /\ ~page[c.browser].doubt) =>
                 then.version > c.form.version /\ then.by # c.browser
           Own ==
             \A b \in Browser :
               page[b].form # None /\ page'[b].form = None =>
                 \/ Cancel(b) \/ ~page[b].form.alone
                 \/ \E c \in Mine(b) \ calls' : c.user = page[b].form.user
<1>1. IInv => Knowing
  BY SavedKnowingly
<1>2. IInv /\ [Next]_vars => [Own]_vars
  BY ClosedKnowingly
<1>3. Spec => [][Knowing]_vars
  BY <1>1, InvariantHolds, PTL
<1>4. Spec => [][Own]_vars
  BY <1>2, InvariantHolds, PTL DEF Spec
<1> QED BY <1>3, <1>4 DEF FormsAreFaithful, NoBlindSave, ClosedByItsOwn

=============================================================================
