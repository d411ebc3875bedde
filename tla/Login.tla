-------------------------------- MODULE Login --------------------------------
(***************************************************************************)
(* Signing in and out (server/src/auth/routes.ts) over the single-use      *)
(* states kept in MySQL (db/mysql.ts) and the application sessions kept in *)
(* Identity (auth/session-store.ts, id/client.ts).  The tabs of a browser  *)
(* share its cookies: a request carries them as they are when it is sent,  *)
(* and its answer changes them when it arrives.                            *)
(*                                                                         *)
(* A login is named by its number, which stands for its state, for the     *)
(* code Identity returns and for the session the code is redeemed for.     *)
(* The first page of a login is taken up to its redirect in one step: two  *)
(* of them differ in nothing but which answer the browser gets last.       *)
(*                                                                         *)
(* Identity keeps who is a member of the tenant, in which role; TenantUsers *)
(* adds the screen that changes it.  A disabled membership counts as that  *)
(* of a mere user, which gives no access here either.                      *)
(***************************************************************************)
EXTENDS Naturals, Sequences

CONSTANTS
    Browser, User, None,
    Beginnings      \* the situations to begin in: the roles of the users, who
                    \* is signed in where, whose Users screen is open, the
                    \* roles others give, and the bounds on logins, callbacks
                    \* and sign-outs, edits of members, and turns: failures
                    \* and what others do

VARIABLES
    bounds,         \* the situation begun in
    logins,         \* the logins begun, with what became of their states
    requests,       \* callbacks and logouts, with what became of them
    stateCookie,    \* of each browser: the login it is in, or None
    sessionCookie,  \* of each browser: the session it holds, or None
    central,        \* the session of each login, at Identity
    members,        \* of each user: the role, how often it changed, by whom
    dropped,        \* sessions whose cookie another tab's answer took away
    turns

cookies == <<stateCookie, sessionCookie, dropped>>
signInVars == <<logins, requests, cookies, central>>

Roles == {"none", "user", "admin", "super"}

(* Who is signed in at first is so in one browser, with one session; an    *)
(* open Users screen is that of somebody signed in.                        *)
ASSUME BeginningsFit ==
    \A beginning \in Beginnings :
        /\ beginning.in \in Seq([browser: Browser, user: User])
        /\ beginning.logins \in Nat /\ Len(beginning.in) <= beginning.logins
        /\ \A i, j \in DOMAIN beginning.in :
             beginning.in[i].browser = beginning.in[j].browser => i = j
        /\ beginning.role \in [User -> Roles] /\ beginning.given \subseteq Roles
        /\ \A b \in beginning.open : \E i \in DOMAIN beginning.in : beginning.in[i].browser = b
ASSUME NoneIsNothing == None \notin Browser /\ None \notin User /\ None \notin Nat

Administers(u) == members[u].role \in {"admin", "super"}
Turn == turns < bounds.turns /\ turns' = turns + 1
In(r, stage) == r \in DOMAIN requests /\ requests[r].stage = stage
To(r, stage) == requests' = [requests EXCEPT ![r].stage = stage]
Awaits == {"consume", "redeem", "introspect", "revoke", "sign-out"}
Answers == {"ok", "denied", "error", "failed", "signed-out", "not-signed-out"}

(* What replaces a browser's state cookie spoils the login it was for.     *)
Spoil(b, own) == [l \in DOMAIN logins |->
    IF l = stateCookie[b] /\ l # own THEN [logins[l] EXCEPT !.spoiled = TRUE] ELSE logins[l]]

-----------------------------------------------------------------------------
(* GET /api/auth/login                                                     *)

(* Fault: a login that is under way keeps its cookie. *)
KeepState(b, l) == IF stateCookie[b] = None THEN l ELSE stateCookie[b]

NewState(b, l) == l

(* Fault: the state is not stored. *)
IssuedUnused(b) == [browser |-> b, user |-> None, state |-> "none", back |-> FALSE, spoiled |-> FALSE]

Issued(b) == [browser |-> b, user |-> None, state |-> "issued", back |-> FALSE, spoiled |-> FALSE]

Login(b) ==
    /\ Len(logins) < bounds.logins
    /\ LET l == Len(logins) + 1
           cookie == NewState(b, l)
       IN  /\ logins' = Append(IF cookie = l THEN Spoil(b, l) ELSE logins, Issued(b))
           /\ stateCookie' = [stateCookie EXCEPT ![b] = cookie]
    /\ UNCHANGED <<bounds, requests, sessionCookie, central, members, dropped, turns>>

(* Identity sends the browser back with a code, or without one.            *)
Authorize(l, user) ==
    /\ l \in DOMAIN logins /\ ~logins[l].back
    /\ logins' = [logins EXCEPT ![l].back = TRUE, ![l].user = user]
    /\ UNCHANGED <<bounds, requests, cookies, central, members, turns>>

-----------------------------------------------------------------------------
(* GET /api/auth/callback                                                  *)

Send(b, l, stage) ==
    /\ Len(requests) < bounds.requests
    /\ requests' = Append(requests, [browser |-> b, login |-> l, cookie |-> stateCookie[b],
                                     stage |-> stage, failed |-> FALSE, answered |-> FALSE])

(* The callback is loaded; a turn pays for loading it again, or elsewhere. *)
Callback(b, l) ==
    /\ l \in DOMAIN logins /\ logins[l].back
    /\ IF b = logins[l].browser /\ \A r \in DOMAIN requests : requests[r].login # l
       THEN UNCHANGED turns ELSE Turn
    /\ Send(b, l, "consume")
    /\ UNCHANGED <<bounds, logins, cookies, central, members>>

(* Fault: the cookie is not compared. *)
AnyBrowser(request) == logins[request.login].user # None

Matches(request) == logins[request.login].user # None /\ request.cookie = request.login

(* Fault: a state is good until it expires. *)
Unexpired(l) == logins[l].state # "expired"

Unused(l) == logins[l].state = "issued"

(* The cookie is compared, then the record consumed in one statement.      *)
Consume(r) ==
    /\ In(r, "consume")
    /\ LET l == requests[r].login
       IN  IF Matches(requests[r]) /\ Unused(l)
           THEN To(r, "redeem") /\ logins' = [logins EXCEPT ![l].state = "consumed"]
           ELSE To(r, "error") /\ UNCHANGED logins
    /\ UNCHANGED <<bounds, cookies, central, members, turns>>

(* Identity opens the session, and refuses a code it has redeemed.         *)
Redeem(r) ==
    /\ In(r, "redeem")
    /\ LET l == requests[r].login
       IN  IF central[l] = "none"
           THEN To(r, "introspect") /\ central' = [central EXCEPT ![l] = "live"]
           ELSE To(r, "error") /\ UNCHANGED central
    /\ UNCHANGED <<bounds, logins, cookies, members, turns>>

(* The session must be live and its user an administrator of something.    *)
Admission(l) ==
    IF central[l] = "live" /\ Administers(logins[l].user) THEN "ok" ELSE "revoke"

Introspect(r) ==
    /\ In(r, "introspect")
    /\ To(r, Admission(requests[r].login))
    /\ UNCHANGED <<bounds, logins, cookies, central, members, turns>>

(* The session of who is denied is revoked before the answer.              *)
Revoke(r) ==
    /\ In(r, "revoke")
    /\ central' = [central EXCEPT ![requests[r].login] = "revoked"]
    /\ To(r, "denied")
    /\ UNCHANGED <<bounds, logins, cookies, members, turns>>

(* An await of a handler throws, having had its effect or not: the code    *)
(* may be redeemed all the same.  Only a failed redemption is an error of  *)
(* the login; everything else is a 500.                                    *)
Effect(l, stage) ==
    CASE stage = "redeem" /\ central[l] = "none" -> "live"
      [] stage \in {"revoke", "sign-out"} -> "revoked"
      [] OTHER -> central[l]

AwaitFails(r, took) ==
    /\ r \in DOMAIN requests
    /\ requests[r].stage \in Awaits /\ Turn
    /\ LET l == requests[r].login
           stage == requests[r].stage
       IN  /\ central' = [central EXCEPT ![l] = IF took THEN Effect(l, stage) ELSE @]
           /\ logins' = IF took /\ stage = "consume" /\ Matches(requests[r]) /\ Unused(l)
                        THEN [logins EXCEPT ![l].state = "consumed"] ELSE logins
           /\ requests' = [requests EXCEPT ![r].failed = TRUE,
                ![r].stage = CASE stage = "redeem" -> "error"
                               [] stage = "sign-out" -> "not-signed-out"
                               [] OTHER -> "failed"]
    /\ UNCHANGED <<bounds, cookies, members>>

-----------------------------------------------------------------------------
(* POST /api/auth/logout                                                   *)

Logout(b) ==
    /\ sessionCookie[b] # None
    /\ Send(b, sessionCookie[b], "sign-out")
    /\ UNCHANGED <<bounds, logins, cookies, central, members, turns>>

SignOut(r) ==
    /\ In(r, "sign-out")
    /\ central' = [central EXCEPT ![requests[r].login] = "revoked"]
    /\ To(r, "signed-out")
    /\ UNCHANGED <<bounds, logins, cookies, members, turns>>

-----------------------------------------------------------------------------
(* Answers                                                                 *)

(* Fault: a sign-out that failed clears the cookie too. *)
CookieAfterAny(r) ==
    CASE requests[r].stage = "ok" -> requests[r].login
      [] requests[r].stage \in {"signed-out", "not-signed-out"} -> None
      [] OTHER -> sessionCookie[requests[r].browser]

(* Signing in sets the session's cookie, whatever it holds; signing out    *)
(* clears it, whatever it holds by then.                                   *)
CookieAfter(r) ==
    CASE requests[r].stage = "ok" -> requests[r].login
      [] requests[r].stage = "signed-out" -> None
      [] OTHER -> sessionCookie[requests[r].browser]

(* An answer arrives.  A callback's clears the state cookie, whichever     *)
(* login that is for by then.                                              *)
Answered(r) ==
    /\ r \in DOMAIN requests /\ ~requests[r].answered /\ requests[r].stage \in Answers
    /\ LET b == requests[r].browser
           l == requests[r].login
           callback == requests[r].stage \notin {"signed-out", "not-signed-out"}
           other == {sessionCookie[b]} \ {None, l, CookieAfter(r)}
       IN  /\ stateCookie' = [stateCookie EXCEPT ![b] = IF callback THEN None ELSE @]
           /\ logins' = IF callback THEN Spoil(b, l) ELSE logins
           /\ sessionCookie' = [sessionCookie EXCEPT ![b] = CookieAfter(r)]
           /\ dropped' = dropped \cup other
    /\ requests' = [requests EXCEPT ![r].answered = TRUE]
    /\ UNCHANGED <<bounds, central, members, turns>>

AnswerLost(r) ==
    /\ r \in DOMAIN requests /\ ~requests[r].answered /\ requests[r].stage \in Answers
    /\ Turn
    /\ requests' = [requests EXCEPT ![r].answered = TRUE, ![r].failed = TRUE]
    /\ UNCHANGED <<bounds, logins, cookies, central, members>>

-----------------------------------------------------------------------------
(* The ten minutes of a state are over, a role changes, or Identity ends a *)
(* session.                                                                *)
StateExpires(l) ==
    /\ l \in DOMAIN logins /\ logins[l].state = "issued" /\ Turn
    /\ logins' = [logins EXCEPT ![l].state = "expired"]
    /\ UNCHANGED <<bounds, requests, cookies, central, members>>

RoleChanges(u) ==
    /\ Turn
    /\ \E role \in bounds.given \ {members[u].role} :
        members' = [members EXCEPT ![u] = [role |-> role, version |-> @.version + 1, by |-> None]]
    /\ UNCHANGED <<bounds, signInVars>>

SessionEnds(l) ==
    /\ l \in DOMAIN logins /\ central[l] = "live" /\ Turn
    /\ central' = [central EXCEPT ![l] = "revoked"]
    /\ UNCHANGED <<bounds, logins, requests, cookies, members>>

(* The sessions there are at first were opened by earlier logins, whose    *)
(* callbacks cleared their cookies.                                        *)
Opened(browser, user) ==
    [browser |-> browser, user |-> user, state |-> "consumed", back |-> TRUE, spoiled |-> TRUE]

Holds(b, sessions) == {l \in DOMAIN sessions : sessions[l].browser = b}

LoginInit ==
    /\ bounds \in Beginnings
    /\ LET sessions == [l \in DOMAIN bounds.in |-> Opened(bounds.in[l].browser, bounds.in[l].user)]
       IN  /\ logins = sessions
           /\ sessionCookie = [b \in Browser |->
                IF Holds(b, sessions) = {} THEN None ELSE CHOOSE l \in Holds(b, sessions) : TRUE]
    /\ central = [l \in 1..bounds.logins |-> IF l \in DOMAIN bounds.in THEN "live" ELSE "none"]
    /\ members = [u \in User |-> [role |-> bounds.role[u], version |-> 0, by |-> None]]
    /\ requests = <<>> /\ turns = 0 /\ dropped = {}
    /\ stateCookie = [b \in Browser |-> None]

SigningIn ==
    \/ \E b \in Browser :
        \/ Login(b) \/ Logout(b)
        \/ \E l \in DOMAIN logins : Callback(b, l)
    \/ \E l \in DOMAIN logins :
        \/ \E u \in User \cup {None} : Authorize(l, u)
        \/ StateExpires(l) \/ SessionEnds(l)
    \/ \E r \in DOMAIN requests :
        \/ Consume(r) \/ Redeem(r) \/ Introspect(r) \/ Revoke(r) \/ SignOut(r)
        \/ \E took \in BOOLEAN : AwaitFails(r, took)
        \/ Answered(r) \/ AnswerLost(r)
    \/ \E u \in User : RoleChanges(u)

-----------------------------------------------------------------------------
(* Properties                                                              *)

SessionsTyped ==
    /\ \A l \in DOMAIN logins :
        /\ logins[l].state \in {"issued", "consumed", "expired"}
        /\ central[l] # "none" => logins[l].state = "consumed"
    /\ \A l \in DOMAIN central : central[l] \in {"none", "live", "revoked"}
    /\ \A b \in Browser :
        /\ stateCookie[b] \in {None} \cup DOMAIN logins
        /\ sessionCookie[b] \in {None} \cup DOMAIN logins
    /\ dropped \subseteq DOMAIN logins
    /\ \A r \in DOMAIN requests : requests[r].stage \in Answers \cup Awaits

Callbacks(l) == {r \in DOMAIN requests :
    requests[r].login = l /\ requests[r].stage \notin {"sign-out", "signed-out", "not-signed-out"}}

(* However often a callback is loaded, replayed or loaded in parallel, a   *)
(* login gets past its state once, so that its code is redeemed at most    *)
(* once (routes.ts:78-82, db/mysql.ts:97-105).                             *)
AdmittedOnce ==
    \A l \in DOMAIN logins : \A q, r \in Callbacks(l) :
        {requests[q].stage, requests[r].stage}
            \subseteq {"redeem", "introspect", "revoke", "ok", "denied"} => q = r

(* The session a browser holds comes from a login begun in that browser.   *)
OwnLogin ==
    \A b \in Browser :
        sessionCookie[b] # None => logins[sessionCookie[b]].browser = b

(* A login admits once, and only the browser that began it.                *)
OneAdmission == AdmittedOnce /\ OwnLogin

(* A login ends in ?login=error only for a reason of its own - no code, an *)
(* expired state, a failed call - or because its callback was loaded more  *)
(* than once or another login of the browser took its cookie away: an      *)
(* earlier login that was given up does no harm (routes.ts:75-82).         *)
OnlyRivalsSpoil ==
    \A r \in DOMAIN requests :
        LET l == requests[r].login
        IN  requests[r].stage = "error" =>
                \/ logins[l].user = None \/ logins[l].spoiled \/ logins[l].state = "expired"
                \/ requests[r].failed \/ requests[r].browser # logins[l].browser
                \/ Callbacks(l) # {r}

(* No session is left behind at Identity: one that is live is held by a    *)
(* browser or a request, or a call or an answer of its login failed, or    *)
(* the answer of another login or sign-out took the cookie it was in.      *)
NoStraySession ==
    \A l \in DOMAIN logins :
        central[l] = "live" =>
            \/ \E b \in Browser : sessionCookie[b] = l
            \/ l \in dropped
            \/ \E r \in Callbacks(l) : ~requests[r].answered \/ requests[r].failed
=============================================================================
