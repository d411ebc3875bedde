------------------------------ MODULE LiveCalls ------------------------------
(***************************************************************************)
(* The runtime views of one browser: the LIVE screen, which polls the      *)
(* tenant's active calls and can take one over (web/src/screens/           *)
(* OperationsScreen.tsx), and the page of one call, which polls its detail *)
(* (CallDetailScreen.tsx); the BFF's routes behind them                    *)
(* (server/src/runtime/routes.ts), which resolve session and tenant anew   *)
(* for every request; and the reads of OfficePulse they make               *)
(* (server/src/officepulse/runtime.ts), each at a moment of its own.       *)
(*                                                                         *)
(* OfficePulse is external: it records events, ends calls and runs         *)
(* commands.  The session may change in another tab or be revoked.  A      *)
(* request of a screen that was left is dropped with the screen; a command *)
(* is not.                                                                 *)
(***************************************************************************)
EXTENDS CallRecord, FiniteSets

CONSTANTS
    Call, Tenant,
    Owner,            \* the tenant of each call
    Device,           \* handsets that ask for calls
    Happening,        \* the events that may become visible of each call
    Beginning,        \* situations the browser may open in
    PollSlot,         \* the detail polls that may be under way at once
    MaxKeys,          \* bound on the idempotency keys minted
    TakeoverOffered,  \* the LIVE screen is given no reason against takeovers
    MaxTurns          \* bound on what OfficePulse, the session, failures and the user do in all

(* A Super Admin's session may have no tenant selected: "all".             *)
Scope == Tenant \cup {"all", None}

ASSUME OwnersAreTenants == Owner \in [Call -> Tenant]
ASSUME HappeningsAreEvents == \A c \in Call : Happening[c] \subseteq Event
ASSUME SituationsAreReal == \A s \in Beginning :
    /\ s.record \in [Call -> Record] /\ s.page \in Call \cup {"live"}
    /\ s.session \in Scope /\ s.minted \in 0..MaxKeys /\ s.turns \in 0..MaxTurns
ASSUME CallBounds == MaxKeys \in Nat /\ MaxTurns \in Nat
ASSUME NamesAreApart == PollSlot \cap Call = {} /\ "all" \notin Tenant
                        /\ None \notin Tenant \cup Call \cup PollSlot \cup Device

VARIABLES
    record,    \* OfficePulse: the events visible of each call
    ended,     \* OfficePulse: the call session has an end
    commands,  \* OfficePulse: the control commands of each call
    session,   \* the tenant the session works in, "all", or None: no access
    page,      \* "live", or the call whose page is open
    poll,      \* LIVE's refresh: "waiting", "listing", "reading"
    reads,     \* the detail requests under way, by call or poll slot
    shown,     \* the details on the screen, by call
    failed,    \* the screen's error
    attempts,  \* LIVE's takeover attempts, by call
    posts,     \* the takeovers asked for, by idempotency key
    forgotten, \* history: attempts LIVE has lost sight of since it was opened, and how
    minted,    \* idempotency keys minted so far
    turns

pulse == <<record, ended, commands>>
screen == <<page, poll, reads, shown, failed, attempts, forgotten>>
vars == <<record, ended, commands, session, page, poll, reads, shown, failed,
          attempts, posts, forgotten, minted, turns>>

Key == 1..MaxKeys
Slot == Call \cup PollSlot
Pending == {"accepted"}
Terminal == {"completed", "failed"}
Command(key, device, status, answered) ==
    [key |-> key, device |-> device, status |-> status, answered |-> answered]
(* How a command stands; its result says whether it was answered at once.  *)
Standing == ((Pending \cup Terminal) \X {FALSE}) \cup {<<"completed", TRUE>>}
NoneOf(S) == [s \in S |-> None]

Init ==
    /\ \E s \in Beginning :
          /\ record = s.record /\ commands = s.commands
          /\ page = s.page /\ session = s.session
          /\ minted = s.minted /\ turns = s.turns
    /\ ended = [c \in Call |-> FALSE]
    /\ poll = IF page = "live" THEN "listing" ELSE "waiting"
    /\ reads = NoneOf(Slot) /\ shown = NoneOf(Call) /\ failed = FALSE
    /\ attempts = NoneOf(Call) /\ posts = NoneOf(Key) /\ forgotten = {}

Turn == turns < MaxTurns /\ turns' = turns + 1

-----------------------------------------------------------------------------
(* OfficePulse and the session (external)                                  *)

(* An event becomes visible, possibly before one with a lower number.      *)
Happens(c, n, event) ==
    /\ ~ended[c] /\ record[c][n] = None /\ Turn
    /\ \A m \in 1..(n - 2) : record[c][m] # None
    /\ record' = [record EXCEPT ![c][n] = event]
    /\ UNCHANGED <<ended, commands, session, screen, posts, minted>>

Ends(c) ==
    /\ ~ended[c] /\ Turn
    /\ ended' = [ended EXCEPT ![c] = TRUE]
    /\ UNCHANGED <<record, commands, session, screen, posts, minted>>

Decides(c, i, standing) ==
    /\ i \in DOMAIN commands[c] /\ commands[c][i].status \in Pending
    /\ standing[1] \in Terminal /\ Turn
    /\ commands' = [commands EXCEPT ![c][i].status = standing[1], ![c][i].answered = standing[2]]
    /\ UNCHANGED <<record, ended, session, screen, posts, minted>>

(* A handset of the tenant asked for the call itself.                      *)
HandsetAsks(c, device, standing) ==
    /\ commands[c] = <<>> /\ ~ended[c] /\ Turn
    /\ commands' = [commands EXCEPT ![c] = <<Command(None, device, standing[1], standing[2])>>]
    /\ UNCHANGED <<record, ended, session, screen, posts, minted>>

(* Another tab selects a tenant, or access is revoked or restored.         *)
SessionChanges(t) ==
    /\ t # session /\ Turn
    /\ session' = t
    /\ UNCHANGED <<pulse, screen, posts, minted>>

-----------------------------------------------------------------------------
(* One detail request: getCallSession in the session's scope, then the     *)
(* events and the commands, read side by side.  A request LIVE makes stems *)
(* from a list read in the scope `listed`.                                 *)

Asked(c, scope) == [call |-> c, listed |-> scope, stage |-> "sent", ended |-> FALSE,
                    events |-> None, commands |-> None]

(* Fault: the call is read without the tenant. *)
ResolveUnscoped(c) == IF session = None THEN "refused" ELSE "found"

(* scopeFor: a Super Admin without a tenant reads every tenant's calls.    *)
InScope(c) == session \in {Owner[c], "all"}

(* Fault: a tenant must be selected, as on the administration pages. *)
ResolveSelected(c) ==
    IF session \in {None, "all"} THEN "refused" ELSE IF InScope(c) THEN "found" ELSE "gone"

(* resolveContext, then the call in the session's scope: another tenant's  *)
(* call and a missing one look the same.                                   *)
Resolve(c) ==
    IF session = None THEN "refused" ELSE IF InScope(c) THEN "found" ELSE "gone"

ReadSession(s) ==
    /\ reads[s] # None /\ reads[s].stage = "sent"
    /\ reads' = [reads EXCEPT ![s].stage = Resolve(reads[s].call), ![s].ended = ended[reads[s].call]]
    /\ UNCHANGED <<pulse, session, page, poll, shown, failed, attempts, forgotten, posts, minted, turns>>

ReadEvents(s) ==
    /\ reads[s] # None /\ reads[s].stage = "found" /\ reads[s].events = None
    /\ reads' = [reads EXCEPT ![s].events = record[reads[s].call]]
    /\ UNCHANGED <<pulse, session, page, poll, shown, failed, attempts, forgotten, posts, minted, turns>>

ReadCommands(s) ==
    /\ reads[s] # None /\ reads[s].stage = "found" /\ reads[s].commands = None
    /\ reads' = [reads EXCEPT ![s].commands = commands[reads[s].call]]
    /\ UNCHANGED <<pulse, session, page, poll, shown, failed, attempts, forgotten, posts, minted, turns>>

(* OfficePulse or the network fails the request; every answer but a        *)
(* missing call is an error.                                               *)
ReadFails(s) ==
    /\ reads[s] # None /\ reads[s].stage \in {"sent", "found"} /\ Turn
    /\ reads' = [reads EXCEPT ![s].stage = "refused"]
    /\ UNCHANGED <<pulse, session, page, poll, shown, failed, attempts, forgotten, posts, minted>>

Complete(r) == r.stage = "found" /\ r.events # None /\ r.commands # None
Detail(r, view) == [call |-> r.call, listed |-> r.listed, ended |-> r.ended, events |-> r.events,
                    commands |-> r.commands, view |-> view]

-----------------------------------------------------------------------------
(* LIVE: list, then the details side by side, then show them; 3 seconds    *)
(* after the answer, again.                                                *)

(* Fault: the refreshing stops once calls are shown. *)
RefreshUntilShown ==
    /\ page = "live" /\ poll = "waiting" /\ shown = NoneOf(Call)
    /\ poll' = "listing"
    /\ UNCHANGED <<pulse, session, page, reads, shown, failed, attempts, forgotten, posts, minted, turns>>

StartPoll ==
    /\ page = "live" /\ poll = "waiting"
    /\ poll' = "listing"
    /\ UNCHANGED <<pulse, session, page, reads, shown, failed, attempts, forgotten, posts, minted, turns>>

(* "Refresh now": the running refresh is disposed of and another started.  *)
RefreshNow ==
    /\ page = "live" /\ Turn
    /\ poll' = "listing" /\ reads' = NoneOf(Slot)
    /\ UNCHANGED <<pulse, session, page, shown, failed, attempts, forgotten, posts, minted>>

(* Fault: the list is read without the tenant. *)
ActiveAnywhere(c) == ~ended[c]

Active(c) == InScope(c) /\ ~ended[c]

List ==
    /\ poll = "listing" /\ session # None
    /\ poll' = "reading"
    /\ reads' = [s \in Slot |-> IF s \in Call /\ Active(s) THEN Asked(s, session) ELSE None]
    /\ UNCHANGED <<pulse, session, page, shown, failed, attempts, forgotten, posts, minted, turns>>

(* Fault: the list alone says which calls are on. *)
ListedIsOn(r, view) == TRUE

(* A call that ended between the list and its detail is not shown. *)
StillOn(r, view) == ~r.ended /\ view.phase # "ended"

Rows(view) ==
    [c \in Call |-> IF c \in DOMAIN view /\ StillOn(reads[c], view[c])
                   THEN Detail(reads[c], view[c]) ELSE None]

(* LIVE remembers an attempt that it knows no failure of.                  *)
Taken(c) == attempts[c] # None /\ (attempts[c].submitting \/ attempts[c].submitted)

ShowCalls ==
    /\ poll = "reading"
    /\ \A c \in Call : reads[c] # None => reads[c].stage = "gone" \/ Complete(reads[c])
    /\ LET read == {c \in Call : reads[c] # None /\ reads[c].stage # "gone"}
       IN  \E view \in [read -> UNION {Views(reads[c].events) : c \in read}] :
            /\ \A c \in read : view[c] \in Views(reads[c].events)
            /\ shown' = Rows(view)
    /\ failed' = FALSE
    /\ attempts' = [c \in Call |-> IF shown'[c] = None THEN None ELSE attempts[c]]
    /\ forgotten' = forgotten \cup ({d \in Call : Taken(d) /\ shown'[d] = None} \X {"missing"})
    /\ poll' = "waiting" /\ reads' = NoneOf(Slot)
    /\ UNCHANGED <<pulse, session, page, posts, minted, turns>>

(* The list or any detail failed: no old snapshot is presented as live.    *)
PollFails ==
    /\ \/ poll = "listing" /\ session = None /\ UNCHANGED turns
       \/ poll = "listing" /\ session # None /\ Turn
       \/ /\ poll = "reading" /\ UNCHANGED turns
          /\ \E c \in Call : reads[c] # None /\ reads[c].stage = "refused"
    /\ shown' = NoneOf(Call) /\ failed' = TRUE
    /\ poll' = "waiting" /\ reads' = NoneOf(Slot)
    /\ UNCHANGED <<pulse, session, page, attempts, forgotten, posts, minted>>

-----------------------------------------------------------------------------
(* Takeover                                                                *)

(* The command the panel speaks of: the attempt's, or the latest.          *)
CommandShown(c) ==
    LET cmds == shown[c].commands
        own == {i \in DOMAIN cmds : attempts[c] # None /\ cmds[i].key = attempts[c].key}
    IN  IF own # {} THEN cmds[CHOOSE i \in own : TRUE]
        ELSE IF cmds = <<>> THEN None ELSE Last(cmds)

Busy(c) ==
    LET command == CommandShown(c)
        terminal == command # None /\ command.status \in Terminal
    IN  attempts[c] # None /\ (attempts[c].submitting \/ (attempts[c].submitted /\ ~terminal))

(* Fault: an attempt is only in flight until its answer. *)
InFlightUntilAnswered(c) == attempts[c] # None /\ attempts[c].submitting

InFlight(c) == Taken(c)

(* A press mints a key of its own, whatever became of earlier ones.        *)
TakeOver(c) ==
    /\ TakeoverOffered /\ page = "live" /\ shown[c] # None
    /\ ~Busy(c) /\ shown[c].view.phase # "ended" /\ ~shown[c].ended
    /\ ~InFlight(c)
    /\ minted < MaxKeys /\ minted' = minted + 1
    /\ attempts' = [attempts EXCEPT ![c] =
            [key |-> minted', submitting |-> TRUE, submitted |-> FALSE]]
    /\ posts' = [posts EXCEPT ![minted'] = [call |-> c, stage |-> "sent", mounted |-> TRUE]]
    /\ UNCHANGED <<pulse, session, page, poll, reads, shown, failed, forgotten, turns>>

(* The BFF looks the call up in the session's scope ...                    *)
CheckCall(k) ==
    /\ posts[k] # None /\ posts[k].stage = "sent"
    /\ posts' = [posts EXCEPT ![k].stage =
            IF Resolve(posts[k].call) = "found" THEN "checked" ELSE "refused"]
    /\ UNCHANGED <<pulse, session, screen, minted, turns>>

(* ... and OfficePulse takes the command, or refuses it, or takes it and   *)
(* the answer is lost.                                                     *)
Submit(k, outcome) ==
    /\ posts[k] # None /\ posts[k].stage = "checked"
    /\ LET c == posts[k].call IN
       /\ IF outcome = "refused" THEN UNCHANGED commands
          ELSE /\ ~ended[c]
               /\ commands' = [commands EXCEPT ![c] = Append(@, Command(k, None, "accepted", FALSE))]
       /\ forgotten' = forgotten \cup
            (IF outcome = "lost" /\ posts[k].mounted THEN {<<c, "lost">>} ELSE {})
    /\ posts' = [posts EXCEPT ![k].stage = IF outcome = "accepted" THEN "accepted" ELSE "refused"]
    /\ IF outcome = "lost" THEN Turn ELSE UNCHANGED turns
    /\ UNCHANGED <<record, ended, session, page, poll, reads, shown, failed, attempts, minted>>

(* The answer says how the attempt of its own key stands, whichever        *)
(* attempt of the call LIVE remembers by then.                             *)
TakeoverAnswered(k) ==
    /\ posts[k] # None /\ posts[k].stage \in {"accepted", "refused"}
    /\ IF posts[k].mounted
       THEN /\ attempts' = [attempts EXCEPT ![posts[k].call] =
                  [key |-> k, submitting |-> FALSE, submitted |-> posts[k].stage = "accepted"]]
            /\ posts' = [posts EXCEPT ![k].stage = "answered"]
       ELSE posts' = [posts EXCEPT ![k] = None] /\ UNCHANGED attempts
    /\ UNCHANGED <<pulse, session, page, poll, reads, shown, failed, forgotten, minted, turns>>

-----------------------------------------------------------------------------
(* The page of a call: a request every 3 seconds, answered or not          *)

PollDetail(s) ==
    /\ page \in Call /\ reads[s] = None
    /\ reads' = [reads EXCEPT ![s] = Asked(page, None)]
    /\ UNCHANGED <<pulse, session, page, poll, shown, failed, attempts, forgotten, posts, minted, turns>>

Replace(s, view) ==
    shown' = [shown EXCEPT ![page] = Detail(reads[s], view)] /\ failed' = FALSE

(* Answers are shown in the order they come in. *)
ShowDetail(s) ==
    /\ page \in Call /\ reads[s] # None
    /\ \/ /\ Complete(reads[s])
          /\ \E view \in Views(reads[s].events) : Replace(s, view)
       \/ /\ reads[s].stage \in {"refused", "gone"}
          /\ failed' = TRUE /\ UNCHANGED shown
    /\ reads' = [reads EXCEPT ![s] = None]
    /\ UNCHANGED <<pulse, session, page, poll, attempts, forgotten, posts, minted, turns>>

(* Fault: the requests of the screen left are answered on the next one. *)
ReadsKept == reads

Dropped == NoneOf(Slot)

(* A screen is left for another; its requests answer to nobody.            *)
Navigate(p) ==
    /\ p # page /\ Turn
    /\ page' = p
    /\ poll' = IF p = "live" THEN "listing" ELSE "waiting"
    /\ reads' = Dropped /\ shown' = NoneOf(Call) /\ failed' = FALSE
    /\ attempts' = NoneOf(Call)
    /\ posts' = [k \in Key |-> IF posts[k] = None \/ posts[k].stage = "answered" THEN None
                               ELSE [posts[k] EXCEPT !.mounted = FALSE]]
    /\ forgotten' = {}
    /\ UNCHANGED <<pulse, session, minted>>

-----------------------------------------------------------------------------
Pulse ==
    \E c \in Call :
        \/ \E n \in 1..MaxEvents, event \in Happening[c] : Happens(c, n, event)
        \/ Ends(c)
        \/ \E i \in DOMAIN commands[c], standing \in Standing : Decides(c, i, standing)
        \/ \E device \in Device, standing \in Standing : HandsetAsks(c, device, standing)
Server ==
    \/ \E s \in Slot : ReadSession(s) \/ ReadEvents(s) \/ ReadCommands(s)
    \/ List
    \/ \E k \in Key : \/ CheckCall(k)
                      \/ \E outcome \in {"accepted", "refused", "lost"} : Submit(k, outcome)
Screen ==
    \/ StartPoll \/ ShowCalls \/ PollFails
    \/ \E s \in PollSlot : PollDetail(s) \/ ShowDetail(s)
    \/ \E k \in Key : TakeoverAnswered(k)
User ==
    \/ RefreshNow
    \/ \E c \in Call : TakeOver(c)
    \/ \E p \in Call \cup {"live"} : Navigate(p)

Next == Pulse \/ Server \/ Screen \/ User
        \/ (\E s \in Slot : ReadFails(s)) \/ (\E t \in Scope : SessionChanges(t))

(* Timers fire and requests are answered, for the BFF and its reads of     *)
(* OfficePulse are bounded by timeouts.  Nothing is assumed of a single    *)
(* poll: it may stay unanswered while others go on.                        *)
Refreshing ==
    \/ StartPoll \/ List \/ ShowCalls
    \/ poll = "listing" /\ session = None /\ PollFails
    \/ poll = "reading" /\ PollFails
Polling ==
    \/ Refreshing
    \/ \E s \in Slot : ReadSession(s) \/ ReadEvents(s) \/ ReadCommands(s)
    \/ \E s \in PollSlot : PollDetail(s) \/ ShowDetail(s)

Spec == Init /\ [][Next]_vars
FairSpec == Spec /\ WF_vars(Polling)

-----------------------------------------------------------------------------
(* Properties                                                              *)

(* Every variable keeps its shape; LIVE and the page of a call only use    *)
(* their own requests.                                                     *)
TypeOK ==
    /\ record \in [Call -> Record]
    /\ ended \in [Call -> BOOLEAN] /\ failed \in BOOLEAN
    /\ session \in Scope
    /\ page \in Call \cup {"live"} /\ poll \in {"waiting", "listing", "reading"}
    /\ \A c \in Call : \A i \in DOMAIN commands[c] :
          /\ commands[c][i].key \in Key \cup {None}
          /\ <<commands[c][i].status, commands[c][i].answered>> \in Standing
    /\ \A s \in Slot : reads[s] # None =>
          /\ reads[s].stage \in {"sent", "found", "gone", "refused"}
          /\ s \in PollSlot => page = reads[s].call
          /\ s \in Call => page = "live" /\ poll = "reading" /\ reads[s].call = s
    /\ \A c \in Call : /\ shown[c] # None => shown[c].call = c /\ page \in {"live", c}
                       /\ attempts[c] # None => page = "live" /\ attempts[c].key \in 1..minted
    /\ \A k \in Key : posts[k] # None =>
          /\ k <= minted /\ posts[k].call \in Call
          /\ posts[k].stage \in {"sent", "checked", "accepted", "refused", "answered"}
          /\ posts[k].mounted => page = "live"
    /\ forgotten \subseteq Call \X {"missing", "lost"}

(* The phase, the people on the call, the last failure, the timeline and   *)
(* the gap notice follow from the events alone, whatever order and however *)
(* often they arrived (reduceEvent).                                       *)
ViewIsTheRecord ==
    \A c \in Call : shown[c] # None => shown[c].view = ViewOf(shown[c].events)

(* LIVE shows calls of two tenants beside each other only from a list that *)
(* a Super Admin without a selected tenant was given, although the session *)
(* can change between the reads of one refresh (scopeFor).                 *)
OneTenantShown ==
    page = "live" => \A c, d \in Call : shown[c] # None /\ shown[d] # None =>
        Owner[c] = Owner[d] \/ shown[c].listed = "all"

(* The events that say that a call goes on.                                *)
Resuming == {"bootstrapped", "screening-started", "aida-connected", "fallback", "ringing",
             "takeover-requested", "answered", "bridged", "aida-lost", "takeover-failed"}

(* LIVE shows no call as live whose own record says it is over: only an    *)
(* event that resumes it does, not one that reports a hangup again, a late *)
(* drain or something unknown.                                             *)
LiveIsOn ==
    page = "live" => \A c \in Call : shown[c] # None =>
        /\ ~shown[c].ended
        /\ \A n \in Recorded(shown[c].events) :
              shown[c].events[n].type \in {"hangup", "livekit.room_finished"} =>
                  \E m \in Recorded(shown[c].events) :
                      m > n /\ shown[c].events[m].type \in Resuming

(* LIVE is about the present of the tenant selected.                       *)
LiveIsCurrent == TypeOK /\ OneTenantShown /\ LiveIsOn

(* OfficePulse's undecided commands for a call, of the takeovers pressed   *)
(* since LIVE was opened: in flight, answered or not.                      *)
Undecided(c) ==
    {i \in DOMAIN commands[c] :
        /\ commands[c][i].status \in Pending /\ commands[c][i].key # None
        /\ posts[commands[c][i].key] # None /\ posts[commands[c][i].key].mounted}

(* While LIVE is open a call has at most one undecided takeover from it,   *)
(* over refreshes that fail or are started anew and older commands the     *)
(* panel speaks of, unless LIVE lost sight of an attempt: its answer was   *)
(* lost, or a refresh did not show the call.                               *)
OneTakeover ==
    \A c \in Call : <<c, "lost">> \notin forgotten /\ <<c, "missing">> \notin forgotten =>
        Cardinality(Undecided(c)) <= 1

(* Not so when the call is missing from one refresh: takeover()'s "attempt *)
(* in flight never submits a second command" does not outlast it.          *)
OneTakeoverUnlessLost ==
    \A c \in Call : <<c, "lost">> \notin forgotten => Cardinality(Undecided(c)) <= 1

(* The handset a call page names was asked for, and either the call's last *)
(* bridge came after its request with nothing failing and nobody else      *)
(* asking in between, or its command was answered at once.                 *)
Bridged(events, device) ==
    \E i, j \in Recorded(events) :
        /\ i < j /\ events[i] = [type |-> "takeover-requested", payload |-> device]
        /\ events[j].type = "bridged"
        /\ \A k \in Recorded(events) :
              /\ i < k /\ k < j => events[k].type \notin
                     {"takeover-requested", "takeover-failed", "fallback", "hangup"}
              /\ k > j => events[k].type # "bridged"
TakeoverIsReal ==
    \A c \in Call : shown[c] # None =>
        LET device == TakenOverBy(shown[c].commands, shown[c].events)
        IN  device # None => \E i \in DOMAIN shown[c].commands :
                /\ shown[c].commands[i].device = device
                /\ \/ shown[c].commands[i].status = "completed" /\ shown[c].commands[i].answered
                   \/ Bridged(shown[c].events, device)

(* What is said of a call follows from what OfficePulse recorded of it.    *)
ViewsAreTrue == ViewIsTheRecord /\ TakeoverIsReal

(* What the screens settle on: OfficePulse, the session and the user are   *)
(* bounded by MaxTurns, so from some point on only the polling goes on.    *)
Visible(c) == shown[c] # None /\ (page = c => ~failed)

(* A call that ended leaves LIVE for good, whatever failed on the way.     *)
EndedLeavesLive == <>[](page = "live" => \A c \in Call : ended[c] => shown[c] = None)

(* Whoever lost access, or changed tenants in another tab, is in the end   *)
(* shown no call outside the session's scope, on either screen.            *)
OnlyOwnCallsRemain ==
    <>[](\A c \in Call : page \in {"live", c} /\ Visible(c) => InScope(c))

(* Calls that ended, or are another tenant's, do not stay on screen.       *)
ScreensLetGo == EndedLeavesLive /\ OnlyOwnCallsRemain

(* The page of a call comes to show the call as it is and stays so, though *)
(* its polls overlap and an older answer may come in last.                 *)
DetailConverges ==
    <>[](page \in Call /\ InScope(page) =>
            /\ Visible(page)
            /\ shown[page].events = record[page] /\ shown[page].commands = commands[page])
=============================================================================
