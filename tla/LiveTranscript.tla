--------------------------- MODULE LiveTranscript ---------------------------
(***************************************************************************)
(* The live transcript of a call: web/src/components/LiveTranscript.tsx.   *)
(*                                                                         *)
(* Its effect owns a chain of asynchronous attempts.  An attempt asks the  *)
(* BFF for credentials, joins the LiveKit room, loads the history from the *)
(* agent by RPC and then shows the agent's text streams.  Errors, a lost   *)
(* connection and the minute-by-minute renewal of the authorization all    *)
(* replace the attempt by a later one while its own awaits, streams and    *)
(* RPCs are still under way.                                               *)
(*                                                                         *)
(* Attempts are slots, reused when nothing of an attempt is left.  The     *)
(* code's `generation` is modelled by gen, the attempt whose number it     *)
(* still is, and `disposed` by gen = None and room = None: every check of  *)
(* the code compares with one of the two.  Likewise a history load carries *)
(* whether its `revision` is still the connection's `hydration`.           *)
(*                                                                         *)
(* External: the BFF, LiveKit, and the agent, which revises segments and   *)
(* streams each revision to everyone in the room.                          *)
(***************************************************************************)
EXTENDS Transcript, FiniteSets

CONSTANTS
    Attempt,    \* slots for connection attempts
    None,
    MaxLoads    \* bound on history loads under way in one attempt

ASSUME NoneIsNoAttempt == None \notin Attempt

VARIABLES
    enabled,    \* the user is observing
    ended,      \* the call has ended
    status,     \* "off", "busy", "caughtup" or "denied"
    rows,       \* the rows on screen
    gen,        \* the attempt that is not superseded
    room,       \* the attempt whose connection is `room`
    timer,      \* "none", "connect" (a retry) or "renew"
    phase,      \* each attempt's await: free, observing, connecting, up, reconnecting
    hydrating,  \* each attempt's `hydrating`
    buffered,   \* each attempt's `buffered`
    loads,      \* each attempt's history loads under way
    wire,       \* text streams on their way to each attempt
    agent       \* the agent's latest revision of each segment (0: none)

effectVars == <<enabled, ended>>
roomVars == <<phase, hydrating, buffered, loads, wire>>
vars == <<enabled, ended, status, rows, gen, room, timer, roomVars, agent>>

Snapshot == [Segment -> 0..MaxRevision]
Load == [current: BOOLEAN, asked: {TRUE}, snapshot: {NoRows}]
          \cup [current: BOOLEAN, asked: {FALSE}, snapshot: [Segment -> Row]]
Stream == [key: Segment, rev: Revision, begun: BOOLEAN]

TypeOK ==
    /\ enabled \in BOOLEAN /\ ended \in BOOLEAN
    /\ status \in {"off", "busy", "caughtup", "denied"}
    /\ rows \in [Segment -> Row]
    /\ gen \in Attempt \cup {None} /\ room \in Attempt \cup {None}
    /\ timer \in {"none", "connect", "renew"}
    /\ phase \in [Attempt -> {"free", "observing", "connecting", "up", "reconnecting"}]
    /\ hydrating \in [Attempt -> BOOLEAN]
    /\ buffered \in [Attempt -> [Segment -> Row]]
    /\ \A a \in Attempt : loads[a] \subseteq Load /\ wire[a] \subseteq Stream
    /\ agent \in Snapshot

Init ==
    /\ enabled = FALSE /\ ended = FALSE /\ status = "off"
    /\ rows = NoRows
    /\ gen = None /\ room = None /\ timer = "none"
    /\ phase = [a \in Attempt |-> "free"]
    /\ hydrating = [a \in Attempt |-> FALSE]
    /\ buffered = [a \in Attempt |-> NoRows]
    /\ loads = [a \in Attempt |-> {}]
    /\ wire = [a \in Attempt |-> {}]
    /\ agent = [k \in Segment |-> 0]

-----------------------------------------------------------------------------
Running == enabled /\ ~ended
Connected(a) == phase[a] \in {"up", "reconnecting"}
Unused(a) == phase[a] = "free" /\ loads[a] = {} /\ wire[a] = {}

(* The attempt's function returns, its connection (if any) closed. *)
Returns(a) == phase' = [phase EXCEPT ![a] = "free"]

(* releaseRoom: disconnect the room.  A join under way is only told so. *)
ReleaseRoom ==
    /\ room' = None
    /\ phase' = [a \in Attempt |->
                   IF a = room /\ Connected(a) THEN "free" ELSE phase[a]]

(* retry(delay): supersede the attempt and schedule the next one. *)
Retry ==
    /\ gen' = None
    /\ timer' = "connect"
    /\ status' = "busy"
    /\ ReleaseRoom

(* connect(), up to its first await *)
Begin(a) ==
    /\ Unused(a)
    /\ gen' = a
    /\ status' = "busy"
    /\ phase' = [phase EXCEPT ![a] = "observing"]

(* The cleanup of the effect. *)
Dispose ==
    /\ gen' = None
    /\ timer' = "none"
    /\ ReleaseRoom

-----------------------------------------------------------------------------
(* The user and the screen                                                 *)

Observe(a) ==
    /\ ~enabled /\ ~ended
    /\ enabled' = TRUE
    /\ rows' = NoRows
    /\ Begin(a)
    /\ UNCHANGED <<ended, room, timer, hydrating, buffered, loads, wire, agent>>

(* "Stop observing", or leaving the screen. *)
Stop ==
    /\ enabled /\ ~ended
    /\ enabled' = FALSE
    /\ rows' = NoRows
    /\ Dispose
    /\ status' = "off"
    /\ UNCHANGED <<ended, hydrating, buffered, loads, wire, agent>>

(* The call's details now say it has ended; the text stays on screen. *)
CallEnds ==
    /\ ~ended
    /\ ended' = TRUE
    /\ Dispose
    /\ UNCHANGED <<enabled, status, rows, hydrating, buffered, loads, wire, agent>>

-----------------------------------------------------------------------------
(* Timers                                                                  *)

RetryTimerFires(a) ==
    /\ timer = "connect"
    /\ timer' = "none"
    /\ Begin(a)
    /\ UNCHANGED <<effectVars, rows, room, hydrating, buffered, loads, wire, agent>>

RenewTimerFires ==
    /\ timer = "renew"
    /\ Retry
    /\ UNCHANGED <<effectVars, rows, hydrating, buffered, loads, wire, agent>>

-----------------------------------------------------------------------------
(* runtimeApi.observe                                                      *)

(* After an await, a superseded or disposed attempt returns silently. *)
Superseded(a) == gen # a

ObserveStale(a) ==
    /\ phase[a] = "observing"
    /\ Superseded(a)
    /\ Returns(a)
    /\ UNCHANGED <<effectVars, status, rows, gen, room, timer,
                   hydrating, buffered, loads, wire, agent>>

ObserveOk(a) ==
    /\ phase[a] = "observing"
    /\ ~Superseded(a)
    /\ room' = a
    /\ phase' = [phase EXCEPT ![a] = "connecting"]
    /\ hydrating' = [hydrating EXCEPT ![a] = TRUE]
    /\ buffered' = [buffered EXCEPT ![a] = NoRows]
    /\ UNCHANGED <<effectVars, status, rows, gen, timer, loads, wire, agent>>

(* 401, 403, 404 or call_ended: clear the text and stay disconnected. *)
ObserveDenied(a) ==
    /\ phase[a] = "observing"
    /\ ~Superseded(a)
    /\ Returns(a)
    /\ rows' = NoRows
    /\ status' = "denied"
    /\ gen' = None
    /\ room' = None
    /\ timer' = "none"
    /\ UNCHANGED <<effectVars, hydrating, buffered, loads, wire, agent>>

(* Fault: a failed attempt retries without asking whether it is superseded. *)
AttemptFailsUnchecked(a) ==
    /\ phase[a] \in {"observing", "connecting"}
    /\ Returns(a)
    /\ gen' = None /\ room' = None /\ timer' = "connect" /\ status' = "busy"
    /\ UNCHANGED <<effectVars, rows, hydrating, buffered, loads, wire, agent>>

(* Any other failure, before or while joining, is retried. *)
AttemptFails(a) ==
    /\ phase[a] \in {"observing", "connecting"}
    /\ Returns(a)
    /\ IF Superseded(a)
       THEN UNCHANGED <<gen, room, timer, status>>
       ELSE gen' = None /\ room' = None /\ timer' = "connect" /\ status' = "busy"
    /\ UNCHANGED <<effectVars, rows, hydrating, buffered, loads, wire, agent>>

-----------------------------------------------------------------------------
(* connection.connect and hydrate                                          *)

(* Fault: a join that completes too late is not disconnected. *)
JoinStaleLeaks(a) ==
    /\ phase[a] = "connecting"
    /\ room # a
    /\ phase' = [phase EXCEPT ![a] = "up"]
    /\ UNCHANGED <<effectVars, status, rows, gen, room, timer,
                   hydrating, buffered, loads, wire, agent>>

(* A join that completes after its room was replaced is disconnected. *)
JoinStale(a) ==
    /\ phase[a] = "connecting"
    /\ room # a
    /\ Returns(a)
    /\ UNCHANGED <<effectVars, status, rows, gen, room, timer,
                   hydrating, buffered, loads, wire, agent>>

Outdated(ls) == {[l EXCEPT !.current = FALSE] : l \in ls}
NewLoad == [current |-> TRUE, asked |-> TRUE, snapshot |-> NoRows]

(* hydrate(), up to its RPC *)
Hydrate(a) ==
    /\ Cardinality(loads[a]) < MaxLoads
    /\ hydrating' = [hydrating EXCEPT ![a] = TRUE]
    /\ buffered' = [buffered EXCEPT ![a] = NoRows]
    /\ loads' = [loads EXCEPT ![a] = Outdated(@) \cup {NewLoad}]
    /\ status' = "busy"

JoinOk(a) ==
    /\ phase[a] = "connecting"
    /\ room = a
    /\ phase' = [phase EXCEPT ![a] = "up"]
    /\ timer' = "renew"
    /\ Hydrate(a)
    /\ UNCHANGED <<effectVars, rows, gen, room, wire, agent>>

(* The agent is not in the room: hydrate throws and connect() retries. *)
JoinWithoutAgent(a) ==
    /\ phase[a] = "connecting"
    /\ room = a
    /\ gen' = None /\ room' = None /\ timer' = "connect" /\ status' = "busy"
    /\ Returns(a)
    /\ UNCHANGED <<effectVars, rows, hydrating, buffered, loads, wire, agent>>

(* Fault: the pages of a load are cut from different snapshots. *)
FreezeEachPage(a, l) ==
    /\ l.asked
    /\ phase[a] = "up"
    /\ loads' = [loads EXCEPT ![a] = (@ \ {l}) \cup
         {[l EXCEPT !.snapshot = [k \in Segment |->
                                    [rev |-> agent[k], full |-> agent[k] > 0]]]}]
    /\ UNCHANGED <<effectVars, status, rows, gen, room, timer,
                   phase, hydrating, buffered, wire, agent>>

(* The agent freezes the snapshot the pages of this load are cut from. *)
Freeze(a, l) ==
    /\ l.asked
    /\ phase[a] = "up"
    /\ loads' = [loads EXCEPT ![a] = (@ \ {l}) \cup
         {[l EXCEPT !.asked = FALSE,
                    !.snapshot = [k \in Segment |->
                                    [rev |-> agent[k], full |-> agent[k] > 0]]]}]
    /\ UNCHANGED <<effectVars, status, rows, gen, room, timer,
                   phase, hydrating, buffered, wire, agent>>

(* valid(): the connection is current and no later hydration has begun. *)
Valid(a, l) == room = a /\ l.current

LoadDone(a, l) == loads' = [loads EXCEPT ![a] = @ \ {l}]

LoadReturns(a, l) ==
    /\ ~l.asked
    /\ LoadDone(a, l)
    /\ IF Valid(a, l)
       THEN /\ rows' = MergeAll(l.snapshot, buffered[a])
            /\ buffered' = [buffered EXCEPT ![a] = NoRows]
            /\ hydrating' = [hydrating EXCEPT ![a] = FALSE]
            /\ status' = "caughtup"
       ELSE UNCHANGED <<rows, buffered, hydrating, status>>
    /\ UNCHANGED <<effectVars, gen, room, timer, phase, wire, agent>>

(* The RPC fails, times out or returns a page that does not fit. *)
LoadFails(a, l) ==
    /\ LoadDone(a, l)
    /\ IF Valid(a, l) THEN Retry ELSE UNCHANGED <<gen, timer, status, room, phase>>
    /\ UNCHANGED <<effectVars, rows, hydrating, buffered, wire, agent>>

-----------------------------------------------------------------------------
(* Room events                                                             *)

(* Fault: the loads under way stay valid when the connection is lost. *)
ReconnectingKeepsLoads(a) ==
    /\ phase[a] = "up"
    /\ room = a
    /\ phase' = [phase EXCEPT ![a] = "reconnecting"]
    /\ hydrating' = [hydrating EXCEPT ![a] = TRUE]
    /\ \E kept \in SUBSET wire[a] : wire' = [wire EXCEPT ![a] = kept]
    /\ status' = "busy"
    /\ UNCHANGED <<effectVars, rows, gen, room, timer, buffered, loads, agent>>

(* LiveKit lost the connection and tries to resume; streams may be lost. *)
Reconnecting(a) ==
    /\ phase[a] = "up"
    /\ room = a
    /\ phase' = [phase EXCEPT ![a] = "reconnecting"]
    /\ hydrating' = [hydrating EXCEPT ![a] = TRUE]
    /\ loads' = [loads EXCEPT ![a] = Outdated(@)]
    /\ \E kept \in SUBSET wire[a] : wire' = [wire EXCEPT ![a] = kept]
    /\ status' = "busy"
    /\ UNCHANGED <<effectVars, rows, gen, room, timer, buffered, agent>>

Reconnected(a) ==
    /\ phase[a] = "reconnecting"
    /\ room = a
    /\ phase' = [phase EXCEPT ![a] = "up"]
    /\ Hydrate(a)
    /\ UNCHANGED <<effectVars, rows, gen, room, timer, wire, agent>>

(* Fault: a lost connection is released and not replaced. *)
DisconnectedForGood(a) ==
    /\ phase[a] \in {"connecting", "up", "reconnecting"}
    /\ room = a
    /\ gen' = None /\ timer' = "none" /\ status' = "busy"
    /\ ReleaseRoom
    /\ UNCHANGED <<effectVars, rows, hydrating, buffered, loads, wire, agent>>

(* The connection is lost for good, or resumes without the agent. *)
Disconnected(a) ==
    /\ phase[a] \in {"connecting", "up", "reconnecting"}
    /\ room = a
    /\ Retry
    /\ UNCHANGED <<effectVars, rows, hydrating, buffered, loads, wire, agent>>

-----------------------------------------------------------------------------
(* Text streams                                                            *)

(* The agent revises a segment.  A join may already receive streams before *)
(* connect() returns; a connection that is being resumed misses them.      *)
Revise(k) ==
    /\ agent[k] < MaxRevision
    /\ agent' = [agent EXCEPT ![k] = @ + 1]
    /\ \E joined \in SUBSET {a \in Attempt : phase[a] = "connecting"} :
         wire' = [a \in Attempt |->
           IF phase[a] = "up" \/ a \in joined
           THEN wire[a] \cup {[key |-> k, rev |-> agent[k] + 1, begun |-> FALSE]}
           ELSE wire[a]]
    /\ UNCHANGED <<effectVars, status, rows, gen, room, timer,
                   phase, hydrating, buffered, loads>>

(* Fault: the stream handler does not ask whether its room is current. *)
UpdateUnchecked(a, k, row) ==
    IF hydrating[a]
    THEN /\ buffered' = [buffered EXCEPT ![a] = MergeRow(@, k, row)]
         /\ UNCHANGED rows
    ELSE rows' = MergeRow(rows, k, row) /\ UNCHANGED buffered

(* update(text, isFinal) of the stream handler *)
Update(a, k, row) ==
    IF room # a THEN UNCHANGED <<rows, buffered>>
    ELSE IF hydrating[a]
    THEN /\ buffered' = [buffered EXCEPT ![a] = MergeRow(@, k, row)]
         /\ UNCHANGED rows
    ELSE rows' = MergeRow(rows, k, row) /\ UNCHANGED buffered

StreamChunk(a, s) ==
    /\ phase[a] # "reconnecting"
    /\ ~s.begun
    /\ wire' = [wire EXCEPT ![a] = (@ \ {s}) \cup {[s EXCEPT !.begun = TRUE]}]
    /\ Update(a, s.key, [rev |-> s.rev, full |-> FALSE])
    /\ UNCHANGED <<effectVars, status, gen, room, timer,
                   phase, hydrating, loads, agent>>

StreamEnds(a, s) ==
    /\ phase[a] # "reconnecting"
    /\ wire' = [wire EXCEPT ![a] = @ \ {s}]
    /\ Update(a, s.key, [rev |-> s.rev, full |-> TRUE])
    /\ UNCHANGED <<effectVars, status, gen, room, timer,
                   phase, hydrating, loads, agent>>

(* The stream breaks off, or is aborted with its room. *)
StreamBreaks(a, s) ==
    /\ wire' = [wire EXCEPT ![a] = @ \ {s}]
    /\ IF room = a THEN Retry ELSE UNCHANGED <<gen, timer, status, room, phase>>
    /\ UNCHANGED <<effectVars, rows, hydrating, buffered, loads, agent>>

-----------------------------------------------------------------------------
Attempts(a) ==
    \/ Observe(a) \/ RetryTimerFires(a)
    \/ ObserveStale(a) \/ ObserveOk(a) \/ ObserveDenied(a) \/ AttemptFails(a)
    \/ JoinStale(a) \/ JoinOk(a) \/ JoinWithoutAgent(a)
    \/ Reconnecting(a) \/ Reconnected(a) \/ Disconnected(a)

Next ==
    \/ Stop \/ CallEnds \/ RenewTimerFires
    \/ \E k \in Segment : Revise(k)
    \/ \E a \in Attempt :
         \/ Attempts(a)
         \/ \E l \in loads[a] : Freeze(a, l) \/ LoadReturns(a, l) \/ LoadFails(a, l)
         \/ \E s \in wire[a] : StreamChunk(a, s) \/ StreamEnds(a, s) \/ StreamBreaks(a, s)

Spec == Init /\ [][Next]_vars

(* The retry timer fires and every await of a superseded attempt returns;  *)
(* asked again and again, the BFF, LiveKit and the agent eventually answer. *)
FairSpec ==
    /\ Spec
    /\ WF_vars(\E a \in Attempt : RetryTimerFires(a))
    /\ SF_vars(\E a \in Attempt : ObserveOk(a))
    /\ SF_vars(\E a \in Attempt : JoinOk(a))
    /\ SF_vars(\E a \in Attempt : Reconnected(a))
    /\ SF_vars(\E a \in Attempt : \E l \in loads[a] : Valid(a, l) /\ Freeze(a, l))
    /\ SF_vars(\E a \in Attempt : \E l \in loads[a] : Valid(a, l) /\ LoadReturns(a, l))
    /\ \A a \in Attempt :
         WF_vars(\/ ObserveStale(a) \/ JoinStale(a)
                 \/ \E l \in loads[a] : ~Valid(a, l) /\ LoadFails(a, l)
                 \/ \E s \in wire[a] : room # a /\ StreamBreaks(a, s))

-----------------------------------------------------------------------------
(* Properties                                                              *)

(* Something always carries an observed call on, and only one thing does:  *)
(* the retry timer, the attempt that is joining, or the connection with    *)
(* its renewal timer.  Nothing does when the user is not observing, the    *)
(* call has ended or access was denied (retry, connect, the cleanup).      *)
Retrying == timer = "connect" /\ gen = None /\ room = None
Joining == /\ gen # None /\ phase[gen] \in {"observing", "connecting"}
           /\ timer = "none"
           /\ room = IF phase[gen] = "connecting" THEN gen ELSE None
Live == room # None /\ Connected(room) /\ gen = room /\ timer = "renew"

OneDriver ==
    IF Running /\ status # "denied"
    THEN Retrying \/ Joining \/ Live
    ELSE gen = None /\ room = None /\ timer = "none"

(* No connection outlives its room: whatever disconnects, supersedes or    *)
(* stops an attempt, at any of its awaits, leaves no participant behind in *)
(* the LiveKit room (releaseRoom and the check after connection.connect).  *)
NoLeakedRoom == \A a \in Attempt : Connected(a) => room = a

(* An observed call has one connection, and no other lives on unseen.      *)
OneConnection == TypeOK /\ OneDriver /\ NoLeakedRoom

(* "Connected - history caught up" is true: each segment is on screen as   *)
(* the agent last revised it, or its stream is on its way.  Nothing falls  *)
(* between the snapshot and the buffered streams, whatever reconnects      *)
(* while the history loads (hydrate, RoomEvent.Reconnecting).              *)
OnScreen(k) == rows[k] = [rev |-> agent[k], full |-> agent[k] > 0]
OnItsWay(k) == \E s \in wire[room] : s.key = k /\ s.rev = agent[k]
CaughtUpIsComplete ==
    Running /\ status = "caughtup" => \A k \in Segment : OnScreen(k) \/ OnItsWay(k)

(* Text on screen never goes back to an older revision, and a final never  *)
(* becomes partial; the whole transcript may be cleared (mergeTranscript;  *)
(* docs/LIVE_TRANSCRIPT_TESTING.md: "without regressing finals").          *)
Regresses(k) == rows'[k].rev < rows[k].rev \/ (IsFinal(rows[k]) /\ ~IsFinal(rows'[k]))
NeverRegresses == [][rows' = NoRows \/ \A k \in Segment : ~Regresses(k)]_vars

(* Once access is denied or the user stops, the text is gone and no late   *)
(* stream or history of an older attempt brings it back.                   *)
ClearedStaysCleared == status \in {"off", "denied"} => rows = NoRows

(* The text on screen is neither behind its notice nor there without the   *)
(* right to it.                                                            *)
TextIsTrue == CaughtUpIsComplete /\ ClearedStaysCleared

(* An observed call is caught up with, unless access is denied, the call   *)
(* ends or the user stops: no failure leaves the screen connecting for     *)
(* ever.                                                                   *)
CatchesUp == Running ~> (status \in {"caughtup", "denied"} \/ ~Running)
=============================================================================
