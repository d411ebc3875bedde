------------------------ MODULE LiveTranscriptProofs ------------------------
(***************************************************************************)
(* The safety of the live transcript, for any number of attempts, loads,   *)
(* segments and revisions.                                                 *)
(***************************************************************************)
EXTENDS LiveTranscript, TLAPS

FunctionTypes ==
    /\ loads \in [Attempt -> SUBSET Load]
    /\ wire \in [Attempt -> SUBSET Stream]

(* What the notice says of the screen and of the connection. *)
CaughtUp == Running /\ status = "caughtup"
StatusInv ==
    /\ status = "off" => ~enabled
    /\ CaughtUp => room # None /\ phase[room] = "up" /\ ~hydrating[room]

(* A load belongs to an attempt that has joined, and none is current while *)
(* the connection is being resumed.                                        *)
SlotInv ==
    \A a \in Attempt :
       /\ phase[a] \in {"observing", "connecting"} => loads[a] = {}
       /\ phase[a] = "reconnecting" => \A l \in loads[a] : ~l.current

(* At most one load of an attempt is current. *)
OneCurrent ==
    \A a \in Attempt : \A l, m \in loads[a] : l.current /\ m.current => l = m

(* Nobody knows a revision the agent has not made. *)
KnownInv ==
    \A k \in Segment :
       /\ rows[k].rev <= agent[k]
       /\ \A a \in Attempt :
            /\ buffered[a][k].rev <= agent[k]
            /\ \A s \in wire[a] : s.key = k => s.rev <= agent[k]
            /\ \A l \in loads[a] : l.snapshot[k].rev <= agent[k]

(* What is merged of the segment is the agent's latest text, or the rest   *)
(* of it is on its way.                                                    *)
Latest(n) == [rev |-> n, full |-> n > 0]
Complete(row, k) == row = Latest(agent[k]) \/ OnItsWay(k)

(* A buffered part of the latest revision has its stream under way. *)
BufferInv ==
    room # None /\ phase[room] = "up" /\ hydrating[room] =>
       \A k \in Segment :
          buffered[room][k].rev = agent[k] /\ agent[k] > 0 /\ ~buffered[room][k].full
             => OnItsWay(k)

(* The history a valid load brings is not older than the screen, which     *)
(* rests meanwhile, and with the buffer it is complete.                    *)
Covers(l) ==
    \A k \in Segment :
       /\ l.snapshot[k].full = (l.snapshot[k].rev > 0)
       /\ rows[k].rev <= l.snapshot[k].rev
       /\ Complete(MergeAll(l.snapshot, buffered[room])[k], k)

LoadInv ==
    room # None =>
       \A l \in loads[room] :
          l.current => hydrating[room] /\ (~l.asked => Covers(l))

IInv ==
    /\ TypeOK
    /\ FunctionTypes
    /\ OneDriver
    /\ NoLeakedRoom
    /\ StatusInv
    /\ SlotInv
    /\ OneCurrent
    /\ KnownInv
    /\ BufferInv
    /\ LoadInv
    /\ CaughtUpIsComplete
    /\ ClearedStaysCleared
-----------------------------------------------------------------------------
(* Merging a row returns one of the two rows, never the older, and keeps a *)
(* final one.                                                              *)
LEMMA NewestIsNewer ==
  ASSUME NEW old \in Row, NEW row \in Row
  PROVE  /\ Newest(old, row) \in {old, row}
         /\ Newest(old, row) \in Row
         /\ old.rev <= Newest(old, row).rev
         /\ row.rev <= Newest(old, row).rev
         /\ IsFinal(old) => IsFinal(Newest(old, row))
BY RevisionsExist DEF Row, Newest, IsFinal

LEMMA RowFields ==
  /\ NoRow \in Row /\ NoRows \in [Segment -> Row]
  /\ \A row \in Row : row.rev \in 0..MaxRevision /\ row.full \in BOOLEAN
  /\ \A r \in Revision, b \in BOOLEAN : [rev |-> r, full |-> b] \in Row
  /\ \A r \in 0..MaxRevision : [rev |-> r, full |-> r > 0] \in Row
<1> USE RevisionsExist
<1>1. NoRow \in Row
  BY DEF Row, NoRow
<1>2. ASSUME NEW row \in Row PROVE row.rev \in 0..MaxRevision /\ row.full \in BOOLEAN
  BY DEF Row
<1>3. ASSUME NEW r \in 0..MaxRevision, NEW b \in BOOLEAN, b => r > 0
      PROVE  [rev |-> r, full |-> b] \in Row
  BY <1>3 DEF Row
<1>4. ASSUME NEW r \in 0..MaxRevision PROVE [rev |-> r, full |-> r > 0] \in Row
  <2> DEFINE b == r > 0
  <2>1. b \in BOOLEAN /\ (b => r > 0)
    OBVIOUS
  <2> HIDE DEF b
  <2>2. [rev |-> r, full |-> b] \in Row
    BY <1>3, <2>1
  <2> QED BY <2>2 DEF b
<1>5. \A r \in Revision : r \in 0..MaxRevision /\ r > 0
  BY DEF Revision
<1>6. NoRows \in [Segment -> Row]
  BY <1>1 DEF NoRows
<1> QED BY <1>1, <1>2, <1>3, <1>4, <1>5, <1>6

LEMMA MergeTypes ==
  ASSUME NEW shown \in [Segment -> Row], NEW kept \in [Segment -> Row]
  PROVE  /\ \A k \in Segment, row \in Row : MergeRow(shown, k, row) \in [Segment -> Row]
         /\ MergeAll(shown, kept) \in [Segment -> Row]
BY NewestIsNewer DEF MergeRow, MergeAll

LEMMA LoadTypes ==
  /\ NewLoad \in Load
  /\ \A ls \in SUBSET Load : Outdated(ls) \in SUBSET Load
  /\ Load \subseteq [current: BOOLEAN, asked: BOOLEAN, snapshot: [Segment -> Row]]
<1>1. NewLoad \in Load
  BY DEF NewLoad, Load
<1>2. ASSUME NEW l \in Load PROVE [l EXCEPT !.current = FALSE] \in Load
  BY DEF Load
<1>3. ASSUME NEW ls \in SUBSET Load PROVE Outdated(ls) \in SUBSET Load
  BY <1>2 DEF Outdated
<1>4. Load \subseteq [current: BOOLEAN, asked: BOOLEAN, snapshot: [Segment -> Row]]
  BY RowFields DEF Load
<1> QED BY <1>1, <1>3, <1>4

(* Every variable keeps its type in every step. *)
LEMMA TypeInductive ==
  TypeOK /\ FunctionTypes /\ [Next]_vars => TypeOK' /\ FunctionTypes'
<1> SUFFICES ASSUME TypeOK, FunctionTypes, [Next]_vars PROVE TypeOK' /\ FunctionTypes'
  OBVIOUS
<1> USE RowFields, RevisionsExist DEF TypeOK, FunctionTypes, effectVars
<1>1. CASE Stop \/ CallEnds \/ RenewTimerFires
  BY <1>1 DEF Stop, CallEnds, RenewTimerFires, Retry, Dispose, ReleaseRoom
<1>2. ASSUME NEW k \in Segment, Revise(k) PROVE TypeOK' /\ FunctionTypes'
  <2>1. agent' \in Snapshot /\ agent[k] + 1 \in Revision
    BY <1>2 DEF Revise, Snapshot, Revision
  <2>2. [key |-> k, rev |-> agent[k] + 1, begun |-> FALSE] \in Stream
    BY <2>1 DEF Stream
  <2>3. wire' \in [Attempt -> SUBSET Stream]
    <3>1. PICK joined \in SUBSET Attempt :
            wire' = [x \in Attempt |->
              IF phase[x] = "up" \/ x \in joined
              THEN wire[x] \cup {[key |-> k, rev |-> agent[k] + 1, begun |-> FALSE]}
              ELSE wire[x]]
      BY <1>2 DEF Revise
    <3> QED BY <2>2, <3>1
  <2> QED BY <1>2, <2>1, <2>3 DEF Revise
<1>3. ASSUME NEW a \in Attempt, Attempts(a) PROVE TypeOK' /\ FunctionTypes'
  <2>1. CASE Observe(a) \/ RetryTimerFires(a)
    BY <2>1 DEF Observe, RetryTimerFires, Begin
  <2>2. CASE ObserveStale(a) \/ ObserveOk(a) \/ ObserveDenied(a) \/ AttemptFails(a)
    <3>1. CASE ObserveStale(a) \/ ObserveDenied(a)
      BY <3>1 DEF ObserveStale, ObserveDenied, Returns
    <3>2. CASE ObserveOk(a)
      BY <3>2 DEF ObserveOk
    <3>3. CASE AttemptFails(a)
      BY <3>3 DEF AttemptFails, Returns
    <3> QED BY <2>2, <3>1, <3>2, <3>3
  <2>3. CASE JoinStale(a) \/ JoinWithoutAgent(a) \/ Disconnected(a)
    BY <2>3 DEF JoinStale, JoinWithoutAgent, Disconnected, Returns, Retry, ReleaseRoom
  <2>4. CASE JoinOk(a) \/ Reconnected(a)
    <3>1. loads' = [loads EXCEPT ![a] = Outdated(@) \cup {NewLoad}]
      BY <2>4 DEF JoinOk, Reconnected, Hydrate
    <3>2. loads' \in [Attempt -> SUBSET Load]
      BY <3>1, LoadTypes
    <3>3. /\ phase' = [phase EXCEPT ![a] = "up"] /\ hydrating' = [hydrating EXCEPT ![a] = TRUE]
          /\ buffered' = [buffered EXCEPT ![a] = NoRows] /\ status' = "busy"
          /\ timer' = "renew" \/ UNCHANGED timer
          /\ UNCHANGED <<effectVars, rows, gen, room, wire, agent>>
      BY <2>4 DEF JoinOk, Reconnected, Hydrate
    <3> QED BY <3>2, <3>3
  <2>5. CASE Reconnecting(a)
    <3>1. loads' \in [Attempt -> SUBSET Load]
      BY <2>5, LoadTypes DEF Reconnecting
    <3>2. wire' \in [Attempt -> SUBSET Stream]
      BY <2>5 DEF Reconnecting
    <3> QED BY <2>5, <3>1, <3>2 DEF Reconnecting
  <2> QED BY <1>3, <2>1, <2>2, <2>3, <2>4, <2>5 DEF Attempts
<1>4. ASSUME NEW a \in Attempt, NEW l \in loads[a], Freeze(a, l) PROVE TypeOK' /\ FunctionTypes'
  <2> DEFINE now == [k \in Segment |-> [rev |-> agent[k], full |-> agent[k] > 0]]
             frozen == [l EXCEPT !.asked = FALSE, !.snapshot = now]
  <2>1. now \in [Segment -> Row]
    BY DEF Snapshot
  <2>2. loads' = [loads EXCEPT ![a] = (@ \ {l}) \cup {frozen}]
    BY <1>4 DEF Freeze
  <2> HIDE DEF now
  <2>3. frozen \in Load
    <3>1. l \in [current: BOOLEAN, asked: BOOLEAN, snapshot: [Segment -> Row]]
      BY LoadTypes
    <3>2. frozen \in [current: BOOLEAN, asked: {FALSE}, snapshot: [Segment -> Row]]
      BY <2>1, <3>1
    <3> HIDE DEF frozen
    <3> QED BY <3>2 DEF Load
  <2> HIDE DEF frozen
  <2>4. loads' \in [Attempt -> SUBSET Load]
    BY <2>2, <2>3
  <2> QED BY <1>4, <2>4 DEF Freeze
<1>5. ASSUME NEW a \in Attempt, NEW l \in loads[a], LoadReturns(a, l)
      PROVE  TypeOK' /\ FunctionTypes'
  <2>1. loads' \in [Attempt -> SUBSET Load]
    BY <1>5 DEF LoadReturns, LoadDone
  <2>2. MergeAll(l.snapshot, buffered[a]) \in [Segment -> Row]
    <3>1. l.snapshot \in [Segment -> Row]
      BY LoadTypes
    <3> QED BY <3>1, MergeTypes
  <2>3. TypeOK'
    BY <1>5, <2>1, <2>2 DEF LoadReturns
  <2> QED BY <1>5, <2>1, <2>2, <2>3 DEF LoadReturns
<1>6. ASSUME NEW a \in Attempt, NEW l \in loads[a], LoadFails(a, l)
      PROVE  TypeOK' /\ FunctionTypes'
  BY <1>6 DEF LoadFails, LoadDone, Retry, ReleaseRoom
<1>7. ASSUME NEW a \in Attempt, NEW s \in wire[a], StreamChunk(a, s) \/ StreamEnds(a, s)
      PROVE  TypeOK' /\ FunctionTypes'
  <2>1. s \in Stream
    OBVIOUS
  <2>2. wire' \in [Attempt -> SUBSET Stream]
    <3>1. [s EXCEPT !.begun = TRUE] \in Stream
      BY <2>1 DEF Stream
    <3>2. CASE StreamChunk(a, s)
      BY <3>1, <3>2 DEF StreamChunk
    <3>3. CASE StreamEnds(a, s)
      BY <3>3 DEF StreamEnds
    <3> QED BY <1>7, <3>2, <3>3
  <2>3. ASSUME NEW b \in BOOLEAN, Update(a, s.key, [rev |-> s.rev, full |-> b])
        PROVE  rows' \in [Segment -> Row] /\ buffered' \in [Attempt -> [Segment -> Row]]
    <3>1. s.key \in Segment /\ [rev |-> s.rev, full |-> b] \in Row
      BY <2>1 DEF Stream
    <3>2. /\ MergeRow(rows, s.key, [rev |-> s.rev, full |-> b]) \in [Segment -> Row]
          /\ MergeRow(buffered[a], s.key, [rev |-> s.rev, full |-> b]) \in [Segment -> Row]
      BY <3>1, MergeTypes
    <3> QED BY <2>3, <3>2 DEF Update
  <2> QED BY <1>7, <2>2, <2>3 DEF StreamChunk, StreamEnds
<1>8. ASSUME NEW a \in Attempt, NEW s \in wire[a], StreamBreaks(a, s)
      PROVE  TypeOK' /\ FunctionTypes'
  BY <1>8 DEF StreamBreaks, Retry, ReleaseRoom
<1>9. CASE UNCHANGED vars
  BY <1>9 DEF vars, roomVars
<1> QED BY <1>1, <1>2, <1>3, <1>4, <1>5, <1>6, <1>7, <1>8, <1>9 DEF Next
-----------------------------------------------------------------------------
(* What it means for an attempt to own the room. *)
LEMMA OwnerOfRoom ==
  ASSUME TypeOK, OneDriver, NEW a \in Attempt, room = a
  PROVE  /\ Running /\ status # "denied" /\ gen = a
         /\ phase[a] \in {"connecting", "up", "reconnecting"}
         /\ timer = IF phase[a] = "connecting" THEN "none" ELSE "renew"
BY NoneIsNoAttempt DEF TypeOK, OneDriver, Retrying, Joining, Live, Connected

(* The attempt that is current before it owns the room. *)
LEMMA CurrentAttempt ==
  ASSUME TypeOK, OneDriver, NEW a \in Attempt, gen = a
  PROVE  /\ Running /\ status # "denied"
         /\ phase[a] \in {"observing", "connecting", "up", "reconnecting"}
         /\ room = IF phase[a] = "observing" THEN None ELSE a
         /\ timer = IF phase[a] \in {"observing", "connecting"} THEN "none" ELSE "renew"
BY NoneIsNoAttempt DEF TypeOK, OneDriver, Retrying, Joining, Live, Connected

LEMMA OutdatedIsStale == \A ls : \A l \in Outdated(ls) : ls \subseteq Load => ~l.current
<1> SUFFICES ASSUME NEW ls, ls \subseteq Load, NEW l \in Outdated(ls) PROVE ~l.current
  OBVIOUS
<1>1. PICK m \in ls : l = [m EXCEPT !.current = FALSE]
  BY DEF Outdated
<1>2. m \in [current: BOOLEAN, asked: BOOLEAN, snapshot: [Segment -> Row]]
  BY LoadTypes
<1> QED BY <1>1, <1>2

ConnectionInv ==
    OneDriver /\ NoLeakedRoom /\ StatusInv /\ SlotInv /\ ClearedStaysCleared

(* One attempt drives an observed call, and no connection is left behind:  *)
(* every handler that gives up the room closes it, and a join that has not *)
(* completed finds its room replaced.                                      *)
LEMMA ConnectionInductive ==
  TypeOK /\ FunctionTypes /\ ConnectionInv /\ [Next]_vars => ConnectionInv'
<1> SUFFICES ASSUME TypeOK, FunctionTypes, ConnectionInv, [Next]_vars PROVE ConnectionInv'
  OBVIOUS
<1> USE NoneIsNoAttempt DEF ConnectionInv, effectVars
<1> DEFINE Driver == OneDriver' /\ NoLeakedRoom'
           Notice == StatusInv' /\ ClearedStaysCleared'
<1>1. CASE Stop \/ CallEnds
  <2>1. Driver
    BY <1>1 DEF Stop, CallEnds, Dispose, ReleaseRoom, OneDriver, NoLeakedRoom, Running,
       Connected, TypeOK
  <2>2. Notice
    BY <1>1 DEF Stop, CallEnds, Dispose, StatusInv, CaughtUp, Running, ClearedStaysCleared
  <2>3. SlotInv'
    BY <1>1 DEF Stop, CallEnds, Dispose, ReleaseRoom, SlotInv, TypeOK
  <2> QED BY <2>1, <2>2, <2>3
<1>2. ASSUME Retry, Running, status # "denied", UNCHANGED <<effectVars, rows, hydrating>>,
             \A a \in Attempt : loads'[a] \subseteq loads[a]
      PROVE  ConnectionInv'
  <2>1. Driver
    BY <1>2 DEF Retry, ReleaseRoom, OneDriver, Retrying, NoLeakedRoom, Running, Connected,
       TypeOK
  <2>2. Notice
    BY <1>2 DEF Retry, StatusInv, CaughtUp, Running, ClearedStaysCleared
  <2>3. SlotInv'
    BY <1>2 DEF Retry, ReleaseRoom, SlotInv, TypeOK
  <2> QED BY <2>1, <2>2, <2>3
<1>3. CASE RenewTimerFires
  <2>1. Running /\ status # "denied"
    BY <1>3 DEF RenewTimerFires, OneDriver
  <2> QED BY <1>2, <1>3, <2>1 DEF RenewTimerFires
<1>4. ASSUME NEW k \in Segment, Revise(k) PROVE ConnectionInv'
  BY <1>4 DEF Revise, OneDriver, NoLeakedRoom, StatusInv, SlotInv, ClearedStaysCleared,
     Running, Retrying, Joining, Live, Connected, CaughtUp
<1>5. ASSUME NEW a \in Attempt, Observe(a) \/ RetryTimerFires(a) PROVE ConnectionInv'
  <2>1. /\ phase[a] = "free" /\ loads[a] = {} /\ phase' = [phase EXCEPT ![a] = "observing"]
        /\ gen' = a /\ status' = "busy" /\ Running' /\ UNCHANGED <<loads, room, hydrating>>
        /\ room = None /\ timer' = "none" /\ enabled'
    <3>1. CASE Observe(a)
      BY <3>1 DEF Observe, Begin, Unused, OneDriver, Running
    <3>2. CASE RetryTimerFires(a)
      BY <3>2 DEF RetryTimerFires, Begin, Unused, OneDriver, Running, Retrying, Joining, Live
    <3> QED BY <1>5, <3>1, <3>2
  <2>2. Driver
    BY <2>1 DEF OneDriver, NoLeakedRoom, Joining, Connected, TypeOK
  <2>3. Notice
    BY <2>1 DEF StatusInv, CaughtUp, ClearedStaysCleared
  <2>4. SlotInv'
    BY <2>1 DEF SlotInv, TypeOK
  <2> QED BY <2>2, <2>3, <2>4
<1>6. ASSUME NEW a \in Attempt, ObserveStale(a) \/ JoinStale(a) \/ (AttemptFails(a) /\ Superseded(a))
      PROVE  ConnectionInv'
  <2>1. /\ gen # a /\ room # a /\ phase' = [phase EXCEPT ![a] = "free"]
        /\ UNCHANGED <<effectVars, status, rows, gen, room, timer, hydrating, loads>>
    BY <1>6, OwnerOfRoom, CurrentAttempt DEF ObserveStale, JoinStale, AttemptFails, Superseded,
       Returns
  <2>2. Driver
    BY <2>1 DEF OneDriver, NoLeakedRoom, Running, Retrying, Joining, Live, Connected, TypeOK
  <2>3. Notice
    BY <2>1 DEF StatusInv, CaughtUp, Running, ClearedStaysCleared, TypeOK
  <2>4. SlotInv'
    BY <2>1 DEF SlotInv, TypeOK
  <2> QED BY <2>2, <2>3, <2>4
<1>7. ASSUME NEW a \in Attempt, ObserveOk(a) PROVE ConnectionInv'
  <2>1. /\ gen = a /\ phase[a] = "observing" /\ room = None /\ timer = "none" /\ Running
        /\ status # "denied"
    BY <1>7, CurrentAttempt DEF ObserveOk, Superseded
  <2>2. Driver
    BY <1>7, <2>1 DEF ObserveOk, OneDriver, NoLeakedRoom, Running, Joining, Connected, TypeOK
  <2>3. Notice
    BY <1>7, <2>1 DEF ObserveOk, StatusInv, CaughtUp, Running, ClearedStaysCleared
  <2>4. SlotInv'
    BY <1>7 DEF ObserveOk, SlotInv, TypeOK
  <2> QED BY <2>2, <2>3, <2>4
<1>8. ASSUME NEW a \in Attempt,
             ObserveDenied(a) \/ JoinWithoutAgent(a) \/ (AttemptFails(a) /\ ~Superseded(a))
      PROVE  ConnectionInv'
  <2>1. /\ gen = a /\ Running /\ status # "denied" /\ \A x \in Attempt : ~Connected(x)
    BY <1>8, OwnerOfRoom, CurrentAttempt DEF ObserveDenied, JoinWithoutAgent, AttemptFails,
       Superseded, NoLeakedRoom, Connected
  <2>2. /\ phase' = [phase EXCEPT ![a] = "free"] /\ gen' = None /\ room' = None
        /\ UNCHANGED <<effectVars, hydrating, loads>>
        /\ \/ status' = "denied" /\ timer' = "none" /\ rows' = NoRows
           \/ status' = "busy" /\ timer' = "connect" /\ UNCHANGED rows
    BY <1>8 DEF ObserveDenied, JoinWithoutAgent, AttemptFails, Returns
  <2>3. Driver
    BY <2>1, <2>2 DEF OneDriver, NoLeakedRoom, Running, Retrying, Connected, TypeOK
  <2>4. Notice
    BY <2>2 DEF StatusInv, CaughtUp, ClearedStaysCleared
  <2>5. SlotInv'
    BY <2>2 DEF SlotInv, TypeOK
  <2> QED BY <2>3, <2>4, <2>5
<1>9. ASSUME NEW a \in Attempt, JoinOk(a) \/ Reconnected(a) PROVE ConnectionInv'
  <2>1. room = a /\ gen = a /\ Running /\ status # "denied"
    BY <1>9, OwnerOfRoom DEF JoinOk, Reconnected
  <2>2. phase' = [phase EXCEPT ![a] = "up"] /\ status' = "busy" /\ timer' = "renew"
    BY <1>9, OwnerOfRoom DEF JoinOk, Reconnected, Hydrate
  <2>3. UNCHANGED <<effectVars, rows, gen, room>>
    BY <1>9 DEF JoinOk, Reconnected
  <2>4. Driver
    BY <2>1, <2>2, <2>3 DEF OneDriver, NoLeakedRoom, Running, Live, Connected, TypeOK
  <2>5. Notice
    BY <2>2, <2>3 DEF StatusInv, CaughtUp, ClearedStaysCleared
  <2>6. SlotInv'
    <3>1. \A b \in Attempt : b # a => loads'[b] = loads[b] /\ phase'[b] = phase[b]
      BY <1>9, <2>2 DEF JoinOk, Reconnected, Hydrate, FunctionTypes, TypeOK
    <3>2. phase'[a] = "up"
      BY <2>2 DEF TypeOK
    <3> QED BY <3>1, <3>2 DEF SlotInv
  <2> QED BY <2>4, <2>5, <2>6
<1>10. ASSUME NEW a \in Attempt, Reconnecting(a) PROVE ConnectionInv'
  <2>1. room = a /\ gen = a /\ Running /\ status # "denied" /\ timer = "renew"
    BY <1>10, OwnerOfRoom DEF Reconnecting
  <2>2. Driver
    BY <1>10, <2>1 DEF Reconnecting, OneDriver, NoLeakedRoom, Running, Live, Connected, TypeOK
  <2>3. Notice
    BY <1>10 DEF Reconnecting, StatusInv, CaughtUp, ClearedStaysCleared
  <2>4. SlotInv'
    <3>1. \A b \in Attempt : b # a => loads'[b] = loads[b] /\ phase'[b] = phase[b]
      BY <1>10 DEF Reconnecting, FunctionTypes, TypeOK
    <3>2. phase'[a] = "reconnecting" /\ loads'[a] = Outdated(loads[a])
      BY <1>10 DEF Reconnecting, FunctionTypes, TypeOK
    <3>3. \A l \in loads'[a] : ~l.current
      BY <3>2, OutdatedIsStale DEF TypeOK
    <3> QED BY <3>1, <3>2, <3>3 DEF SlotInv
  <2> QED BY <2>2, <2>3, <2>4
<1>11. ASSUME NEW a \in Attempt, Disconnected(a) PROVE ConnectionInv'
  BY <1>2, <1>11, OwnerOfRoom DEF Disconnected
<1>12. ASSUME NEW a \in Attempt, NEW l \in loads[a], Freeze(a, l) PROVE ConnectionInv'
  <2>1. UNCHANGED <<effectVars, status, rows, gen, room, timer, phase, hydrating>>
    BY <1>12 DEF Freeze
  <2>2. Driver /\ Notice
    BY <2>1 DEF OneDriver, NoLeakedRoom, StatusInv, ClearedStaysCleared, Running, Retrying,
       Joining, Live, Connected, CaughtUp
  <2>3. SlotInv'
    <3>1. \A b \in Attempt : b # a => loads'[b] = loads[b]
      BY <1>12 DEF Freeze, FunctionTypes
    <3>2. phase[a] = "up"
      BY <1>12 DEF Freeze
    <3> QED BY <2>1, <3>1, <3>2 DEF SlotInv
  <2> QED BY <2>2, <2>3
<1>13. ASSUME NEW a \in Attempt, NEW l \in loads[a], LoadReturns(a, l) PROVE ConnectionInv'
  <2>1. UNCHANGED <<effectVars, gen, room, timer, phase>>
    BY <1>13 DEF LoadReturns
  <2>2. loads' = [loads EXCEPT ![a] = @ \ {l}]
    BY <1>13 DEF LoadReturns, LoadDone
  <2>3. SlotInv'
    BY <2>1, <2>2 DEF SlotInv, FunctionTypes
  <2>4. CASE Valid(a, l)
    <3>1. room = a /\ Running /\ status # "denied" /\ phase[a] = "up"
      BY <2>4, OwnerOfRoom DEF Valid, SlotInv
    <3>2. status' = "caughtup" /\ hydrating' = [hydrating EXCEPT ![a] = FALSE]
      BY <1>13, <2>4 DEF LoadReturns
    <3>3. Driver
      BY <2>1, <3>1, <3>2 DEF OneDriver, NoLeakedRoom, Running, Retrying, Joining, Live,
         Connected
    <3>4. Notice
      BY <2>1, <3>1, <3>2 DEF StatusInv, ClearedStaysCleared, TypeOK
    <3> QED BY <2>3, <3>3, <3>4
  <2>5. CASE ~Valid(a, l)
    <3>1. UNCHANGED <<rows, hydrating, status>>
      BY <1>13, <2>5 DEF LoadReturns
    <3>2. Driver /\ Notice
      BY <2>1, <3>1 DEF OneDriver, NoLeakedRoom, StatusInv, ClearedStaysCleared, Running,
         Retrying, Joining, Live, Connected, CaughtUp
    <3> QED BY <2>3, <3>2
  <2> QED BY <2>4, <2>5
<1>14. ASSUME NEW a \in Attempt, NEW l \in loads[a], LoadFails(a, l) PROVE ConnectionInv'
  <2>1. \A x \in Attempt : loads'[x] \subseteq loads[x]
    BY <1>14 DEF LoadFails, LoadDone, FunctionTypes
  <2>2. CASE Valid(a, l)
    BY <1>2, <1>14, <2>1, <2>2, OwnerOfRoom DEF LoadFails, Valid
  <2>3. CASE ~Valid(a, l)
    BY <1>14, <2>1, <2>3 DEF LoadFails, OneDriver, NoLeakedRoom, StatusInv, ClearedStaysCleared,
       SlotInv, Running, Retrying, Joining, Live, Connected, CaughtUp
  <2> QED BY <2>2, <2>3
<1>15. ASSUME NEW a \in Attempt, NEW s \in wire[a], StreamChunk(a, s) \/ StreamEnds(a, s)
       PROVE  ConnectionInv'
  <2>1. /\ UNCHANGED <<effectVars, status, gen, room, timer, phase, hydrating, loads>>
        /\ room # a => UNCHANGED rows
    BY <1>15 DEF StreamChunk, StreamEnds, Update
  <2>2. ClearedStaysCleared'
    BY <2>1, OwnerOfRoom DEF ClearedStaysCleared, StatusInv, Running
  <2> QED BY <2>1, <2>2 DEF OneDriver, NoLeakedRoom, StatusInv, SlotInv, Running, Retrying,
       Joining, Live, Connected, CaughtUp
<1>16. ASSUME NEW a \in Attempt, NEW s \in wire[a], StreamBreaks(a, s) PROVE ConnectionInv'
  <2>1. CASE room = a
    BY <1>2, <1>16, <2>1, OwnerOfRoom DEF StreamBreaks
  <2>2. CASE room # a
    BY <1>16, <2>2 DEF StreamBreaks, OneDriver, NoLeakedRoom, StatusInv, ClearedStaysCleared,
       SlotInv, Running, Retrying, Joining, Live, Connected, CaughtUp
  <2> QED BY <2>1, <2>2
<1>17. CASE UNCHANGED vars
  BY <1>17 DEF vars, roomVars, OneDriver, NoLeakedRoom, StatusInv, ClearedStaysCleared,
     SlotInv, Running, Retrying, Joining, Live, Connected, CaughtUp
<1> QED BY <1>1, <1>3, <1>4, <1>5, <1>6, <1>7, <1>8, <1>9, <1>10, <1>11, <1>12, <1>13, <1>14,
     <1>15, <1>16, <1>17 DEF Next, Attempts
-----------------------------------------------------------------------------
(* Merging keeps within the agent's revisions. *)
LEMMA MergeWithin ==
  ASSUME NEW shown \in [Segment -> Row], NEW kept \in [Segment -> Row], NEW k \in Segment,
         NEW n \in Nat, shown[k].rev <= n
  PROVE  /\ kept[k].rev <= n => MergeAll(shown, kept)[k].rev <= n
         /\ \A j \in Segment, row \in Row :
              (j = k => row.rev <= n) => MergeRow(shown, j, row)[k].rev <= n
<1>1. kept[k].rev <= n => MergeAll(shown, kept)[k].rev <= n
  BY NewestIsNewer DEF MergeAll
<1>2. ASSUME NEW j \in Segment, NEW row \in Row, j = k => row.rev <= n
      PROVE  MergeRow(shown, j, row)[k].rev <= n
  BY <1>2, NewestIsNewer DEF MergeRow
<1> QED BY <1>1, <1>2

(* What a stream handler merges, and what it leaves alone. *)
LEMMA UpdateEffect ==
  ASSUME TypeOK, NEW a \in Attempt, NEW j \in Segment, NEW row \in Row, Update(a, j, row)
  PROVE  /\ rows' = IF room = a /\ ~hydrating[a] THEN MergeRow(rows, j, row) ELSE rows
         /\ buffered' = IF room = a /\ hydrating[a]
                        THEN [buffered EXCEPT ![a] = MergeRow(buffered[a], j, row)]
                        ELSE buffered
BY DEF Update, TypeOK

LEMMA StreamRow ==
  ASSUME NEW s \in Stream
  PROVE  /\ s.key \in Segment /\ s.rev \in Revision /\ s.begun \in BOOLEAN
         /\ \A b \in BOOLEAN : [rev |-> s.rev, full |-> b] \in Row
BY RowFields DEF Stream

(* Everyone's revisions are the agent's. *)
LEMMA KnownInductive ==
  TypeOK /\ FunctionTypes /\ KnownInv /\ [Next]_vars => KnownInv'
<1> SUFFICES ASSUME TypeOK, FunctionTypes, KnownInv, [Next]_vars PROVE KnownInv'
  OBVIOUS
<1> DEFINE Within(r, b, w, ld) ==
      \A k \in Segment :
         /\ r[k].rev <= agent[k]
         /\ \A x \in Attempt :
              /\ b[x][k].rev <= agent[k]
              /\ \A s \in w[x] : s.key = k => s.rev <= agent[k]
              /\ \A l \in ld[x] : l.snapshot[k].rev <= agent[k]
<1>1. Within(rows, buffered, wire, loads)
  BY DEF KnownInv
<1>2. ASSUME UNCHANGED agent, Within(rows', buffered', wire', loads') PROVE KnownInv'
  BY <1>2 DEF KnownInv
<1>3. agent \in [Segment -> Nat]
  BY RevisionsExist DEF TypeOK, Snapshot
<1>4. \A k \in Segment : NoRows[k].rev <= agent[k]
  BY <1>3 DEF NoRows, NoRow
<1> HIDE DEF Within
<1>5. CASE \/ Stop \/ CallEnds \/ RenewTimerFires
           \/ \E a \in Attempt :
                \/ Observe(a) \/ RetryTimerFires(a) \/ ObserveStale(a) \/ ObserveOk(a)
                \/ ObserveDenied(a) \/ AttemptFails(a) \/ JoinStale(a) \/ JoinWithoutAgent(a)
                \/ Disconnected(a)
  <2>1. UNCHANGED <<agent, wire, loads>> /\ (rows' = rows \/ rows' = NoRows)
    BY <1>5 DEF Stop, CallEnds, RenewTimerFires, Observe, RetryTimerFires, ObserveStale,
       ObserveOk, ObserveDenied, AttemptFails, JoinStale, JoinWithoutAgent, Disconnected
  <2>2. \A x \in Attempt : buffered'[x] = buffered[x] \/ buffered'[x] = NoRows
    BY <1>5 DEF Stop, CallEnds, RenewTimerFires, Observe, RetryTimerFires, ObserveStale,
       ObserveOk, ObserveDenied, AttemptFails, JoinStale, JoinWithoutAgent, Disconnected, TypeOK
  <2> QED BY <1>1, <1>2, <1>4, <2>1, <2>2 DEF Within
<1>6. ASSUME NEW j \in Segment, Revise(j) PROVE KnownInv'
  <2>1. UNCHANGED <<rows, buffered, loads>> /\ \A k \in Segment : agent[k] <= agent'[k]
    BY <1>3, <1>6 DEF Revise
  <2>2. agent'[j] = agent[j] + 1
    BY <1>3, <1>6 DEF Revise
  <2>3. \A x \in Attempt : \A s \in wire'[x] : s \in wire[x] \/ (s.key = j /\ s.rev = agent'[j])
    <3>1. PICK joined \in SUBSET Attempt :
            wire' = [x \in Attempt |->
              IF phase[x] = "up" \/ x \in joined
              THEN wire[x] \cup {[key |-> j, rev |-> agent[j] + 1, begun |-> FALSE]}
              ELSE wire[x]]
      BY <1>6 DEF Revise
    <3> QED BY <2>2, <3>1
  <2>4. agent' \in [Segment -> Nat]
    BY <1>3, <1>6 DEF Revise
  <2>5. /\ rows \in [Segment -> Row] /\ \A x \in Attempt : buffered[x] \in [Segment -> Row]
        /\ \A x \in Attempt : \A l \in loads[x] : l.snapshot \in [Segment -> Row]
        /\ \A x \in Attempt : \A s \in wire[x] : s.rev \in Nat
        /\ \A row \in Row : row.rev \in Nat
    BY LoadTypes, RowFields, StreamRow, RevisionsExist DEF TypeOK, Revision
  <2> QED BY <1>1, <1>3, <2>1, <2>3, <2>4, <2>5 DEF Within, KnownInv
<1>7. ASSUME NEW a \in Attempt, JoinOk(a) \/ Reconnected(a) \/ Reconnecting(a) PROVE KnownInv'
  <2>1. UNCHANGED <<agent, rows>> /\ \A x \in Attempt : wire'[x] \subseteq wire[x]
    BY <1>7 DEF JoinOk, Reconnected, Reconnecting, FunctionTypes
  <2>2. \A x \in Attempt : buffered'[x] = buffered[x] \/ buffered'[x] = NoRows
    BY <1>7 DEF JoinOk, Reconnected, Reconnecting, Hydrate, TypeOK
  <2>3. \A x \in Attempt : loads'[x] \subseteq loads[x] \cup Outdated(loads[x]) \cup {NewLoad}
    BY <1>7 DEF JoinOk, Reconnected, Reconnecting, Hydrate, FunctionTypes
  <2>4. ASSUME NEW x \in Attempt, NEW l \in loads'[x]
        PROVE  l.snapshot = NoRows \/ \E m \in loads[x] : l.snapshot = m.snapshot
    <3>1. CASE l \in Outdated(loads[x])
      <4>1. PICK m \in loads[x] : l = [m EXCEPT !.current = FALSE]
        BY <3>1 DEF Outdated
      <4>2. m \in [current: BOOLEAN, asked: BOOLEAN, snapshot: [Segment -> Row]]
        BY LoadTypes DEF TypeOK
      <4> QED BY <4>1, <4>2
    <3> QED BY <2>3, <2>4, <3>1 DEF NewLoad
  <2> QED BY <1>1, <1>2, <1>4, <2>1, <2>2, <2>4 DEF Within
<1>8. ASSUME NEW a \in Attempt, NEW l \in loads[a], Freeze(a, l) PROVE KnownInv'
  <2> DEFINE now == [k \in Segment |-> [rev |-> agent[k], full |-> agent[k] > 0]]
  <2>1. UNCHANGED <<agent, rows, buffered, wire>>
    BY <1>8 DEF Freeze
  <2>2. ASSUME NEW x \in Attempt, NEW m \in loads'[x], m \notin loads[x] PROVE m.snapshot = now
    <3>1. loads' = [loads EXCEPT ![a] = (@ \ {l}) \cup
                       {[l EXCEPT !.asked = FALSE, !.snapshot = now]}]
      BY <1>8 DEF Freeze
    <3>2. l \in [current: BOOLEAN, asked: BOOLEAN, snapshot: [Segment -> Row]]
      BY LoadTypes DEF TypeOK
    <3> HIDE DEF now
    <3>3. m = [l EXCEPT !.asked = FALSE, !.snapshot = now]
      BY <2>2, <3>1 DEF FunctionTypes
    <3> QED BY <3>2, <3>3
  <2>3. \A k \in Segment : now[k].rev <= agent[k]
    BY <1>3
  <2> HIDE DEF now
  <2> QED BY <1>1, <1>2, <2>1, <2>2, <2>3 DEF Within
<1>9. ASSUME NEW a \in Attempt, NEW l \in loads[a], LoadReturns(a, l) \/ LoadFails(a, l)
      PROVE  KnownInv'
  <2>1. UNCHANGED <<agent, wire>> /\ \A x \in Attempt : loads'[x] \subseteq loads[x]
    BY <1>9 DEF LoadReturns, LoadFails, LoadDone, FunctionTypes
  <2>2. rows' = rows \/ rows' = MergeAll(l.snapshot, buffered[a])
    BY <1>9 DEF LoadReturns, LoadFails
  <2>3. \A x \in Attempt : buffered'[x] = buffered[x] \/ buffered'[x] = NoRows
    BY <1>9 DEF LoadReturns, LoadFails, TypeOK
  <2>4. \A k \in Segment : MergeAll(l.snapshot, buffered[a])[k].rev <= agent[k]
    <3>1. l.snapshot \in [Segment -> Row] /\ buffered[a] \in [Segment -> Row]
      BY LoadTypes DEF TypeOK
    <3> QED BY <1>1, <1>3, <3>1, MergeWithin DEF Within
  <2> QED BY <1>1, <1>2, <1>4, <2>1, <2>2, <2>3, <2>4 DEF Within
<1>10. ASSUME NEW a \in Attempt, NEW s \in wire[a], StreamChunk(a, s) \/ StreamEnds(a, s)
       PROVE  KnownInv'
  <2>1. UNCHANGED <<agent, loads>>
    BY <1>10 DEF StreamChunk, StreamEnds
  <2>2. s \in Stream /\ s.rev <= agent[s.key]
    BY <1>1, StreamRow DEF Within, TypeOK
  <2>3. ASSUME NEW x \in Attempt, NEW t \in wire'[x]
        PROVE  \E u \in wire[x] : t.key = u.key /\ t.rev = u.rev
    <3>1. CASE t \in wire[x]
      BY <3>1
    <3>2. CASE t \notin wire[x]
      <4>1. x = a /\ t = [s EXCEPT !.begun = TRUE]
        BY <1>10, <2>3, <3>2 DEF StreamChunk, StreamEnds, FunctionTypes
      <4> QED BY <2>2, <4>1 DEF Stream
    <3> QED BY <3>1, <3>2
  <2>4. PICK b \in BOOLEAN : Update(a, s.key, [rev |-> s.rev, full |-> b])
    BY <1>10 DEF StreamChunk, StreamEnds
  <2> DEFINE row == [rev |-> s.rev, full |-> b]
  <2>5. row \in Row /\ row.rev = s.rev /\ s.key \in Segment
    BY <2>2, StreamRow
  <2>6. \/ rows' = rows
        \/ rows' = MergeRow(rows, s.key, row)
    BY <2>4, <2>5, UpdateEffect
  <2>7. \/ buffered' = buffered
        \/ buffered' = [buffered EXCEPT ![a] = MergeRow(buffered[a], s.key, row)]
    BY <2>4, <2>5, UpdateEffect
  <2> HIDE DEF row
  <2>8. \A k \in Segment : rows'[k].rev <= agent[k]
    BY <1>1, <1>3, <2>2, <2>5, <2>6, MergeWithin DEF Within, TypeOK
  <2>9. \A x \in Attempt, k \in Segment : buffered'[x][k].rev <= agent[k]
    <3>1. ASSUME NEW k \in Segment PROVE MergeRow(buffered[a], s.key, row)[k].rev <= agent[k]
      <4>1. buffered[a] \in [Segment -> Row] /\ buffered[a][k].rev <= agent[k]
        BY <1>1 DEF Within, TypeOK
      <4> QED BY <1>3, <2>2, <2>5, <4>1, MergeWithin
    <3> QED BY <1>1, <2>7, <3>1 DEF Within, TypeOK
  <2> QED BY <1>1, <1>2, <2>1, <2>3, <2>8, <2>9 DEF Within
<1>11. ASSUME NEW a \in Attempt, NEW s \in wire[a], StreamBreaks(a, s) PROVE KnownInv'
  <2>1. /\ UNCHANGED <<agent, rows, buffered, loads>>
        /\ \A x \in Attempt : wire'[x] \subseteq wire[x]
    BY <1>11 DEF StreamBreaks, FunctionTypes
  <2> QED BY <1>1, <1>2, <2>1 DEF Within
<1>12. CASE UNCHANGED vars
  BY <1>1, <1>2, <1>12 DEF vars, roomVars
<1> QED BY <1>5, <1>6, <1>7, <1>8, <1>9, <1>10, <1>11, <1>12 DEF Next, Attempts
-----------------------------------------------------------------------------
LEMMA LatestRow ==
  ASSUME NEW n \in 0..MaxRevision
  PROVE  /\ Latest(n) \in Row /\ Latest(n).rev = n /\ (Latest(n).full <=> n > 0)
         /\ \A row \in Row : row = Latest(n) <=> row.rev = n /\ (n > 0 => row.full)
<1>1. Latest(n) \in Row
  BY RowFields DEF Latest
<1>2. Latest(n).rev = n /\ (Latest(n).full <=> n > 0)
  BY DEF Latest
<1>3. ASSUME NEW row \in Row, row.rev = n, n > 0 => row.full PROVE row = Latest(n)
  <2>1. row \in [rev: 0..MaxRevision, full: BOOLEAN] /\ (row.full => row.rev > 0)
    BY DEF Row
  <2>2. Latest(n) \in [rev: 0..MaxRevision, full: BOOLEAN]
    BY <1>1 DEF Row
  <2>3. row.full = Latest(n).full
    BY <1>2, <1>3, <2>1, <2>2
  <2> QED BY <1>2, <1>3, <2>1, <2>2, <2>3
<1> QED BY <1>1, <1>2, <1>3

(* Merging a streamed row into the latest text leaves the latest text, or  *)
(* a part of the latest revision.                                          *)
LEMMA MergeIntoLatest ==
  ASSUME NEW old \in Row, NEW row \in Row, NEW n \in 0..MaxRevision, row.rev <= n
  PROVE  /\ old = Latest(n) => Newest(old, row) = Latest(n) \/ (row.rev = n /\ ~row.full)
         /\ old.rev <= n /\ row.rev = n /\ row.full => Newest(old, row) = Latest(n)
<1> USE RevisionsExist
<1>1. \A r \in Row : r.rev \in 0..MaxRevision
  BY RowFields
<1>2. ASSUME row.rev = n, row.full PROVE row = Latest(n)
  BY <1>2, LatestRow
<1>3. ASSUME old = Latest(n)
      PROVE  Newest(old, row) = Latest(n) \/ (row.rev = n /\ ~row.full)
  BY <1>1, <1>2, <1>3, LatestRow DEF Newest
<1>4. ASSUME old.rev <= n, row.rev = n, row.full PROVE Newest(old, row) = Latest(n)
  BY <1>1, <1>2, <1>4 DEF Newest, IsFinal
<1> QED BY <1>3, <1>4

(* The same through the buffer. *)
LEMMA MergeIntoBuffer ==
  ASSUME NEW history \in [Segment -> Row], NEW kept \in [Segment -> Row], NEW k \in Segment,
         NEW row \in Row, NEW n \in 0..MaxRevision,
         history[k].rev <= n, kept[k].rev <= n, 0 < row.rev, row.rev <= n,
         NEW merged, merged = MergeAll(history, kept)[k],
         NEW merged2, merged2 = MergeAll(history, MergeRow(kept, k, row))[k]
  PROVE  /\ merged = Latest(n) => merged2 = Latest(n) \/ (row.rev = n /\ ~row.full)
         /\ row.rev = n /\ row.full => merged2 = Latest(n)
<1> DEFINE kept2 == Newest(kept[k], row)
<1>1. merged2 = IF kept2 = NoRow THEN history[k] ELSE Newest(history[k], kept2)
  BY DEF MergeAll, MergeRow
<1>2. merged = IF kept[k] = NoRow THEN history[k] ELSE Newest(history[k], kept[k])
  BY DEF MergeAll
<1>3. /\ kept2 \in Row /\ kept2 \in {kept[k], row} /\ row.rev <= kept2.rev /\ kept2.rev <= n
      /\ kept[k].rev <= kept2.rev
  BY NewestIsNewer
<1>4. NoRow.rev = 0 /\ \A r \in Row : r.rev \in Nat
  BY RowFields DEF NoRow
<1>5. kept2 # NoRow
  BY <1>3, <1>4
<1>6. merged2 = Newest(history[k], kept2)
  BY <1>1, <1>5
<1>7. ASSUME row.rev = n, row.full PROVE merged2 = Latest(n)
  <2>1. kept2 = Latest(n)
    BY <1>7, MergeIntoLatest
  <2>2. kept2.rev = n /\ kept2.full
    BY <1>4, <1>7, <2>1, LatestRow
  <2> QED BY <1>3, <1>6, <2>2, MergeIntoLatest
<1>8. ASSUME merged = Latest(n), kept2 = kept[k] PROVE merged2 = Latest(n)
  BY <1>2, <1>5, <1>6, <1>8
<1>9. ASSUME merged = Latest(n), kept2 = row, history[k] = Latest(n)
      PROVE  merged2 = Latest(n) \/ (row.rev = n /\ ~row.full)
  BY <1>6, <1>9, MergeIntoLatest
<1>10. ASSUME merged = Latest(n), kept2 = row, history[k] # Latest(n)
       PROVE  merged2 = Latest(n) \/ (row.rev = n /\ ~row.full)
  <2>1. kept[k] = Latest(n)
    BY <1>2, <1>10, NewestIsNewer
  <2>2. row.rev = n
    BY <1>3, <1>4, <1>10, <2>1, LatestRow
  <2> QED BY <1>7, <2>2
<1> QED BY <1>3, <1>7, <1>8, <1>9, <1>10
-----------------------------------------------------------------------------
LEMMA OneCurrentInductive ==
  TypeOK /\ FunctionTypes /\ OneCurrent /\ [Next]_vars => OneCurrent'
<1> SUFFICES ASSUME TypeOK, FunctionTypes, OneCurrent, [Next]_vars PROVE OneCurrent'
  OBVIOUS
<1>1. ASSUME \A x \in Attempt : loads'[x] \subseteq loads[x] PROVE OneCurrent'
  BY <1>1 DEF OneCurrent
<1>2. ASSUME NEW a \in Attempt, JoinOk(a) \/ Reconnected(a) PROVE OneCurrent'
  <2>1. loads' = [loads EXCEPT ![a] = Outdated(@) \cup {NewLoad}]
    BY <1>2 DEF JoinOk, Reconnected, Hydrate
  <2>2. \A x \in Attempt : loads'[x] = loads[x] \/ loads'[x] = Outdated(loads[x]) \cup {NewLoad}
    BY <2>1 DEF FunctionTypes
  <2>3. \A x \in Attempt : \A l \in Outdated(loads[x]) : ~l.current
    BY OutdatedIsStale DEF TypeOK
  <2> QED BY <2>2, <2>3 DEF OneCurrent
<1>3. ASSUME NEW a \in Attempt, Reconnecting(a) PROVE OneCurrent'
  <2>1. \A x \in Attempt : loads'[x] = loads[x] \/ loads'[x] = Outdated(loads[x])
    BY <1>3 DEF Reconnecting, FunctionTypes
  <2>2. \A x \in Attempt : \A l \in Outdated(loads[x]) : ~l.current
    BY OutdatedIsStale DEF TypeOK
  <2> QED BY <2>1, <2>2 DEF OneCurrent
<1>4. ASSUME NEW a \in Attempt, NEW l \in loads[a], Freeze(a, l) PROVE OneCurrent'
  <2> DEFINE now == [k \in Segment |-> [rev |-> agent[k], full |-> agent[k] > 0]]
             frozen == [l EXCEPT !.asked = FALSE, !.snapshot = now]
  <2>1. loads' = [loads EXCEPT ![a] = (@ \ {l}) \cup {frozen}]
    BY <1>4 DEF Freeze
  <2>2. l \in [current: BOOLEAN, asked: BOOLEAN, snapshot: [Segment -> Row]]
    BY LoadTypes DEF TypeOK
  <2> HIDE DEF now
  <2>3. frozen.current = l.current
    BY <2>2
  <2> HIDE DEF frozen
  <2> QED BY <2>1, <2>3 DEF OneCurrent, FunctionTypes
<1>5. ASSUME NEW a \in Attempt, NEW l \in loads[a], LoadReturns(a, l) \/ LoadFails(a, l)
      PROVE  OneCurrent'
  BY <1>1, <1>5 DEF LoadReturns, LoadFails, LoadDone, FunctionTypes
<1>6. ASSUME UNCHANGED loads PROVE OneCurrent'
  BY <1>1, <1>6
<1>7. ASSUME NEW a \in Attempt, Attempts(a), ~JoinOk(a), ~Reconnected(a), ~Reconnecting(a)
      PROVE  UNCHANGED loads
  BY <1>7 DEF Attempts, Observe, RetryTimerFires, ObserveStale, ObserveOk, ObserveDenied,
     AttemptFails, JoinStale, JoinWithoutAgent, Disconnected
<1>8. ASSUME NEW a \in Attempt, NEW s \in wire[a],
             StreamChunk(a, s) \/ StreamEnds(a, s) \/ StreamBreaks(a, s)
      PROVE  UNCHANGED loads
  BY <1>8 DEF StreamChunk, StreamEnds, StreamBreaks
<1>9. ASSUME NEW k \in Segment, Revise(k) PROVE UNCHANGED loads
  BY <1>9 DEF Revise
<1>10. CASE Stop \/ CallEnds \/ RenewTimerFires
  BY <1>6, <1>10 DEF Stop, CallEnds, RenewTimerFires
<1>11. CASE UNCHANGED vars
  BY <1>6, <1>11 DEF vars, roomVars
<1> QED BY <1>2, <1>3, <1>4, <1>5, <1>6, <1>7, <1>8, <1>9, <1>10, <1>11 DEF Next

HistoryInv == BufferInv /\ LoadInv /\ CaughtUpIsComplete

(* The history, the buffer and the streams under way make up the agent's   *)
(* latest text, from the moment the history is frozen.                     *)
LEMMA HistoryInductive ==
  IInv /\ [Next]_vars => HistoryInv'
<1> SUFFICES ASSUME IInv, [Next]_vars PROVE HistoryInv'
  OBVIOUS
<1> USE NoneIsNoAttempt DEF effectVars
<1>1. /\ TypeOK /\ FunctionTypes /\ OneDriver /\ StatusInv /\ SlotInv /\ OneCurrent /\ KnownInv
      /\ BufferInv /\ LoadInv /\ CaughtUpIsComplete
  BY DEF IInv
<1>2. agent \in [Segment -> 0..MaxRevision]
  BY <1>1 DEF TypeOK, Snapshot
(* Giving up the room, or the call. *)
<1>3. ASSUME room' = None, ~CaughtUp' PROVE HistoryInv'
  BY <1>3 DEF HistoryInv, BufferInv, LoadInv, CaughtUpIsComplete, CaughtUp
<1>4. CASE Stop \/ CallEnds \/ RenewTimerFires
  BY <1>3, <1>4 DEF Stop, CallEnds, RenewTimerFires, Dispose, Retry, ReleaseRoom, CaughtUp, Running
<1>5. ASSUME NEW a \in Attempt,
             \/ Observe(a) \/ RetryTimerFires(a) \/ ObserveDenied(a) \/ JoinWithoutAgent(a)
             \/ Disconnected(a) \/ (AttemptFails(a) /\ ~Superseded(a))
      PROVE  HistoryInv'
  <2>1. room' = None
    BY <1>1, <1>5 DEF Observe, RetryTimerFires, ObserveDenied, JoinWithoutAgent, Disconnected,
       AttemptFails, Retry, ReleaseRoom, OneDriver, Running, Retrying, Joining, Live
  <2>2. status' # "caughtup"
    BY <1>5 DEF Observe, RetryTimerFires, ObserveDenied, JoinWithoutAgent, Disconnected,
       AttemptFails, Retry, Begin
  <2> QED BY <1>3, <2>1, <2>2 DEF CaughtUp
(* Steps of an attempt that does not own the room. *)
<1>6. ASSUME UNCHANGED <<effectVars, status, rows, room, agent>>,
             room # None =>
                /\ phase'[room] = phase[room] /\ hydrating'[room] = hydrating[room]
                /\ buffered'[room] = buffered[room] /\ loads'[room] \subseteq loads[room]
                /\ wire'[room] = wire[room]
      PROVE  HistoryInv'
  <2>1. room # None => \A k \in Segment : OnItsWay(k)' = OnItsWay(k)
    BY <1>6 DEF OnItsWay
  <2>2. BufferInv'
    BY <1>1, <1>6, <2>1 DEF BufferInv
  <2>3. LoadInv'
    BY <1>1, <1>6, <2>1 DEF LoadInv, Covers, Complete
  <2>4. CaughtUpIsComplete'
    BY <1>1, <1>6, <2>1 DEF CaughtUpIsComplete, OnScreen, StatusInv, CaughtUp, Running
  <2> QED BY <2>2, <2>3, <2>4 DEF HistoryInv
<1>7. ASSUME NEW a \in Attempt, ObserveStale(a) \/ JoinStale(a) \/ (AttemptFails(a) /\ Superseded(a))
      PROVE  HistoryInv'
  <2>1. /\ room # a /\ phase' = [phase EXCEPT ![a] = "free"]
        /\ UNCHANGED <<effectVars, status, rows, room, hydrating, buffered, loads, wire, agent>>
    BY <1>1, <1>7, OwnerOfRoom DEF ObserveStale, JoinStale, AttemptFails, Superseded, Returns
  <2> QED BY <1>1, <1>6, <2>1 DEF TypeOK
<1>8. ASSUME NEW a \in Attempt, ObserveOk(a) PROVE HistoryInv'
  <2>1. room' = a /\ phase'[a] = "connecting" /\ loads'[a] = {} /\ ~CaughtUp'
    BY <1>1, <1>8, CurrentAttempt DEF ObserveOk, Superseded, TypeOK, SlotInv, StatusInv, CaughtUp,
       Running
  <2> QED BY <2>1 DEF HistoryInv, BufferInv, LoadInv, CaughtUpIsComplete, CaughtUp
<1>9. ASSUME NEW a \in Attempt, JoinOk(a) \/ Reconnected(a) PROVE HistoryInv'
  <2>1. /\ room' = a /\ status' = "busy" /\ hydrating'[a] /\ buffered'[a] = NoRows
        /\ loads'[a] = Outdated(loads[a]) \cup {NewLoad} /\ UNCHANGED agent
    BY <1>1, <1>9 DEF JoinOk, Reconnected, Hydrate, TypeOK, FunctionTypes
  <2>2. BufferInv'
    BY <1>2, <2>1 DEF BufferInv, NoRows, NoRow
  <2>3. LoadInv'
    <3>1. \A l \in Outdated(loads[a]) : ~l.current
      BY <1>1, OutdatedIsStale DEF TypeOK
    <3> QED BY <2>1, <3>1 DEF LoadInv, NewLoad
  <2> QED BY <2>1, <2>2, <2>3 DEF HistoryInv, CaughtUpIsComplete
<1>10. ASSUME NEW a \in Attempt, Reconnecting(a) PROVE HistoryInv'
  <2>1. /\ room' = a /\ status' = "busy" /\ phase'[a] = "reconnecting"
        /\ loads'[a] = Outdated(loads[a])
    BY <1>1, <1>10 DEF Reconnecting, TypeOK, FunctionTypes
  <2>2. \A l \in Outdated(loads[a]) : ~l.current
    BY <1>1, OutdatedIsStale DEF TypeOK
  <2> QED BY <2>1, <2>2 DEF HistoryInv, BufferInv, LoadInv, CaughtUpIsComplete
<1>11. ASSUME NEW a \in Attempt, NEW l \in loads[a], Freeze(a, l) PROVE HistoryInv'
  <2> DEFINE now == [k \in Segment |-> [rev |-> agent[k], full |-> agent[k] > 0]]
             frozen == [l EXCEPT !.asked = FALSE, !.snapshot = now]
  <2>1. loads' = [loads EXCEPT ![a] = (@ \ {l}) \cup {frozen}]
    BY <1>11 DEF Freeze
  <2>2. UNCHANGED <<effectVars, status, rows, room, phase, hydrating, buffered, wire, agent>>
    BY <1>11 DEF Freeze
  <2>3. CASE room # a
    <3>1. \A x \in Attempt : x # a => loads'[x] = loads[x]
      BY <1>1, <2>1 DEF FunctionTypes
    <3> QED BY <1>1, <1>6, <2>2, <2>3, <3>1 DEF TypeOK
  <2>4. CASE room = a
    <3>1. \A k \in Segment : OnItsWay(k)' = OnItsWay(k)
      BY <2>2 DEF OnItsWay
    <3>2. BufferInv' /\ CaughtUpIsComplete'
      BY <1>1, <2>2, <3>1 DEF BufferInv, CaughtUpIsComplete, OnScreen, Running
    <3>3. now \in [Segment -> Row] /\ \A k \in Segment : now[k] = Latest(agent[k])
      BY <1>2, LatestRow DEF Latest
    <3>4. l \in [current: BOOLEAN, asked: BOOLEAN, snapshot: [Segment -> Row]]
      BY <1>1, LoadTypes DEF TypeOK
    <3> HIDE DEF now
    <3>5. frozen.current = l.current /\ frozen.snapshot = now
      BY <3>4
    <3> HIDE DEF frozen
    <3>6. ASSUME l.current PROVE hydrating[a] /\ Covers(frozen)
      <4>1. hydrating[a] /\ phase[a] = "up"
        BY <1>1, <1>11, <2>4, <3>6 DEF LoadInv, Freeze
      <4>2. ASSUME NEW k \in Segment
            PROVE  /\ now[k].full = (now[k].rev > 0)
                   /\ rows[k].rev <= now[k].rev
                   /\ Complete(MergeAll(now, buffered[a])[k], k)
        <5>1. now[k].rev = agent[k] /\ (now[k].full <=> agent[k] > 0) /\ now[k].full \in BOOLEAN
          BY <1>2, <3>3, LatestRow, RowFields
        <5>2. rows[k].rev <= agent[k] /\ buffered[a][k].rev <= agent[k]
          BY <1>1 DEF KnownInv
        <5>3. CASE buffered[a][k].rev = agent[k] /\ agent[k] > 0 /\ ~buffered[a][k].full
          BY <1>1, <2>4, <4>1, <5>1, <5>2, <5>3 DEF BufferInv, Complete
        <5>4. CASE ~(buffered[a][k].rev = agent[k] /\ agent[k] > 0 /\ ~buffered[a][k].full)
          <6>1. buffered[a][k] \in Row /\ now[k] \in Row /\ agent[k] \in 0..MaxRevision
                /\ buffered[a] \in [Segment -> Row]
            BY <1>1, <1>2, <3>3 DEF TypeOK
          <6>2. Newest(now[k], buffered[a][k]) = Latest(agent[k])
            BY <3>3, <5>2, <5>4, <6>1, MergeIntoLatest, LatestRow, NewestIsNewer
          <6>3. MergeAll(now, buffered[a])[k] = Latest(agent[k])
            BY <3>3, <6>2 DEF MergeAll
          <6> QED BY <5>1, <5>2, <6>3 DEF Complete
        <5> QED BY <5>3, <5>4
      <4> QED BY <2>4, <3>5, <4>1, <4>2 DEF Covers
    <3>7. LoadInv'
      <4>1. \A m : Covers(m)' = Covers(m)
        BY <2>2, <3>1 DEF Covers, Complete
      <4>2. \A m \in loads'[a] : m \in loads[a] \/ m = frozen
        BY <1>1, <2>1 DEF FunctionTypes
      <4> QED BY <1>1, <2>2, <2>4, <3>5, <3>6, <4>1, <4>2 DEF LoadInv
    <3> QED BY <3>2, <3>7 DEF HistoryInv
  <2> QED BY <2>3, <2>4
<1>12. ASSUME NEW a \in Attempt, NEW l \in loads[a], LoadReturns(a, l) PROVE HistoryInv'
  <2>1. /\ UNCHANGED <<effectVars, gen, room, timer, phase, wire, agent>>
        /\ loads' = [loads EXCEPT ![a] = @ \ {l}] /\ ~l.asked
    BY <1>12 DEF LoadReturns, LoadDone
  <2>2. CASE ~Valid(a, l)
    <3>1. UNCHANGED <<rows, buffered, hydrating, status>>
      BY <1>12, <2>2 DEF LoadReturns
    <3>2. \A x \in Attempt : loads'[x] \subseteq loads[x]
      BY <1>1, <2>1 DEF FunctionTypes
    <3> QED BY <1>1, <1>6, <2>1, <3>1, <3>2 DEF TypeOK
  <2>3. CASE Valid(a, l)
    <3>1. /\ room = a /\ l.current /\ rows' = MergeAll(l.snapshot, buffered[a])
          /\ hydrating' = [hydrating EXCEPT ![a] = FALSE]
      BY <1>12, <2>3 DEF LoadReturns, Valid
    <3>2. room' = a /\ ~hydrating'[a]
      BY <1>1, <2>1, <3>1 DEF TypeOK
    <3>3. \A m \in loads'[a] : m \in loads[a] /\ m # l
      BY <1>1, <2>1 DEF FunctionTypes
    <3>4. BufferInv' /\ LoadInv'
      BY <1>1, <3>1, <3>2, <3>3, LoadTypes DEF BufferInv, LoadInv, OneCurrent, TypeOK
    <3>5. ASSUME NEW k \in Segment PROVE OnScreen(k)' \/ OnItsWay(k)'
      <4>1. Complete(rows'[k], k)
        BY <1>1, <2>1, <3>1 DEF LoadInv, Covers
      <4> QED BY <2>1, <4>1 DEF Complete, OnScreen, OnItsWay, Latest
    <3> QED BY <3>4, <3>5 DEF HistoryInv, CaughtUpIsComplete
  <2> QED BY <2>2, <2>3
<1>13. ASSUME NEW a \in Attempt, NEW l \in loads[a], LoadFails(a, l) PROVE HistoryInv'
  <2>1. CASE Valid(a, l)
    BY <1>3, <1>13, <2>1 DEF LoadFails, Retry, ReleaseRoom, CaughtUp
  <2>2. CASE ~Valid(a, l)
    <3>1. \A x \in Attempt : loads'[x] \subseteq loads[x]
      BY <1>1, <1>13 DEF LoadFails, LoadDone, FunctionTypes
    <3> QED BY <1>1, <1>6, <1>13, <2>2, <3>1 DEF LoadFails, TypeOK
  <2> QED BY <2>1, <2>2
<1>14. ASSUME NEW j \in Segment, Revise(j) PROVE HistoryInv'
  <2>1. UNCHANGED <<effectVars, status, rows, room, phase, hydrating, buffered, loads>>
    BY <1>14 DEF Revise
  <2>2. agent' = [agent EXCEPT ![j] = @ + 1]
    BY <1>14 DEF Revise
  <2>3. CASE room # None /\ phase[room] = "up"
    <3> DEFINE news == [key |-> j, rev |-> agent[j] + 1, begun |-> FALSE]
    <3>1. PICK joined \in SUBSET Attempt :
            wire' = [x \in Attempt |->
              IF phase[x] = "up" \/ x \in joined THEN wire[x] \cup {news} ELSE wire[x]]
      BY <1>14 DEF Revise
    <3>2. room \in Attempt
      BY <1>1, <2>3 DEF TypeOK
    <3>3. wire'[room] = wire[room] \cup {news}
      BY <2>3, <3>1, <3>2
    <3>4. news.key = j /\ news.rev = agent'[j]
      BY <1>2, <2>2
    <3> HIDE DEF news
    <3>5. OnItsWay(j)'
      BY <2>1, <3>3, <3>4 DEF OnItsWay
    <3>6. \A k \in Segment \ {j} : agent'[k] = agent[k]
      BY <1>2, <2>2
    <3>7. ASSUME NEW k \in Segment, OnItsWay(k) PROVE OnItsWay(k)'
      BY <2>1, <3>3, <3>5, <3>6, <3>7 DEF OnItsWay
    <3>8. BufferInv'
      BY <1>1, <2>1, <3>5, <3>6, <3>7 DEF BufferInv
    <3>9. \A row : \A k \in Segment : Complete(row, k) => Complete(row, k)'
      BY <3>5, <3>6, <3>7 DEF Complete
    <3>10. \A l : Covers(l) => Covers(l)'
      BY <2>1, <3>9 DEF Covers
    <3>11. LoadInv'
      BY <1>1, <2>1, <3>10 DEF LoadInv
    <3>12. CaughtUpIsComplete'
      BY <1>1, <2>1, <3>5, <3>6, <3>7 DEF CaughtUpIsComplete, OnScreen, Running
    <3> QED BY <3>8, <3>11, <3>12 DEF HistoryInv
  <2>4. CASE ~(room # None /\ phase[room] = "up")
    <3>1. ~CaughtUp' /\ BufferInv'
      BY <1>1, <2>1, <2>4 DEF StatusInv, CaughtUp, Running, BufferInv
    <3>2. room # None => room \in Attempt /\ phase[room] \in {"connecting", "reconnecting"}
      BY <1>1, <2>4, OwnerOfRoom DEF TypeOK
    <3>3. LoadInv'
      BY <1>1, <2>1, <3>2 DEF LoadInv, SlotInv
    <3> QED BY <3>1, <3>3 DEF HistoryInv, CaughtUpIsComplete, CaughtUp
  <2> QED BY <2>3, <2>4
<1>15. ASSUME NEW a \in Attempt, NEW s \in wire[a], StreamChunk(a, s) \/ StreamEnds(a, s)
       PROVE  HistoryInv'
  <2>1. UNCHANGED <<effectVars, status, gen, room, timer, phase, hydrating, loads, agent>>
    BY <1>15 DEF StreamChunk, StreamEnds
  <2>2. s \in Stream /\ s.key \in Segment /\ s.rev \in Revision /\ s.rev <= agent[s.key]
    BY <1>1, StreamRow DEF KnownInv, TypeOK
  <2>3. PICK b \in BOOLEAN :
          /\ Update(a, s.key, [rev |-> s.rev, full |-> b])
          /\ b => wire' = [wire EXCEPT ![a] = @ \ {s}]
          /\ ~b => wire' = [wire EXCEPT ![a] = (@ \ {s}) \cup {[s EXCEPT !.begun = TRUE]}]
    BY <1>15 DEF StreamChunk, StreamEnds
  <2> DEFINE row == [rev |-> s.rev, full |-> b]
  <2>4. row \in Row /\ row.rev = s.rev /\ row.full = b
    BY <2>2, StreamRow
  <2>5. /\ rows' = IF room = a /\ ~hydrating[a] THEN MergeRow(rows, s.key, row) ELSE rows
        /\ buffered' = IF room = a /\ hydrating[a]
                       THEN [buffered EXCEPT ![a] = MergeRow(buffered[a], s.key, row)]
                       ELSE buffered
    BY <1>1, <2>2, <2>3, <2>4, UpdateEffect
  <2> HIDE DEF row
  <2>6. CASE room # a
    <3>1. UNCHANGED <<rows, buffered>>
      BY <2>5, <2>6
    <3>2. \A x \in Attempt : x # a => wire'[x] = wire[x]
      BY <1>1, <2>3 DEF FunctionTypes
    <3> QED BY <1>1, <1>6, <2>1, <2>6, <3>1, <3>2 DEF TypeOK
  <2>7. CASE room = a
    <3> DEFINE k == s.key
               n == agent[s.key]
    <3>1. ASSUME NEW j \in Segment, OnItsWay(j)
          PROVE  OnItsWay(j)' \/ (j = k /\ s.rev = n /\ row.full)
      <4>1. PICK t \in wire[a] : t.key = j /\ t.rev = agent[j]
        BY <2>7, <3>1 DEF OnItsWay
      <4>2. CASE t # s
        <5>1. t \in wire'[a]
          BY <1>1, <2>3, <4>2 DEF FunctionTypes
        <5> QED BY <2>1, <2>7, <4>1, <5>1 DEF OnItsWay
      <4>3. CASE t = s /\ ~b
        <5>1. [s EXCEPT !.begun = TRUE] \in wire'[a]
          BY <1>1, <2>3, <4>3 DEF FunctionTypes
        <5>2. [s EXCEPT !.begun = TRUE].key = s.key /\ [s EXCEPT !.begun = TRUE].rev = s.rev
          BY <2>2 DEF Stream
        <5> QED BY <2>1, <2>7, <4>1, <4>3, <5>1, <5>2 DEF OnItsWay
      <4> QED BY <2>4, <4>1, <4>2, <4>3
    <3>2. ASSUME s.rev = n, ~row.full PROVE OnItsWay(k)'
      BY <2>2, <2>4, <2>7, <3>1, <3>2 DEF OnItsWay
    <3>3. n \in 0..MaxRevision /\ row.rev <= n /\ 0 < row.rev /\ k \in Segment
      BY <1>2, <2>2, <2>4, RevisionsExist DEF Revision
    <3>4. ASSUME NEW old \in Row, old.rev <= n, Complete(old, k)
          PROVE  Newest(old, row) = Latest(n) \/ OnItsWay(k)'
      BY <2>4, <3>1, <3>2, <3>3, <3>4, MergeIntoLatest DEF Complete
    <3>5. CASE hydrating[a]
      <4>1. rows' = rows /\ buffered'[a] = MergeRow(buffered[a], k, row)
        BY <1>1, <2>5, <2>7, <3>5 DEF TypeOK
      <4>2. /\ buffered[a] \in [Segment -> Row]
            /\ \A j \in Segment : buffered[a][j].rev <= agent[j]
        BY <1>1 DEF TypeOK, KnownInv
      <4>3. buffered'[a] = [buffered[a] EXCEPT ![k] = Newest(buffered[a][k], row)]
        BY <4>1 DEF MergeRow
      <4>4. ASSUME NEW j \in Segment, phase[a] = "up",
                   buffered'[a][j].rev = agent[j], agent[j] > 0, ~buffered'[a][j].full
            PROVE  OnItsWay(j)'
        <5>1. CASE j # k
          <6>1. buffered'[a][j] = buffered[a][j]
            BY <4>2, <4>3, <5>1
          <6>2. OnItsWay(j)
            BY <1>1, <2>7, <3>5, <4>4, <6>1 DEF BufferInv
          <6> QED BY <3>1, <5>1, <6>2
        <5>2. CASE j = k
          <6>1. buffered'[a][k] = Newest(buffered[a][k], row) /\ buffered[a][k] \in Row
            BY <3>3, <4>2, <4>3
          <6>2. CASE s.rev = n /\ row.full
            BY <2>4, <3>3, <4>2, <4>4, <5>2, <6>1, <6>2, LatestRow, MergeIntoLatest
          <6>3. CASE s.rev = n /\ ~row.full
            BY <3>2, <5>2, <6>3
          <6>4. CASE s.rev # n
            <7>1. buffered'[a][k] = buffered[a][k]
              BY <2>4, <4>4, <5>2, <6>1, <6>4, NewestIsNewer
            <7>2. OnItsWay(k)
              BY <1>1, <2>7, <3>5, <4>4, <5>2, <7>1 DEF BufferInv
            <7> QED BY <3>1, <5>2, <6>4, <7>2
          <6> QED BY <6>2, <6>3, <6>4
        <5> QED BY <5>1, <5>2
      <4>5. BufferInv'
        BY <2>1, <2>7, <4>4 DEF BufferInv
      <4>6. ASSUME NEW l \in loads[a], l.current, ~l.asked PROVE Covers(l)'
        <5>1. Covers(l)
          BY <1>1, <2>7, <4>6 DEF LoadInv
        <5>2. /\ l.snapshot \in [Segment -> Row]
              /\ \A j \in Segment : l.snapshot[j].rev <= agent[j]
          BY <1>1, LoadTypes DEF TypeOK, KnownInv
        <5>3. ASSUME NEW j \in Segment
              PROVE  MergeAll(l.snapshot, buffered'[a])[j] = Latest(agent[j]) \/ OnItsWay(j)'
          <6>1. Complete(MergeAll(l.snapshot, buffered[a])[j], j)
            BY <2>7, <5>1 DEF Covers
          <6>2. CASE j # k
            <7>1. buffered'[a][j] = buffered[a][j]
              BY <4>2, <4>3, <6>2
            <7>2. MergeAll(l.snapshot, buffered'[a])[j] = MergeAll(l.snapshot, buffered[a])[j]
              BY <7>1 DEF MergeAll
            <7> QED BY <3>1, <6>1, <6>2, <7>2 DEF Complete
          <6>3. CASE j = k
            <7>1. /\ MergeAll(l.snapshot, buffered[a])[k] = Latest(n) =>
                        \/ MergeAll(l.snapshot, buffered'[a])[k] = Latest(n)
                        \/ row.rev = n /\ ~row.full
                  /\ row.rev = n /\ row.full =>
                        MergeAll(l.snapshot, buffered'[a])[k] = Latest(n)
              BY <2>4, <3>3, <4>1, <4>2, <5>2, MergeIntoBuffer
            <7> QED BY <2>4, <3>1, <3>2, <6>1, <6>3, <7>1 DEF Complete
          <6> QED BY <6>2, <6>3
        <5> QED BY <2>1, <2>7, <4>1, <5>1, <5>3 DEF Covers, Complete
      <4>7. LoadInv'
        BY <1>1, <2>1, <2>7, <3>5, <4>6 DEF LoadInv
      <4>8. CaughtUpIsComplete'
        BY <1>1, <2>1, <2>7, <3>5 DEF StatusInv, CaughtUp, CaughtUpIsComplete, Running
      <4> QED BY <4>5, <4>7, <4>8 DEF HistoryInv
    <3>6. CASE ~hydrating[a]
      <4>1. rows' = MergeRow(rows, k, row) /\ buffered' = buffered
        BY <2>5, <2>7, <3>6
      <4>2. BufferInv' /\ LoadInv'
        BY <1>1, <2>1, <2>7, <3>6 DEF BufferInv, LoadInv
      <4>3. rows' = [rows EXCEPT ![k] = Newest(rows[k], row)]
        BY <4>1 DEF MergeRow
      <4>4. rows \in [Segment -> Row] /\ rows[k].rev <= n
        BY <1>1, <3>3 DEF TypeOK, KnownInv
      <4>5. ASSUME CaughtUp, NEW j \in Segment PROVE OnScreen(j)' \/ OnItsWay(j)'
        <5>1. Complete(rows[j], j)
          BY <1>1, <4>5 DEF CaughtUp, CaughtUpIsComplete, OnScreen, Complete, Latest
        <5>2. rows'[j] = Latest(agent[j]) \/ OnItsWay(j)'
          <6>1. CASE j = k
            <7>1. rows'[k] = Newest(rows[k], row)
              BY <3>3, <4>3, <4>4
            <7> QED BY <3>3, <3>4, <4>4, <5>1, <6>1, <7>1
          <6>2. CASE j # k
            <7>1. rows'[j] = rows[j]
              BY <4>3, <4>4, <6>2
            <7> QED BY <3>1, <5>1, <6>2, <7>1 DEF Complete
          <6> QED BY <6>1, <6>2
        <5> QED BY <2>1, <5>2 DEF OnScreen, Latest
      <4>6. CaughtUpIsComplete'
        BY <2>1, <4>5 DEF CaughtUpIsComplete, CaughtUp, Running
      <4> QED BY <4>2, <4>6 DEF HistoryInv
    <3> QED BY <3>5, <3>6
  <2> QED BY <2>6, <2>7
<1>16. ASSUME NEW a \in Attempt, NEW s \in wire[a], StreamBreaks(a, s) PROVE HistoryInv'
  <2>1. CASE room = a
    BY <1>3, <1>16, <2>1 DEF StreamBreaks, Retry, ReleaseRoom, CaughtUp
  <2>2. CASE room # a
    <3>1. \A x \in Attempt : x # a => wire'[x] = wire[x]
      BY <1>1, <1>16 DEF StreamBreaks, FunctionTypes
    <3>2. UNCHANGED <<effectVars, status, rows, room, phase, hydrating, buffered, loads, agent>>
      BY <1>16, <2>2 DEF StreamBreaks
    <3> QED BY <1>1, <1>6, <2>2, <3>1, <3>2 DEF TypeOK
  <2> QED BY <2>1, <2>2
<1>17. CASE UNCHANGED vars
  BY <1>6, <1>17 DEF vars, roomVars
<1> QED BY <1>4, <1>5, <1>7, <1>8, <1>9, <1>10, <1>11, <1>12, <1>13, <1>14, <1>15, <1>16, <1>17
     DEF Next, Attempts
-----------------------------------------------------------------------------
LEMMA InvariantHolds == Spec => []IInv
<1>1. Init => IInv
  <2> SUFFICES ASSUME Init PROVE IInv
    OBVIOUS
  <2> USE RowFields, NoneIsNoAttempt, RevisionsExist DEF Init
  <2>1. TypeOK
    <3>1. agent \in Snapshot
      BY DEF Snapshot
    <3>2. buffered \in [Attempt -> [Segment -> Row]]
      OBVIOUS
    <3> QED BY <3>1, <3>2 DEF TypeOK
  <2>2. FunctionTypes
    BY DEF FunctionTypes
  <2>3. OneDriver /\ NoLeakedRoom /\ StatusInv
    BY DEF OneDriver, NoLeakedRoom, StatusInv, CaughtUp, Running, Connected
  <2>4. SlotInv /\ OneCurrent /\ KnownInv
    BY DEF SlotInv, OneCurrent, KnownInv, NoRows, NoRow
  <2>5. BufferInv /\ LoadInv /\ CaughtUpIsComplete /\ ClearedStaysCleared
    BY DEF BufferInv, LoadInv, CaughtUpIsComplete, ClearedStaysCleared
  <2> QED BY <2>1, <2>2, <2>3, <2>4, <2>5 DEF IInv
<1>2. IInv /\ [Next]_vars => IInv'
  BY TypeInductive, ConnectionInductive, OneCurrentInductive, KnownInductive, HistoryInductive
  DEF IInv, ConnectionInv, HistoryInv
<1> QED BY <1>1, <1>2, PTL DEF Spec

(* An observed call is carried on by exactly one thing, the retry timer,   *)
(* the attempt that joins or the connection with its renewal timer, and no *)
(* connection outlives its room (LiveTranscript.tsx: retry, connect,       *)
(* releaseRoom).                                                           *)
THEOREM OneConnectionHolds == Spec => []OneConnection
<1>1. IInv => OneConnection
  BY DEF IInv, OneConnection
<1> QED BY <1>1, InvariantHolds, PTL

(* What is called caught up is complete, and the text of a call the user   *)
(* may not or no longer observe stays gone (hydrate, update, the stop).    *)
THEOREM TextIsTrueHolds == Spec => []TextIsTrue
<1>1. IInv => TextIsTrue
  BY DEF IInv, TextIsTrue
<1> QED BY <1>1, InvariantHolds, PTL

(* No step shows an older revision of a segment or takes back a final one, *)
(* unless it clears the transcript (mergeTranscript, hydrate).             *)
THEOREM NoStepRegresses == Spec => NeverRegresses
<1>1. IInv /\ [Next]_vars => [rows' = NoRows \/ \A k \in Segment : ~Regresses(k)]_vars
  <2> SUFFICES ASSUME IInv, Next PROVE rows' = NoRows \/ \A k \in Segment : ~Regresses(k)
    OBVIOUS
  <2>1. /\ TypeOK /\ LoadInv
        /\ \A row \in Row : row.rev \in 0..MaxRevision /\ row.full \in BOOLEAN
    BY RowFields DEF IInv
  <2>2. ASSUME rows' = rows, NEW k \in Segment PROVE ~Regresses(k)
    BY <2>1, <2>2, RevisionsExist DEF Regresses, TypeOK
  <2>3. ASSUME NEW a \in Attempt, NEW l \in loads[a], LoadReturns(a, l), NEW k \in Segment
        PROVE  ~Regresses(k)
    <3>1. CASE Valid(a, l)
      <4>1. rows' = MergeAll(l.snapshot, buffered[a]) /\ Covers(l)
        BY <2>1, <2>3, <3>1, NoneIsNoAttempt DEF LoadReturns, Valid, LoadInv
      <4>2. /\ l.snapshot[k] \in Row /\ buffered[a][k] \in Row /\ rows[k] \in Row
            /\ rows[k].rev <= l.snapshot[k].rev
            /\ l.snapshot[k].full = (l.snapshot[k].rev > 0)
        BY <2>1, <4>1, LoadTypes DEF Covers, TypeOK
      <4>3. IsFinal(rows[k]) => IsFinal(l.snapshot[k])
        BY <2>1, <4>2, RevisionsExist DEF IsFinal
      <4>4. /\ l.snapshot[k].rev <= rows'[k].rev
            /\ IsFinal(l.snapshot[k]) => IsFinal(rows'[k])
            /\ rows'[k] \in Row
        BY <2>1, <4>1, <4>2, NewestIsNewer, RevisionsExist DEF MergeAll
      <4> QED BY <2>1, <4>2, <4>3, <4>4, RevisionsExist DEF Regresses
    <3>2. CASE ~Valid(a, l)
      BY <2>2, <2>3, <3>2 DEF LoadReturns
    <3> QED BY <3>1, <3>2
  <2>4. ASSUME NEW a \in Attempt, NEW s \in wire[a], StreamChunk(a, s) \/ StreamEnds(a, s),
               NEW k \in Segment
        PROVE  ~Regresses(k)
    <3>1. s \in Stream
      BY <2>1 DEF TypeOK
    <3>2. PICK b \in BOOLEAN : Update(a, s.key, [rev |-> s.rev, full |-> b])
      BY <2>4 DEF StreamChunk, StreamEnds
    <3> DEFINE row == [rev |-> s.rev, full |-> b]
    <3>3. row \in Row /\ s.key \in Segment
      BY <3>1, StreamRow
    <3>4. rows' = rows \/ rows' = MergeRow(rows, s.key, row)
      BY <2>1, <3>2, <3>3, UpdateEffect
    <3> HIDE DEF row
    <3>5. ASSUME rows' = MergeRow(rows, s.key, row) PROVE ~Regresses(k)
      <4>1. rows'[k] = rows[k] \/ rows'[k] = Newest(rows[k], row)
        BY <2>1, <3>5 DEF MergeRow, TypeOK
      <4>2. rows[k] \in Row
        BY <2>1 DEF TypeOK
      <4> QED BY <2>1, <3>3, <4>1, <4>2, NewestIsNewer, RevisionsExist DEF Regresses
    <3> QED BY <2>2, <3>4, <3>5
  <2>5. ASSUME NEW a \in Attempt, Attempts(a) PROVE rows' = rows \/ rows' = NoRows
    BY <2>5 DEF Attempts, Observe, RetryTimerFires, ObserveStale, ObserveOk, ObserveDenied,
       AttemptFails, JoinStale, JoinOk, JoinWithoutAgent, Reconnecting, Reconnected, Disconnected
  <2>6. ASSUME \/ Stop \/ CallEnds \/ RenewTimerFires
               \/ \E k \in Segment : Revise(k)
               \/ \E a \in Attempt :
                    \/ \E l \in loads[a] : Freeze(a, l) \/ LoadFails(a, l)
                    \/ \E s \in wire[a] : StreamBreaks(a, s)
        PROVE  rows' = rows \/ rows' = NoRows
    BY <2>6 DEF Stop, CallEnds, RenewTimerFires, Revise, Freeze, LoadFails, StreamBreaks
  <2> QED BY <2>2, <2>3, <2>4, <2>5, <2>6 DEF Next
<1> QED BY <1>1, InvariantHolds, PTL DEF Spec, NeverRegresses
=============================================================================
