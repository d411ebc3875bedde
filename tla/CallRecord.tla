----------------------------- MODULE CallRecord -----------------------------
(***************************************************************************)
(* What the browser derives from OfficePulse's durable events of one call  *)
(* (web/src/runtime/callState.ts and handsetTakeover.ts): the phase, who   *)
(* is on the call, why the last attempt failed, whether the record has a   *)
(* gap, and the handset that took the call over.                           *)
(*                                                                         *)
(* A record maps sequence numbers to events; None where OfficePulse has    *)
(* no event (yet).  An event's payload is a reason, or for                 *)
(* takeover-requested a device, or None.                                   *)
(***************************************************************************)
EXTENDS SequencesExt, Naturals

CONSTANTS
    Event,      \* the events OfficePulse may record: a type, and a payload or None
    MaxEvents,  \* bound on the sequence numbers of a record
    None

ASSUME EventsHavePayloads == \A event \in Event : DOMAIN event = {"type", "payload"}

Record == [1..MaxEvents -> Event \cup {None}]
Blank == [n \in 1..MaxEvents |-> None]
Phase == {"unknown", "bootstrapping", "screening", "fallback",
          "takeover-ringing", "human-connected", "ended"}

EmptyView == [phase |-> "unknown", failure |-> None, aida |-> FALSE,
              human |-> FALSE, timeline |-> <<>>, highest |-> 0, gap |-> FALSE]

(* detailOf: the reason, if the payload has one. *)
DetailOf(type, payload) ==
    IF type = "takeover-requested" THEN None ELSE payload

(* The reason recorded, or the event's own name. *)
Because(reason, type) == IF reason # None THEN reason ELSE type

ApplyEvent(view, type, reason) ==
    CASE type = "bootstrapped" ->
            [view EXCEPT !.phase = "bootstrapping", !.aida = FALSE]
      [] type \in {"screening-started", "aida-connected"} ->
            [view EXCEPT !.phase = IF view.human THEN "human-connected" ELSE "screening",
                         !.aida = TRUE]
      [] type = "fallback" ->
            [view EXCEPT !.phase = "fallback", !.aida = FALSE,
                         !.failure = Because(reason, type)]
      [] type \in {"takeover-requested", "ringing"} ->
            [view EXCEPT !.phase = "takeover-ringing"]
      [] type \in {"answered", "bridged"} ->
            [view EXCEPT !.phase = "human-connected", !.human = TRUE, !.failure = None]
      [] type = "aida-drained" -> [view EXCEPT !.aida = FALSE]
      [] type = "aida-lost" ->
            [view EXCEPT !.aida = FALSE, !.failure = Because(reason, type),
                         !.phase = IF view.human THEN @ ELSE "fallback"]
      [] type = "takeover-failed" ->
            [view EXCEPT !.phase = IF view.aida THEN "screening" ELSE "fallback",
                         !.failure = Because(reason, type)]
      [] type = "human-hangup" -> [view EXCEPT !.human = FALSE]
      [] type \in {"hangup", "livekit.room_finished"} ->
            [view EXCEPT !.phase = "ended", !.aida = FALSE, !.human = FALSE]
      [] OTHER -> view

ApplyEntry(view, entry) == ApplyEvent(view, entry.type, entry.detail)
Entry(seq, event) ==
    [seq |-> seq, type |-> event.type, detail |-> DetailOf(event.type, event.payload)]
Seen(view) == {view.timeline[i].seq : i \in DOMAIN view.timeline}

(* Fault: an older event is applied like the latest one. *)
ReduceInArrivalOrder(view, arrival) ==
    IF arrival.seq \in Seen(view) THEN view
    ELSE LET timeline == SortSeq(Append(view.timeline, Entry(arrival.seq, arrival.event)),
                                 LAMBDA a, b : a.seq < b.seq)
             highest == IF arrival.seq > view.highest THEN arrival.seq ELSE view.highest
         IN  [ApplyEntry(view, Entry(arrival.seq, arrival.event))
                  EXCEPT !.timeline = timeline, !.highest = highest,
                         !.gap = Len(timeline) < highest]

(* reduceEvent: a known sequence number changes nothing; the latest event  *)
(* is applied to the view; an older one rebuilds the view from the start.  *)
ReduceEvent(view, arrival) ==
    IF arrival.seq \in Seen(view) THEN view
    ELSE LET timeline == SortSeq(Append(view.timeline, Entry(arrival.seq, arrival.event)),
                                 LAMBDA a, b : a.seq < b.seq)
             highest == IF arrival.seq > view.highest THEN arrival.seq ELSE view.highest
             basis == IF Last(timeline).seq = arrival.seq
                      THEN ApplyEntry(view, Last(timeline))
                      ELSE FoldLeft(ApplyEntry, EmptyView, timeline)
         IN  [basis EXCEPT !.timeline = timeline, !.highest = highest,
                           !.gap = Len(timeline) < highest]

Recorded(events) == {n \in DOMAIN events : events[n] # None}
InOrder(events) == SetToSortSeq(Recorded(events), <)

(* reduceEvents: the views the reducer may make of a record whose events   *)
(* arrive in any order, and then perhaps one of them again.                *)
Views(events) ==
    LET Reduced(views, n) == {ReduceEvent(view, [seq |-> n, event |-> events[n]]) : view \in views}
        after[arrived \in SUBSET Recorded(events)] ==
            IF arrived = {} THEN {EmptyView}
            ELSE UNION {Reduced(after[arrived \ {n}], n) : n \in arrived}
        all == after[Recorded(events)]
    IN  all \cup UNION {Reduced(all, n) : n \in Recorded(events)}

(* What the view of a record should be, whatever order it arrived in.      *)
ViewOf(events) ==
    LET order == InOrder(events)
        told == FoldLeft(LAMBDA v, n : ApplyEntry(v, Entry(n, events[n])), EmptyView, order)
    IN  [told EXCEPT !.timeline = [i \in DOMAIN order |-> Entry(order[i], events[order[i]])],
                     !.highest = IF order = <<>> THEN 0 ELSE Last(order),
                     !.gap = order # <<>> /\ Recorded(events) # 1..Last(order)]

-----------------------------------------------------------------------------
(* handsetTakeoverExtension: the device of the last bridge, walking the    *)
(* record in order; a command answered at once stands by itself.           *)

(* Fault: a takeover that failed stays pending. *)
WalkPastFailures(state, event) ==
    CASE event.type = "takeover-requested" -> [state EXCEPT !.pending = event.payload]
      [] event.type = "bridged" -> [pending |-> None, completed |-> state.pending]
      [] OTHER -> state

Walk(state, event) ==
    CASE event.type = "takeover-requested" -> [state EXCEPT !.pending = event.payload]
      [] event.type = "bridged" -> [pending |-> None, completed |-> state.pending]
      [] event.type \in {"takeover-failed", "fallback", "hangup"} ->
            [state EXCEPT !.pending = None]
      [] OTHER -> state

CompletedDevice(events) ==
    FoldLeft(LAMBDA s, n : Walk(s, events[n]),
             [pending |-> None, completed |-> None], InOrder(events)).completed

TakenOverBy(commands, events) ==
    LET counts(c) == /\ c.device # None
                     /\ \/ c.device = CompletedDevice(events)
                        \/ c.status = "completed" /\ c.answered
        answered == {i \in DOMAIN commands : counts(commands[i])}
    IN  IF answered = {} THEN None
        ELSE commands[CHOOSE i \in answered : \A j \in answered : i <= j].device
=============================================================================
