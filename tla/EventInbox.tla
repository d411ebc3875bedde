----------------------------- MODULE EventInbox -----------------------------
(***************************************************************************)
(* What the Identity event inbox promises: an event is processed once and  *)
(* in any order, acknowledged only when it is processed, and the replay    *)
(* cursor moves forward over processed events only.                        *)
(*                                                                         *)
(* That is the contract server/src/id/event-store.ts gives the MySQL store *)
(* of production, whose cursor is "advanced only by ordered replay, never  *)
(* by potentially out-of-order webhooks" (:32).  The same file also lists  *)
(* "advance the checkpoint" as a part of process() (:21), which the        *)
(* in-memory store of the tests does (:57) and the MySQL store does not;   *)
(* IdentityEvents states that reading as CheckpointAdvances, and it fails. *)
(***************************************************************************)
EXTENDS Integers

CONSTANT MaxEventId
EventId == 1..MaxEventId

VARIABLES
    published,  \* the ids in Identity's log
    processed,  \* the events durably processed
    acked,      \* the events Identity was answered 2xx for
    cursor      \* every published event up to here is processed

vars == <<published, processed, acked, cursor>>

Init == published = {} /\ processed = {} /\ acked = {} /\ cursor = 0

Publish(e) ==
    /\ \A f \in published : f < e
    /\ published' = published \cup {e}
    /\ UNCHANGED <<processed, acked, cursor>>

(* Several at once when a crash takes their transactions past the commit.  *)
(* The cursor stays where ordered replay left it.                          *)
Apply(es) ==
    /\ es # {}
    /\ es \subseteq published \ processed
    /\ processed' = processed \cup es
    /\ UNCHANGED <<published, acked, cursor>>

Acknowledge(e) ==
    /\ e \in processed
    /\ acked' = acked \cup {e}
    /\ UNCHANGED <<published, processed, cursor>>

Advance(c) ==
    /\ c > cursor
    /\ \A e \in published : e <= c => e \in processed
    /\ \E e \in published : c = e
    /\ cursor' = c
    /\ UNCHANGED <<published, processed, acked>>

Next ==
    \/ \E e \in EventId : Publish(e) \/ Acknowledge(e) \/ Advance(e)
    \/ \E es \in SUBSET EventId : Apply(es)

Spec == Init /\ [][Next]_vars
=============================================================================
