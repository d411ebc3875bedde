----------------------------- MODULE Transcript -----------------------------
(***************************************************************************)
(* The rows of a live transcript (web/src/runtime/transcript.ts): one row  *)
(* per segment, replaced by later revisions of it.  A revision is streamed *)
(* chunk by chunk, so a row may hold only part of its text; the last       *)
(* revision of a segment is the final one, and is marked so when its       *)
(* stream ends.                                                            *)
(***************************************************************************)
EXTENDS Integers

CONSTANTS
    Segment,    \* segment ids (lk.segment_id)
    MaxRevision \* the revision (aida.sequence) that is final

ASSUME RevisionsExist == MaxRevision \in Nat \ {0}

Revision == 1..MaxRevision
Row == {row \in [rev: 0..MaxRevision, full: BOOLEAN] : row.full => row.rev > 0}
NoRow == [rev |-> 0, full |-> FALSE]
NoRows == [k \in Segment |-> NoRow]

IsFinal(row) == row.rev = MaxRevision /\ row.full

(* Fault: an older revision replaces a newer one. *)
NewestIgnoringSequence(old, row) ==
    IF IsFinal(old) /\ ~IsFinal(row) THEN old ELSE row

(* mergeTranscript on one segment: an older revision, or a partial one     *)
(* after the final, changes nothing.                                       *)
Newest(old, row) ==
    IF old.rev > row.rev \/ (IsFinal(old) /\ ~IsFinal(row)) THEN old ELSE row

MergeRow(rows, k, row) == [rows EXCEPT ![k] = Newest(@, row)]

(* buffered.reduce(mergeTranscript, history) *)
MergeAll(history, buffered) ==
    [k \in Segment |-> IF buffered[k] = NoRow THEN history[k]
                       ELSE Newest(history[k], buffered[k])]
=============================================================================
