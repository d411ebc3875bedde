-------------------------- MODULE MCLiveTranscript --------------------------
(* Small instances of LiveTranscript for TLC. *)
EXTENDS LiveTranscript, TLC

CONSTANTS a1, a2, hello, bye

OneSegment == {hello}
TwoSegments == {hello, bye}
TwoAttempts == {a1, a2}

Symmetric == Permutations(TwoAttempts) \cup Permutations(TwoSegments)
SymmetricAttempts == Permutations(TwoAttempts)
=============================================================================
