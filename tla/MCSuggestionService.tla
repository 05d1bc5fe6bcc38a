------------------------ MODULE MCSuggestionService ------------------------
(* Instances of SuggestionService for TLC.                                 *)
EXTENDS SuggestionService, TLC

CONSTANTS r1, r2, r3, f1, f2

Requests == {r1, r2, r3}
TwoRequests == {r1, r2}
OneFlusher == {f1}
TwoFlushers == {f1, f2}

Symmetry == Permutations(Requests)

=============================================================================
