--------------------------- MODULE MCHTTPHandler ---------------------------
(* Model values and symmetry for the runs of HTTPHandler. *)
EXTENDS HTTPHandler, TLC

CONSTANTS r1, r2

\* The requests of a run.
OneRequest == {r1}
TwoRequests == {r1, r2}

\* Requests are interchangeable; used by the runs without liveness.
Symmetry == Permutations(Requests)
=============================================================================
