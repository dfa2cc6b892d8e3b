---------------------------- MODULE MCCallGateway ----------------------------
(***************************************************************************)
(* Small instances of CallGateway for TLC.                                 *)
(***************************************************************************)
EXTENDS CallGateway, TLC

CONSTANTS c1, c2, s1, s2, s3, s4, p1, p2, p3, w1, w2

\* One worker serves every port, so that a port can move from one call to the
\* next under the eyes of the same worker.
OneWorker == [p \in Port |-> w1]
\* Two workers; the second serves p3 alone.
TwoWorkers == [p \in Port |-> IF p = p3 THEN w2 ELSE w1]

\* Calls and session objects are interchangeable.
CallSymmetry == Permutations({c1, c2}) \cup Permutations(Session)
=============================================================================
