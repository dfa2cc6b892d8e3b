---------------------------- MODULE MCCallMedia ----------------------------
(***************************************************************************)
(* A small instance of CallMedia for TLC.                                  *)
(***************************************************************************)
EXTENDS CallMedia

Sessions ==
  { [mode |-> "ECHO", payloadType |-> 0],
    [mode |-> "AUDIOSOCKET", payloadType |-> 0],
    [mode |-> "AUDIOSOCKET", payloadType |-> 8],
    [mode |-> "GRPC", payloadType |-> 0] }

\* Both signs, both ends of the clamp, and what is beyond the lower one: one sample for
\* each byte that the run has.
Extremes == <<-32768, 85, -10923, 32767, -10922>>
=============================================================================
