---------------------------- MODULE PlayoutWindow ----------------------------
(***************************************************************************)
(* What a jitter buffer of fixed depth promises, with packets named by     *)
(* their place in the stream: it holds back a few packets and plays the    *)
(* earliest one it holds as soon as it holds Depth of them.                *)
(***************************************************************************)
EXTENDS Naturals, FiniteSets, Sequences

CONSTANT Depth

VARIABLES window, played

Earliest == CHOOSE n \in window : \A m \in window : n <= m

Init == window = {} /\ played = <<>>

Arrive == \E n \in window' :
  /\ window' = window \cup {n}
  /\ UNCHANGED played

Play ==
  /\ Cardinality(window) >= Depth
  /\ played' = Append(played, Earliest)
  /\ window' = window \ {Earliest}

Next == Arrive \/ Play

Spec == Init /\ [][Next]_<<window, played>>
=============================================================================
