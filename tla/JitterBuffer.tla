---------------------------- MODULE JitterBuffer ----------------------------
(***************************************************************************)
(* JitterBuffer, and a network that loses, duplicates and reorders packets *)
(* a little on their way to it.                                            *)
(*                                                                         *)
(* A packet is named by its place in the stream, 0, 1, 2, ...; the buffer  *)
(* sees only its sequence number, which starts anywhere and wraps.  push   *)
(* and pop are one critical section each; CallMedia is what calls them.    *)
(***************************************************************************)
EXTENDS Integers, Sequences, SequencesExt

CONSTANTS
  Modulus,     \* sequence numbers are taken modulo this: 65536
  FirstNumber, \* sequence number of the first packet
  TargetSize,  \* JitterBuffer::TARGET_SIZE: 5
  Pushers,     \* how many threads may push before one of them pops
  Reorder,     \* how many later packets can overtake a packet
  Burst,       \* how many packets in a row can be lost
  StreamLen    \* bound on the length of the stream

ASSUME SizeAssumption ==
  /\ {FirstNumber, Reorder, Burst, StreamLen} \subseteq Nat
  /\ TargetSize \in Nat \ {0} /\ Pushers \in Nat \ {0}
  /\ Modulus \in Nat \ {0} /\ Modulus % 2 = 0 /\ FirstNumber < Modulus

\* The most that the buffer holds.
Held == TargetSize + Pushers - 1

\* The network keeps to what the buffer is made for: nothing is overtaken by more
\* packets than the buffer holds back, and what is in the buffer or arrives spans
\* less than half of the sequence numbers.
ASSUME NetworkAssumption ==
  /\ Reorder < TargetSize
  /\ (Burst + 1) * Held + Reorder < Modulus \div 2

Packet == 0 .. StreamLen - 1

VARIABLES
  buffer,    \* JitterBuffer::buffer_
  received,  \* packets that have arrived at least once
  played     \* what pop has returned, in order

jitterVars == <<buffer, received, played>>

JitterOK ==
  /\ buffer \in Seq(Packet)
  /\ received \subseteq Packet
  /\ played \in Seq(Packet)

JitterInit ==
  /\ buffer = <<>>
  /\ received = {}
  /\ played = <<>>

-----------------------------------------------------------------------------

\* RtpPacket::getSequenceNumber
NumberOf(n) == (FirstNumber + n) % Modulus

\* Mutant: numbers are compared without regard to wrapping.
NotAfterPlain(n, m) == NumberOf(n) <= NumberOf(m)

\* (uint16_t)(cur - seq) < 32768: n is m or comes before it.
NotAfter(n, m) == (NumberOf(m) - NumberOf(n)) % Modulus < Modulus \div 2

\* The loop of push: n goes before the first packet that does not precede it,
\* unless that packet is n.
Insert(b, n) ==
  LET later == {i \in DOMAIN b : NotAfter(n, b[i])}
  IN  IF later = {} THEN Append(b, n)
      ELSE IF NumberOf(b[Min(later)]) = NumberOf(n) THEN b
      ELSE InsertAt(b, Min(later), n)

Newest == IF received = {} THEN -1 ELSE Max(received)

\* The network (external): a packet comes after at most Burst losses and is
\* overtaken by at most Reorder packets, a second copy of it by one fewer.
CanArrive(n) ==
  /\ n <= Newest + Burst + 1
  /\ IF n \in received THEN n + Reorder > Newest ELSE n + Reorder >= Newest

\* push, of a packet that the network delivers.
Push(n) ==
  /\ CanArrive(n)
  /\ buffer' = Insert(buffer, n)
  /\ received' = received \cup {n}
  /\ UNCHANGED played

\* Mutant: the buffer is drained to one packet less.
IsFullEarly == Len(buffer) >= TargetSize - 1

\* Mutant: the buffer keeps TargetSize packets.
IsFullLate == Len(buffer) > TargetSize

IsFull == Len(buffer) >= TargetSize

\* pop, when it returns a packet; otherwise it changes nothing.
Pop ==
  /\ IsFull
  /\ played' = Append(played, Head(buffer))
  /\ buffer' = Tail(buffer)
  /\ UNCHANGED received

-----------------------------------------------------------------------------
(* Properties.                                                             *)

\* Packets are played in the order they were sent and none is played twice,
\* across the wrap of the sequence number and whatever the workers do.
PlayedInOrder ==
  \A i, j \in DOMAIN played : i < j => played[i] < played[j]

\* The buffer is a window of fixed depth over the stream: the comparison of
\* wrapping numbers puts packets in the order of the stream.
Window == INSTANCE PlayoutWindow WITH
  Depth <- TargetSize, window <- ToSet(buffer), played <- played
IsPlayoutWindow == Window!Spec
=============================================================================
