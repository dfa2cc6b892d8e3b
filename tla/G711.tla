-------------------------------- MODULE G711 --------------------------------
(***************************************************************************)
(* G711Utils, sample by sample, and the gain of AudioSocketStage.          *)
(*                                                                         *)
(* Samples are int16_t.  A code is the byte on the wire up to a fixed      *)
(* permutation of the bytes that encoder and decoder share: the inversion  *)
(* of every bit in mu-law, of every second bit (^ 0x55) in A-law.  What    *)
(* is left is the sign, the segment and the four bits of the step.         *)
(***************************************************************************)
EXTENDS Integers

Lowest == -32768
Highest == 32767
Sample == Lowest .. Highest
Code == 0 .. 255

\* (int16_t)-x: the lowest number has no opposite.
Negated(x) == IF x = -32768 THEN x ELSE -x

\* The chain of comparisons: 8 segments, each twice as wide as the one before.
Segment(x) ==
  IF x < 256 THEN 0 ELSE IF x < 512 THEN 1 ELSE IF x < 1024 THEN 2
  ELSE IF x < 2048 THEN 3 ELSE IF x < 4096 THEN 4 ELSE IF x < 8192 THEN 5
  ELSE IF x < 16384 THEN 6 ELSE 7

\* 1 << seg
Power(seg) == <<1, 2, 4, 8, 16, 32, 64, 128>>[seg + 1]

AtMost(x, limit) == IF x > limit THEN limit ELSE x

\* linearToULaw, before its mask: the sign bit is set for negative samples.
LinearToULaw(pcm) ==
  LET biased == AtMost(IF pcm < 0 THEN Negated(pcm) ELSE pcm, 32635) + 132
      seg == Segment(biased)
      bits == 16 * seg + ((biased \div (8 * Power(seg))) % 16)
  IN  IF pcm < 0 THEN bits + 128 ELSE bits

\* ulawToLinear, after its mask.
ULawToLinear(code) ==
  LET t == ((code % 16) * 8 + 132) * Power((code \div 16) % 8)
  IN  IF code >= 128 THEN 132 - t ELSE t - 132

\* linearToALaw, before ^ 0x55: the sign bit is set for samples that are not
\* negative.
LinearToALaw(pcm) ==
  LET magnitude == AtMost(IF pcm < 0 THEN Negated(pcm) ELSE pcm, 32767)
      seg == Segment(magnitude)
      step == IF seg < 2 THEN 16 ELSE 8 * Power(seg)
      bits == 16 * seg + ((magnitude \div step) % 16)
  IN  IF pcm < 0 THEN bits ELSE bits + 128

\* alawToLinear, after ^ 0x55.
ALawToLinear(code) ==
  LET seg == (code \div 16) % 8
      low == (code % 16) * 16
      t == IF seg = 0 THEN low + 8 ELSE (low + 264) * Power(seg - 1)
  IN  IF code >= 128 THEN t ELSE -t

\* AudioSocketStage: three times as loud, clamped to int16_t.
Gain(sample) ==
  LET val == 3 * sample
  IN  IF val > 32767 THEN 32767 ELSE IF val < -32768 THEN -32768 ELSE val

\* The stage's choice of codec: payload type 0 is mu-law, anything else A-law.
Encode(payloadType, pcm) ==
  IF payloadType = 0 THEN LinearToULaw(pcm) ELSE LinearToALaw(pcm)
Decode(payloadType, code) ==
  IF payloadType = 0 THEN ULawToLinear(code) ELSE ALawToLinear(code)

\* Half the width of the step that a sample is rounded to, which doubles from segment
\* to segment; mu-law clips what its bias would lift out of the last one.
Magnitude(x) == IF x < 0 THEN -x ELSE x
Clipped(payloadType, x) ==
  IF payloadType = 0 THEN AtMost(Magnitude(x), 32635) ELSE Magnitude(x)
HalfStep(payloadType, x) ==
  LET c == Clipped(payloadType, x)
  IN  IF payloadType = 0 THEN 4 * Power(Segment(c + 132))
      ELSE IF c < 256 THEN 8 ELSE 4 * Power(Segment(c))

\* A decoded sample is as near as its code can be to the one that was encoded: it has
\* its sign, or is silent, and a magnitude in the middle of the same step.
IsCloseTo(payloadType, heard, said) ==
  /\ Magnitude(Magnitude(heard) - Clipped(payloadType, said)) <= HalfStep(payloadType, said)
  /\ IF said < 0 THEN heard <= 0 ELSE heard >= 0
=============================================================================
