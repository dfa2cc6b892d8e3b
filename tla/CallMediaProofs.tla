--------------------------- MODULE CallMediaProofs ---------------------------
(***************************************************************************)
(* The media of a call.  First the parts, each for every value of its      *)
(* constants: JitterBuffer for every stream and every network that keeps   *)
(* to NetworkAssumption, DownlinkBuffer for every capacity and size of a   *)
(* frame, and G711 for each of the 65536 samples.  Then the whole, for any *)
(* number of workers, any stream and any audio: what holds of the buffers  *)
(* holds in the hands of the workers.                                      *)
(***************************************************************************)
EXTENDS CallMedia, SequenceTheorems, FunctionTheorems, FiniteSetTheorems,
        WellFoundedInduction, TLAPS

-----------------------------------------------------------------------------
(* JitterBuffer: remainders.                                               *)

\* The only multiple of M between -M and M is 0.
LEMMA Multiple ==
  ASSUME NEW M \in Nat \ {0}, NEW k \in Int, -M < M * k, M * k < M
  PROVE  k = 0
<1>1. CASE k >= 1
  <2>1. M * k >= M
    BY <1>1
  <2> QED  BY <2>1
<1>2. CASE k <= -1
  <2>1. M * k <= -M
    BY <1>2
  <2> QED  BY <2>1
<1> QED  BY <1>1, <1>2

\* Division with remainder.
LEMMA DivMod ==
  ASSUME NEW M \in Nat \ {0}, NEW x \in Int
  PROVE  /\ x % M \in Nat /\ x % M < M /\ x \div M \in Int
         /\ x = M * (x \div M) + (x % M)
OBVIOUS

\* There is one remainder.
LEMMA Remainder ==
  ASSUME NEW M \in Nat \ {0}, NEW q \in Int, NEW r \in Nat, r < M,
         NEW x, x = M * q + r
  PROVE  x % M = r
<1>1. x \in Int /\ M * q \in Int
  OBVIOUS
<1>2. PICK p \in Int, s \in Nat : s < M /\ x = M * p + s /\ x % M = s
  BY <1>1, DivMod
<1>3. M * (p - q) = r - s
  <2>1. M * (p - q) = M * p - M * q
    OBVIOUS
  <2> QED  BY <1>1, <1>2, <2>1
<1>4. p - q = 0
  <2>1. -M < M * (p - q) /\ M * (p - q) < M /\ p - q \in Int
    BY <1>2, <1>3
  <2> QED  BY <2>1, Multiple
<1>5. p = q
  BY <1>4
<1> QED  BY <1>1, <1>2, <1>5

\* The difference of two remainders is that of the numbers.
LEMMA Difference ==
  ASSUME NEW M \in Nat \ {0}, NEW x \in Int, NEW y \in Int
  PROVE  ((y % M) - (x % M)) % M = (y - x) % M
<1>1. PICK p \in Int, s \in Nat : s < M /\ x = M * p + s /\ x % M = s
  BY DivMod
<1>2. PICK q \in Int, t \in Nat : t < M /\ y = M * q + t /\ y % M = t
  BY DivMod
<1>3. PICK k \in Int, r \in Nat : r < M /\ t - s = M * k + r /\ (t - s) % M = r
  <2>1. t - s \in Int
    OBVIOUS
  <2> QED  BY <2>1, DivMod
<1>4. y - x = M * (q - p + k) + r
  <2>1. M * (q - p + k) = M * q - M * p + M * k
    OBVIOUS
  <2>2. M * q \in Int /\ M * p \in Int /\ M * k \in Int
    OBVIOUS
  <2> QED  BY <1>1, <1>2, <1>3, <2>1, <2>2
<1>5. (y - x) % M = r
  <2>1. q - p + k \in Int
    OBVIOUS
  <2> QED  BY <1>3, <1>4, <2>1, Remainder
<1> QED  BY <1>1, <1>2, <1>3, <1>5

\* Of two numbers less than half of the modulus apart, the comparison of the
\* remainders finds the later one.
LEMMA HalfModulus ==
  ASSUME NEW M \in Nat \ {0}, NEW d \in Int, -(M \div 2) < d, d < M \div 2
  PROVE  d % M < M \div 2 <=> 0 <= d
<1>1. M \div 2 \in Nat /\ 2 * (M \div 2) <= M
  OBVIOUS
<1>2. CASE 0 <= d
  <2>1. d \in Nat /\ d < M /\ d = M * 0 + d
    BY <1>1, <1>2
  <2>2. d % M = d
    BY <2>1, Remainder
  <2> QED  BY <1>2, <2>2
<1>3. CASE d < 0
  <2>1. d + M \in Nat /\ d + M < M /\ d = M * (-1) + (d + M)
    BY <1>1, <1>3
  <2>2. d % M = d + M
    BY <2>1, Remainder
  <2> QED  BY <1>1, <1>3, <2>2
<1> QED  BY <1>2, <1>3

-----------------------------------------------------------------------------
(* Places in the stream.                                                   *)

Half == Modulus \div 2

\* Less than half of the numbers apart.
IsNearTo(n, m) == -Half < m - n /\ m - n < Half

\* What is assumed of the constants, fact by fact.
LEMMA JitterConstants ==
  /\ Modulus \in Nat \ {0} /\ TargetSize \in Nat \ {0}
  /\ FirstNumber \in Nat /\ Reorder \in Nat /\ Burst \in Nat /\ StreamLen \in Nat
  /\ Reorder < TargetSize /\ Half \in Nat
  /\ Pushers \in Nat \ {0} /\ Held \in Nat /\ Held = TargetSize + Pushers - 1
  /\ (Burst + 1) * Held + Reorder < Half
BY SizeAssumption, NetworkAssumption DEF Half, Held

\* (uint16_t)(cur - seq) < 32768 is the order of the stream.
LEMMA NotAfterIsOrder ==
  ASSUME NEW n \in Nat, NEW m \in Nat, IsNearTo(n, m)
  PROVE  NotAfter(n, m) <=> n <= m
<1>1. (NumberOf(m) - NumberOf(n)) % Modulus = (m - n) % Modulus
  <2>1. (FirstNumber + m) - (FirstNumber + n) = m - n
    BY JitterConstants
  <2>2. FirstNumber + m \in Int /\ FirstNumber + n \in Int
    BY JitterConstants
  <2>3. (((FirstNumber + m) % Modulus) - ((FirstNumber + n) % Modulus)) % Modulus
        = ((FirstNumber + m) - (FirstNumber + n)) % Modulus
    BY <2>2, JitterConstants, Difference, Zenon
  <2> QED  BY <2>1, <2>3, Zenon DEF NumberOf
<1>2. m - n \in Int /\ -(Modulus \div 2) < m - n /\ m - n < Modulus \div 2
  BY DEF IsNearTo, Half
<1>3. (m - n) % Modulus < Modulus \div 2 <=> 0 <= m - n
  BY <1>2, JitterConstants, HalfModulus
<1> QED  BY <1>1, <1>3 DEF NotAfter

\* Near packets with the same number are the same.
LEMMA NumberIsName ==
  ASSUME NEW n \in Nat, NEW m \in Nat, IsNearTo(n, m), NumberOf(n) = NumberOf(m)
  PROVE  n = m
<1>1. NumberOf(n) \in Int /\ NumberOf(n) - NumberOf(n) = 0
  BY JitterConstants DEF NumberOf
<1>2. 0 % Modulus = 0
  <2>1. 0 = Modulus * 0 + 0 /\ 0 < Modulus
    BY JitterConstants
  <2> QED  BY <2>1, JitterConstants, Remainder
<1>3. 0 < Half /\ IsNearTo(m, n)
  BY JitterConstants DEF IsNearTo
<1>4. NotAfter(n, m) /\ NotAfter(m, n)
  BY <1>1, <1>2, <1>3 DEF NotAfter, Half
<1>5. n <= m /\ m <= n
  BY <1>3, <1>4, NotAfterIsOrder
<1> QED  BY <1>5

\* Every set of numbers that is not empty has a least one ...
LEMMA LeastExists ==
  ASSUME NEW S \in SUBSET Nat, S # {}
  PROVE  Min(S) \in S /\ \A x \in S : Min(S) <= x
<1> DEFINE Less == {p \in Nat \X Nat : p[1] < p[2]}
<1>1. IsWellFoundedOn(Less, Nat)
  BY NatLessThanWellFounded DEF OpToRel
<1> HIDE DEF Less
<1>2. PICK x \in S : \A y \in S : ~(<<y, x>> \in Less)
  BY <1>1, WFMin
<1>3. \A y \in S : x <= y
  <2> SUFFICES ASSUME NEW y \in S, y < x  PROVE FALSE
    OBVIOUS
  <2>1. <<y, x>> \in Less
    BY DEF Less
  <2> QED  BY <1>2, <2>1
<1> QED  BY <1>3 DEF Min

\* ... and if it is bounded a greatest one.
LEMMA GreatestExists ==
  ASSUME NEW bound \in Nat, NEW S \in SUBSET (0 .. bound), S # {}
  PROVE  Max(S) \in S /\ \A x \in S : x <= Max(S)
<1> DEFINE T == {bound - x : x \in S}
<1>1. T \in SUBSET Nat /\ T # {}
  OBVIOUS
<1>2. Min(T) \in T /\ \A y \in T : Min(T) <= y
  BY <1>1, LeastExists
<1>3. PICK x \in S : Min(T) = bound - x
  BY <1>2
<1>4. \A y \in S : y <= x
  <2> SUFFICES ASSUME NEW y \in S  PROVE y <= x
    OBVIOUS
  <2>1. bound - y \in T
    OBVIOUS
  <2>2. bound - x <= bound - y
    BY <1>2, <1>3, <2>1
  <2> QED  BY <2>2
<1> QED  BY <1>4 DEF Max

-----------------------------------------------------------------------------
(* push.                                                                   *)

\* Sorted, and so that what lies between two packets counts.
IsStream(b) ==
  \A i, j \in 1 .. Len(b) : i <= j => j - i <= b[j] - b[i]

\* c is b with n at its place.
IsInserted(b, n, pos, c) ==
  /\ pos \in 1 .. Len(b) + 1
  /\ c \in Seq(Packet) /\ Len(c) = Len(b) + 1 /\ c[pos] = n
  /\ \A i \in 1 .. Len(b) :
       IF i < pos THEN b[i] < n /\ c[i] = b[i] ELSE n < b[i] /\ c[i + 1] = b[i]

\* What is in a buffer.
LEMMA Entries ==
  ASSUME NEW b \in Seq(Packet)
  PROVE  /\ Len(b) \in Nat /\ DOMAIN b = 1 .. Len(b)
         /\ \A i \in 1 .. Len(b) : b[i] \in Packet /\ b[i] \in Nat
<1>1. \A i \in 1 .. Len(b) : b[i] \in Packet
  BY ElementOfSeq
<1>2. \A n \in Packet : n \in Nat
  BY JitterConstants DEF Packet
<1> QED  BY <1>1, <1>2

\* InsertAt moves what is behind.
LEMMA InsertAtPlace ==
  ASSUME NEW b \in Seq(Packet), NEW n \in Packet, NEW pos \in 1 .. Len(b)
  PROVE  /\ InsertAt(b, pos, n) \in Seq(Packet)
         /\ Len(InsertAt(b, pos, n)) = Len(b) + 1
         /\ InsertAt(b, pos, n)[pos] = n
         /\ \A i \in 1 .. Len(b) :
              IF i < pos THEN InsertAt(b, pos, n)[i] = b[i]
                         ELSE InsertAt(b, pos, n)[i + 1] = b[i]
<1> DEFINE s == SubSeq(b, 1, pos - 1)
<1> DEFINE t == SubSeq(b, pos, Len(b))
<1>1. Len(b) \in Nat /\ \A i \in 1 .. Len(b) : b[i] \in Packet
  BY ElementOfSeq
<1>2. /\ s \in Seq(Packet) /\ Len(s) = pos - 1
      /\ \A i \in 1 .. pos - 1 : s[i] = b[i]
  <2>1. \A i \in 1 .. pos - 1 : b[i] \in Packet
    BY <1>1
  <2>2. 1 \in Int /\ pos - 1 \in Int
    OBVIOUS
  <2>3. /\ s \in Seq(Packet) /\ Len(s) = IF 1 <= pos - 1 THEN pos - 1 - 1 + 1 ELSE 0
        /\ \A i \in 1 .. pos - 1 - 1 + 1 : s[i] = b[1 + i - 1]
    BY <2>1, <2>2, SubSeqProperties
  <2> HIDE DEF s
  <2> QED  BY <2>3
<1>3. /\ t \in Seq(Packet) /\ Len(t) = Len(b) - pos + 1
      /\ \A i \in 1 .. Len(b) - pos + 1 : t[i] = b[pos + i - 1]
  <2>1. \A i \in pos .. Len(b) : b[i] \in Packet
    BY <1>1
  <2>2. pos \in Int /\ Len(b) \in Int /\ pos <= Len(b)
    BY <1>1
  <2> QED  BY <2>1, <2>2, SubSeqProperties
<1>4. InsertAt(b, pos, n) = (s \o <<n>>) \o t
  BY DEF InsertAt
<1> HIDE DEF s, t
<1>5. /\ s \o <<n>> \in Seq(Packet) /\ Len(s \o <<n>>) = pos
      /\ \A i \in 1 .. pos : (s \o <<n>>)[i] = IF i < pos THEN b[i] ELSE n
  <2>1. <<n>> \in Seq(Packet) /\ Len(<<n>>) = 1 /\ <<n>>[1] = n
    OBVIOUS
  <2>2. /\ s \o <<n>> \in Seq(Packet) /\ Len(s \o <<n>>) = Len(s) + Len(<<n>>)
        /\ \A i \in 1 .. Len(s) + Len(<<n>>) :
             (s \o <<n>>)[i] = IF i <= Len(s) THEN s[i] ELSE <<n>>[i - Len(s)]
    BY <1>2, <2>1, ConcatProperties
  <2> QED  BY <1>2, <2>1, <2>2
<1> DEFINE u == s \o <<n>>
<1> HIDE DEF u
<1>6. /\ u \in Seq(Packet) /\ Len(u) = pos
      /\ \A i \in 1 .. pos : u[i] = IF i < pos THEN b[i] ELSE n
  BY <1>5 DEF u
<1>7. /\ u \o t \in Seq(Packet) /\ Len(u \o t) = Len(u) + Len(t)
      /\ \A i \in 1 .. Len(u) + Len(t) :
           (u \o t)[i] = IF i <= Len(u) THEN u[i] ELSE t[i - Len(u)]
  BY <1>3, <1>6, ConcatProperties
<1>8. InsertAt(b, pos, n) = u \o t
  BY <1>4 DEF u
<1>9. ASSUME NEW i \in 1 .. Len(b)
      PROVE  IF i < pos THEN (u \o t)[i] = b[i] ELSE (u \o t)[i + 1] = b[i]
  <2>1. CASE i < pos
    <3>1. i \in 1 .. pos /\ i \in 1 .. Len(u) + Len(t) /\ i <= Len(u)
      BY <1>1, <1>3, <1>6, <2>1
    <3> QED  BY <1>6, <1>7, <2>1, <3>1
  <2>2. CASE ~(i < pos)
    <3>1. i + 1 \in 1 .. Len(u) + Len(t) /\ ~(i + 1 <= Len(u))
          /\ i + 1 - Len(u) \in 1 .. Len(b) - pos + 1 /\ pos + (i + 1 - Len(u)) - 1 = i
      BY <1>1, <1>3, <1>6, <2>2
    <3>2. (u \o t)[i + 1] = t[i + 1 - Len(u)]
      BY <1>7, <3>1
    <3>3. t[i + 1 - Len(u)] = b[pos + (i + 1 - Len(u)) - 1]
      BY <1>3, <3>1
    <3> QED  BY <2>2, <3>1, <3>2, <3>3
  <2> QED  BY <2>1, <2>2
<1>10. (u \o t)[pos] = n /\ Len(u \o t) = Len(b) + 1
  BY <1>1, <1>3, <1>6, <1>7
<1> QED  BY <1>7, <1>8, <1>9, <1>10

\* The loop of push finds the place of a packet that is near all others, and knows
\* a packet that is there already.
LEMMA InsertShape ==
  ASSUME NEW b \in Seq(Packet), IsStream(b), NEW n \in Packet,
         \A i \in 1 .. Len(b) : IsNearTo(n, b[i])
  PROVE  \/ Insert(b, n) = b /\ \E i \in 1 .. Len(b) : b[i] = n
         \/ \E pos \in 1 .. Len(b) + 1 : IsInserted(b, n, pos, Insert(b, n))
<1> DEFINE later == {i \in DOMAIN b : NotAfter(n, b[i])}
<1>1. Len(b) \in Nat /\ DOMAIN b = 1 .. Len(b) /\ n \in Nat
      /\ \A i \in 1 .. Len(b) : b[i] \in Packet /\ b[i] \in Nat
  BY Entries, JitterConstants DEF Packet
<1>2. \A i \in 1 .. Len(b) : i \in later <=> n <= b[i]
  BY <1>1, NotAfterIsOrder
<1>3. later \in SUBSET (1 .. Len(b))
  BY <1>1
<1>4. Insert(b, n) = IF later = {} THEN Append(b, n)
                     ELSE IF NumberOf(b[Min(later)]) = NumberOf(n) THEN b
                     ELSE InsertAt(b, Min(later), n)
  BY DEF Insert
<1> HIDE DEF later
<1>5. CASE later = {}
  <2>1. Insert(b, n) = Append(b, n)
    BY <1>4, <1>5
  <2>2. \A i \in 1 .. Len(b) : b[i] < n
    BY <1>1, <1>2, <1>5
  <2>3. /\ Append(b, n) \in Seq(Packet) /\ Len(Append(b, n)) = Len(b) + 1
        /\ Append(b, n)[Len(b) + 1] = n
        /\ \A i \in 1 .. Len(b) : Append(b, n)[i] = b[i]
    OBVIOUS
  <2>4. IsInserted(b, n, Len(b) + 1, Insert(b, n))
    BY <1>1, <2>1, <2>2, <2>3 DEF IsInserted
  <2> QED  BY <1>1, <2>4
<1>6. CASE later # {}
  <2> DEFINE pos == Min(later)
  <2>1. pos \in later /\ \A x \in later : pos <= x
    <3>1. later \in SUBSET Nat
      BY <1>3
    <3> QED  BY <1>6, <3>1, LeastExists
  <2> HIDE DEF pos
  <2>2. pos \in 1 .. Len(b) /\ n <= b[pos]
    BY <1>2, <1>3, <2>1
  <2>3. CASE NumberOf(b[pos]) = NumberOf(n)
    <3>1. b[pos] = n
      BY <1>1, <2>2, <2>3, NumberIsName
    <3>2. Insert(b, n) = b
      BY <1>4, <1>6, <2>3 DEF pos
    <3> QED  BY <2>2, <3>1, <3>2
  <2>4. CASE NumberOf(b[pos]) # NumberOf(n)
    <3>1. n < b[pos]
      BY <1>1, <2>2, <2>4
    <3>2. Insert(b, n) = InsertAt(b, pos, n)
      BY <1>4, <1>6, <2>4 DEF pos
    <3>3. \A i \in 1 .. Len(b) : IF i < pos THEN b[i] < n ELSE n < b[i]
      <4> SUFFICES ASSUME NEW i \in 1 .. Len(b)
                   PROVE  IF i < pos THEN b[i] < n ELSE n < b[i]
        OBVIOUS
      <4>1. CASE i < pos
        <5>1. i \notin later
          BY <1>1, <2>1, <2>2, <4>1
        <5> QED  BY <1>1, <1>2, <4>1, <5>1
      <4>2. CASE ~(i < pos)
        <5>1. i - pos <= b[i] - b[pos]
          BY <1>1, <2>2, <4>2 DEF IsStream
        <5> QED  BY <1>1, <2>2, <3>1, <4>2, <5>1
      <4> QED  BY <4>1, <4>2
    <3> DEFINE c == InsertAt(b, pos, n)
    <3>4. /\ c \in Seq(Packet) /\ Len(c) = Len(b) + 1 /\ c[pos] = n
          /\ \A i \in 1 .. Len(b) : IF i < pos THEN c[i] = b[i] ELSE c[i + 1] = b[i]
      BY <2>2, InsertAtPlace
    <3>5. pos \in 1 .. Len(b) + 1
      BY <1>1, <2>2
    <3> HIDE DEF c
    <3>6. IsInserted(b, n, pos, c)
      BY <3>3, <3>4, <3>5 DEF IsInserted
    <3> QED  BY <3>2, <3>5, <3>6 DEF c
  <2> QED  BY <2>3, <2>4
<1> QED  BY <1>5, <1>6

\* The place keeps the buffer sorted.
LEMMA InsertedIsSorted ==
  ASSUME NEW b \in Seq(Packet), IsStream(b), NEW n \in Packet, NEW pos, NEW c,
         IsInserted(b, n, pos, c)
  PROVE  IsStream(c)
<1>1. Len(b) \in Nat /\ n \in Nat /\ pos \in 1 .. Len(b) + 1 /\ Len(c) = Len(b) + 1
      /\ c[pos] = n
      /\ \A i \in 1 .. Len(b) : b[i] \in Nat
  <2>1. n \in Nat
    BY JitterConstants DEF Packet
  <2> QED  BY <2>1, Entries DEF IsInserted
<1> SUFFICES ASSUME NEW i \in 1 .. Len(b) + 1, NEW j \in 1 .. Len(b) + 1, i <= j
             PROVE  j - i <= c[j] - c[i]
  BY <1>1 DEF IsStream
<1>2. \A k \in 1 .. Len(b) + 1 : k < pos => k \in 1 .. Len(b) /\ c[k] = b[k] /\ b[k] < n
  BY <1>1 DEF IsInserted
<1>3. \A k \in 1 .. Len(b) + 1 : pos < k =>
        k - 1 \in 1 .. Len(b) /\ c[k] = b[k - 1] /\ n < b[k - 1]
  <2> SUFFICES ASSUME NEW k \in 1 .. Len(b) + 1, pos < k
               PROVE  k - 1 \in 1 .. Len(b) /\ c[k] = b[k - 1] /\ n < b[k - 1]
    OBVIOUS
  <2>1. k - 1 \in 1 .. Len(b) /\ ~(k - 1 < pos) /\ (k - 1) + 1 = k
    BY <1>1
  <2> QED  BY <2>1 DEF IsInserted
<1>4. \A k, l \in 1 .. Len(b) : k <= l => l - k <= b[l] - b[k]
  BY DEF IsStream
\* The neighbours of n.
<1>5. \A k \in 1 .. Len(b) : k < pos => pos - k <= n - b[k]
  <2> SUFFICES ASSUME NEW k \in 1 .. Len(b), k < pos  PROVE pos - k <= n - b[k]
    OBVIOUS
  <2>1. pos - 1 \in 1 .. Len(b) /\ k <= pos - 1 /\ pos - 1 < pos /\ pos - 1 \in 1 .. Len(b) + 1
    BY <1>1
  <2>2. (pos - 1) - k <= b[pos - 1] - b[k]
    BY <1>4, <2>1
  <2>3. b[pos - 1] < n
    BY <1>2, <2>1
  <2>4. b[k] \in Int /\ b[pos - 1] \in Int /\ n \in Int /\ pos \in Int /\ k \in Int
    BY <1>1, <2>1
  <2>5. \A x, y, z, p, q \in Int : (p - 1) - q <= x - y /\ x < z => p - q <= z - y
    OBVIOUS
  <2> QED  BY <2>2, <2>3, <2>4, <2>5, Zenon
<1>6. \A k \in 1 .. Len(b) : pos <= k => k + 1 - pos <= b[k] - n
  <2> SUFFICES ASSUME NEW k \in 1 .. Len(b), pos <= k  PROVE k + 1 - pos <= b[k] - n
    OBVIOUS
  <2>1. pos \in 1 .. Len(b) /\ pos + 1 \in 1 .. Len(b) + 1 /\ (pos + 1) - 1 = pos
        /\ pos < pos + 1
    BY <1>1
  <2>2. k - pos <= b[k] - b[pos]
    BY <1>4, <2>1
  <2>3. n < b[pos]
    BY <1>3, <2>1
  <2>4. b[k] \in Int /\ b[pos] \in Int /\ n \in Int /\ pos \in Int
    BY <1>1, <2>1
  <2> QED  BY <2>2, <2>3, <2>4
<1>7. CASE j < pos
  <2>1. i \in 1 .. Len(b) /\ j \in 1 .. Len(b) /\ c[i] = b[i] /\ c[j] = b[j]
    BY <1>1, <1>2, <1>7
  <2> QED  BY <1>4, <2>1
<1>8. CASE j = pos
  <2>1. CASE i = pos
    BY <1>1, <1>8, <2>1
  <2>2. CASE i < pos
    <3>1. i \in 1 .. Len(b) /\ c[i] = b[i]
      BY <1>2, <2>2
    <3> QED  BY <1>1, <1>5, <1>8, <2>2, <3>1
  <2> QED  BY <1>1, <1>8, <2>1, <2>2
<1>9. CASE pos < j
  <2>1. j - 1 \in 1 .. Len(b) /\ c[j] = b[j - 1] /\ pos <= j - 1
    BY <1>1, <1>3, <1>9
  <2>2. j - pos <= b[j - 1] - n
    BY <1>1, <1>6, <2>1
  <2>3. CASE i < pos
    <3>1. i \in 1 .. Len(b) /\ c[i] = b[i] /\ pos - i <= n - b[i]
      BY <1>2, <1>5, <2>3
    <3>2. j - i <= b[j - 1] - b[i]
      <4>1. b[i] \in Int /\ b[j - 1] \in Int /\ n \in Int /\ pos \in Int
            /\ i \in Int /\ j \in Int
        BY <1>1, <2>1, <3>1
      <4>2. \A x, y, z, p, q, r \in Int : q - p <= y - z /\ p - r <= z - x => q - r <= y - x
        OBVIOUS
      <4> QED  BY <2>2, <3>1, <4>1, <4>2, Zenon
    <3> QED  BY <2>1, <3>1, <3>2
  <2>4. CASE i = pos
    BY <1>1, <2>1, <2>2, <2>4
  <2>5. CASE pos < i
    <3>1. i - 1 \in 1 .. Len(b) /\ c[i] = b[i - 1]
      BY <1>3, <2>5
    <3>0. i - 1 <= j - 1
      OBVIOUS
    <3>2. (j - 1) - (i - 1) <= b[j - 1] - b[i - 1]
      BY <1>4, <2>1, <3>0, <3>1, Zenon
    <3> QED  BY <1>1, <2>1, <3>1, <3>2
  <2> QED  BY <1>1, <2>3, <2>4, <2>5
<1> QED  BY <1>1, <1>7, <1>8, <1>9

-----------------------------------------------------------------------------
(* The invariant.                                                          *)

Gap == Burst + 1

\* Every packet that arrived is in the buffer or has been played.
NothingIsLost ==
  \A n : n \in received <=> \/ \E k \in 1 .. Len(played) : played[k] = n
                            \/ \E i \in 1 .. Len(buffer) : buffer[i] = n

\* How old the packets of the buffer can be: there is a gap for each that follows.
BufferIsRecent ==
  \A i \in 1 .. Len(buffer) :
    buffer[i] <= Newest /\ Newest - buffer[i] <= Gap * (Len(buffer) - i) + Reorder

\* What is played is so old that nothing can come before it any more.
PlayedIsOld ==
  \A k \in 1 .. Len(played) :
    /\ played[k] + TargetSize - 1 <= Newest
    /\ \A i \in 1 .. Len(buffer) : played[k] < buffer[i]

JitterInv ==
  /\ JitterOK
  /\ IsStream(buffer)
  /\ NothingIsLost
  /\ BufferIsRecent
  /\ PlayedIsOld
  /\ PlayedInOrder

\* Newest is the greatest packet received, or -1.
LEMMA NewestIsGreatest ==
  ASSUME received \subseteq Packet
  PROVE  /\ Newest \in Int /\ -1 <= Newest
         /\ received = {} => Newest = -1
         /\ received # {} => Newest \in received
         /\ \A n \in received : n <= Newest
<1>1. CASE received = {}
  BY <1>1 DEF Newest
<1>2. CASE received # {}
  <2>1. received \in SUBSET (0 .. StreamLen)
    BY JitterConstants DEF Packet
  <2>2. Max(received) \in received /\ \A x \in received : x <= Max(received)
    BY <1>2, <2>1, JitterConstants, GreatestExists
  <2>3. Newest = Max(received)
    BY <1>2 DEF Newest
  <2>4. Newest \in Int /\ -1 <= Newest
    <3>1. Newest \in 0 .. StreamLen
      BY <2>1, <2>2, <2>3
    <3> QED  BY <3>1, JitterConstants
  <2> QED  BY <1>2, <2>2, <2>3, <2>4
<1> QED  BY <1>1, <1>2

\* A packet that arrives makes itself the newest, or nothing.
LEMMA NewestAfter ==
  ASSUME received \subseteq Packet, NEW n \in Packet, received' = received \cup {n}
  PROVE  Newest' = IF Newest < n THEN n ELSE Newest
<1>1. n \in Nat /\ received' \subseteq Packet /\ received' # {}
  BY JitterConstants DEF Packet
<1>2. /\ Newest \in Int /\ -1 <= Newest
      /\ received = {} => Newest = -1
      /\ received # {} => Newest \in received
      /\ \A x \in received : x <= Newest
  BY NewestIsGreatest
<1>3. /\ Newest' \in received'
      /\ \A x \in received' : x <= Newest'
      /\ Newest' \in Int
  <2>1. received' \in SUBSET (0 .. StreamLen)
    BY <1>1, JitterConstants DEF Packet
  <2>2. Max(received') \in received' /\ \A x \in received' : x <= Max(received')
    BY <1>1, <2>1, JitterConstants, GreatestExists
  <2>3. Newest' = Max(received')
    BY <1>1 DEF Newest
  <2>4. Newest' \in 0 .. StreamLen
    BY <2>1, <2>2, <2>3
  <2>5. Newest' \in Int
    BY <2>4, JitterConstants
  <2> QED  BY <2>2, <2>3, <2>5
<1>4. CASE Newest < n
  <2>1. n <= Newest' /\ n \in received'
    BY <1>3
  <2>2. Newest' = n
    <3>1. CASE Newest' \in received
      BY <1>1, <1>2, <1>3, <1>4, <2>1, <3>1
    <3> QED  BY <1>3, <3>1
  <2> QED  BY <1>4, <2>2
<1>5. CASE ~(Newest < n)
  <2>1. received # {}
    BY <1>1, <1>2, <1>5
  <2>2. Newest <= Newest'
    BY <1>2, <1>3, <2>1
  <2>3. Newest' <= Newest
    BY <1>1, <1>2, <1>3, <1>5
  <2> QED  BY <1>2, <1>3, <1>5, <2>2, <2>3
<1> QED  BY <1>4, <1>5

\* The empty buffer.
LEMMA JitterStarts == JitterInit => JitterInv
BY DEF JitterInit, JitterInv, JitterOK, IsStream, NothingIsLost, BufferIsRecent,
       PlayedIsOld, PlayedInOrder

\* A sum of distances.
LEMMA Distances ==
  ASSUME NEW b \in Int, NEW n \in Int, NEW newest \in Int, NEW g \in Nat,
         NEW age \in Int, NEW most \in Int, NEW r \in Nat, NEW h \in Nat,
         0 <= age, age + g <= most, most + r < h, n <= newest + g, newest - n <= r,
         b <= newest, newest - b <= age + r
  PROVE  n - b < h /\ b - n < h
OBVIOUS

\* Nothing else touches the buffer.
LEMMA JitterStutters == JitterInv /\ UNCHANGED jitterVars => JitterInv'
BY DEF jitterVars, JitterInv, JitterOK, IsStream, NothingIsLost, BufferIsRecent,
       PlayedIsOld, PlayedInOrder, Newest

\* What arrives is near to all that is in the buffer.
LEMMA ArrivalIsNear ==
  ASSUME JitterInv, Len(buffer) <= Held, NEW n \in Packet, CanArrive(n),
         NEW i \in 1 .. Len(buffer)
  PROVE  IsNearTo(n, buffer[i])
<1>1. /\ Newest \in Int /\ n \in Nat /\ Len(buffer) \in Nat /\ buffer[i] \in Nat
      /\ Gap \in Nat /\ Gap = Burst + 1
  <2>1. received \subseteq Packet /\ buffer \in Seq(Packet)
    BY DEF JitterInv, JitterOK
  <2>2. n \in Nat /\ Gap \in Nat
    BY JitterConstants DEF Packet, Gap
  <2> QED  BY <2>1, <2>2, NewestIsGreatest, Entries DEF Gap
<1>2. n <= Newest + Gap /\ Newest - n <= Reorder
  BY <1>1, JitterConstants DEF CanArrive
<1>3. buffer[i] <= Newest /\ Newest - buffer[i] <= Gap * (Len(buffer) - i) + Reorder
  BY DEF JitterInv, BufferIsRecent
<1>4. Gap * (Len(buffer) - i) + Gap <= Gap * Held
  <2>1. Len(buffer) - i + 1 \in Nat /\ Len(buffer) - i + 1 <= Held /\ Held \in Nat
    BY <1>1, JitterConstants
  <2>2. \A g, k, l \in Nat : k <= l => g * k <= g * l
    OBVIOUS
  <2>3. Gap * (Len(buffer) - i + 1) <= Gap * Held
    BY <1>1, <2>1, <2>2
  <2>4. \A g \in Nat, k \in Int : g * (k + 1) = g * k + g
    OBVIOUS
  <2>5. Gap * (Len(buffer) - i + 1) = Gap * (Len(buffer) - i) + Gap
    BY <1>1, <2>4
  <2> QED  BY <2>3, <2>5
<1>5. Gap * Held + Reorder < Half /\ Reorder \in Nat /\ Half \in Nat
      /\ Gap * Held \in Int /\ Gap * (Len(buffer) - i) \in Int
  BY <1>1, JitterConstants
<1>6. 0 <= Gap * (Len(buffer) - i)
  BY <1>1
<1>7. n \in Int /\ buffer[i] \in Int
  BY <1>1
<1>8. n - buffer[i] < Half /\ buffer[i] - n < Half
  BY <1>1, <1>2, <1>3, <1>4, <1>5, <1>6, <1>7, Distances, Zenon
<1>9. -Half < buffer[i] - n
  <2>1. \A b, m, h \in Int : m - b < h => -h < b - m
    OBVIOUS
  <2> QED  BY <1>5, <1>7, <1>8, <2>1
<1> QED  BY <1>8, <1>9, Zenon DEF IsNearTo

\* What the state is made of.
LEMMA JitterTypes ==
  ASSUME JitterInv
  PROVE  /\ buffer \in Seq(Packet) /\ played \in Seq(Packet) /\ received \subseteq Packet
         /\ Len(buffer) \in Nat /\ Len(played) \in Nat
         /\ DOMAIN buffer = 1 .. Len(buffer) /\ DOMAIN played = 1 .. Len(played)
         /\ \A i \in 1 .. Len(buffer) : buffer[i] \in Packet /\ buffer[i] \in Nat
         /\ \A k \in 1 .. Len(played) : played[k] \in Packet /\ played[k] \in Nat
         /\ Newest \in Int /\ \A n \in received : n <= Newest
         /\ \A n \in Packet : n \in Nat
         /\ Gap \in Nat /\ Gap = Burst + 1
<1>1. buffer \in Seq(Packet) /\ played \in Seq(Packet) /\ received \subseteq Packet
  BY DEF JitterInv, JitterOK
<1>2. Newest \in Int /\ \A n \in received : n <= Newest
  BY <1>1, NewestIsGreatest
<1>3. \A n \in Packet : n \in Nat
  BY JitterConstants DEF Packet
<1> QED  BY <1>1, <1>2, <1>3, Entries, JitterConstants DEF Gap

\* A packet that arrives and is not in the buffer comes after all that was played.
LEMMA ArrivalIsLater ==
  ASSUME JitterInv, NEW n \in Packet, CanArrive(n),
         \A i \in 1 .. Len(buffer) : buffer[i] # n, NEW k \in 1 .. Len(played)
  PROVE  played[k] < n /\ n \notin received
<1>1. played[k] + TargetSize - 1 <= Newest /\ played[k] \in received
  BY DEF JitterInv, PlayedIsOld, NothingIsLost
<1>2. n \notin received
  <2> SUFFICES ASSUME n \in received  PROVE FALSE
    OBVIOUS
  <2>1. PICK l \in 1 .. Len(played) : played[l] = n
    BY DEF JitterInv, NothingIsLost
  <2>2. n + TargetSize - 1 <= Newest
    BY <2>1 DEF JitterInv, PlayedIsOld
  <2>3. n + Reorder > Newest
    BY DEF CanArrive
  <2>4. n \in Nat /\ Newest \in Int
    BY JitterTypes
  <2> QED  BY <2>2, <2>3, <2>4, JitterConstants
<1>3. n + Reorder >= Newest
  BY <1>2 DEF CanArrive
<1>4. played[k] # n
  BY <1>1, <1>2
<1>5. played[k] \in Int /\ n \in Int /\ Newest \in Int
  BY JitterTypes
<1> QED  BY <1>1, <1>2, <1>3, <1>4, <1>5, JitterConstants

\* push: the network has not brought more than the workers can drain.
LEMMA PushKeeps ==
  ASSUME JitterInv, Len(buffer) <= Held, NEW n \in Packet, Push(n)
  PROVE  /\ JitterInv'
         /\ Len(buffer') = Len(buffer) \/ Len(buffer') = Len(buffer) + 1
<1>1. /\ CanArrive(n) /\ buffer' = Insert(buffer, n) /\ received' = received \cup {n}
      /\ played' = played
  BY DEF Push
<1>2. /\ buffer \in Seq(Packet) /\ played \in Seq(Packet) /\ received \subseteq Packet
      /\ Len(buffer) \in Nat /\ Len(played) \in Nat
      /\ \A i \in 1 .. Len(buffer) : buffer[i] \in Nat
      /\ \A k \in 1 .. Len(played) : played[k] \in Nat
      /\ Newest \in Int /\ n \in Nat /\ Gap \in Nat /\ IsStream(buffer)
  BY JitterTypes DEF JitterInv
<1>3. \/ buffer' = buffer /\ \E i \in 1 .. Len(buffer) : buffer[i] = n
      \/ \E pos \in 1 .. Len(buffer) + 1 : IsInserted(buffer, n, pos, buffer')
  BY <1>1, <1>2, ArrivalIsNear, InsertShape
<1>4. CASE buffer' = buffer /\ \E i \in 1 .. Len(buffer) : buffer[i] = n
  <2>1. n \in received
    BY <1>4 DEF JitterInv, NothingIsLost
  <2>2. UNCHANGED jitterVars
    BY <1>1, <1>4, <2>1 DEF jitterVars
  <2> QED  BY <1>4, <2>2, JitterStutters
<1>5. ASSUME NEW pos \in 1 .. Len(buffer) + 1, IsInserted(buffer, n, pos, buffer')
      PROVE  JitterInv' /\ Len(buffer') = Len(buffer) + 1
  <2>1. /\ buffer' \in Seq(Packet) /\ Len(buffer') = Len(buffer) + 1 /\ buffer'[pos] = n
        /\ \A i \in 1 .. Len(buffer) :
             IF i < pos THEN buffer[i] < n /\ buffer'[i] = buffer[i]
                        ELSE n < buffer[i] /\ buffer'[i + 1] = buffer[i]
    BY <1>5 DEF IsInserted
  <2>2. \A i \in 1 .. Len(buffer) : buffer[i] # n
    <3> TAKE i \in 1 .. Len(buffer)
    <3> QED  BY <1>2, <2>1
  \* Every packet of the new buffer is n or was there.
  <2>3. ASSUME NEW j \in 1 .. Len(buffer) + 1
        PROVE  \/ j = pos /\ buffer'[j] = n
               \/ j < pos /\ j \in 1 .. Len(buffer) /\ buffer'[j] = buffer[j]
               \/ pos < j /\ j - 1 \in 1 .. Len(buffer) /\ buffer'[j] = buffer[j - 1]
    <3>1. CASE j < pos
      <4>1. j \in 1 .. Len(buffer)
        BY <1>2, <3>1
      <4> QED  BY <2>1, <3>1, <4>1
    <3>2. CASE pos < j
      <4>1. j - 1 \in 1 .. Len(buffer) /\ ~(j - 1 < pos) /\ (j - 1) + 1 = j
        BY <1>2, <3>2
      <4>2. buffer'[(j - 1) + 1] = buffer[j - 1]
        BY <2>1, <4>1
      <4> QED  BY <3>2, <4>1, <4>2
    <3> QED  BY <1>2, <2>1, <3>1, <3>2
  <2>4. IsStream(buffer')
    BY <1>2, <1>5, InsertedIsSorted
  <2>5. Newest' = IF Newest < n THEN n ELSE Newest
    BY <1>1, <1>2, NewestAfter
  <2>6. JitterOK'
    BY <1>1, <1>2, <2>1 DEF JitterOK
  <2>7. NothingIsLost'
    <3>1. \A i \in 1 .. Len(buffer) : \E j \in 1 .. Len(buffer) + 1 : buffer'[j] = buffer[i]
      <4> TAKE i \in 1 .. Len(buffer)
      <4>1. i \in 1 .. Len(buffer) + 1 /\ i + 1 \in 1 .. Len(buffer) + 1
        BY <1>2
      <4> QED  BY <2>1, <4>1
    <3> SUFFICES ASSUME NEW x
                 PROVE  x \in received' <=> \/ \E k \in 1 .. Len(played) : played[k] = x
                                            \/ \E j \in 1 .. Len(buffer) + 1 : buffer'[j] = x
      BY <1>1, <2>1 DEF NothingIsLost
    <3>2. x \in received <=> \/ \E k \in 1 .. Len(played) : played[k] = x
                             \/ \E i \in 1 .. Len(buffer) : buffer[i] = x
      BY DEF JitterInv, NothingIsLost
    <3>3. x \in received' <=> x \in received \/ x = n
      BY <1>1
    <3>4. ASSUME NEW j \in 1 .. Len(buffer) + 1, buffer'[j] = x
          PROVE  x = n \/ \E i \in 1 .. Len(buffer) : buffer[i] = x
      BY <2>3, <3>4
    <3> QED  BY <2>1, <3>1, <3>2, <3>3, <3>4
  <2>8. PlayedIsOld'
    <3>1. ASSUME NEW k \in 1 .. Len(played)
          PROVE  /\ played[k] + TargetSize - 1 <= Newest'
                 /\ \A j \in 1 .. Len(buffer) + 1 : played[k] < buffer'[j]
      <4>1. played[k] + TargetSize - 1 <= Newest
            /\ \A i \in 1 .. Len(buffer) : played[k] < buffer[i]
        BY DEF JitterInv, PlayedIsOld
      <4>2. played[k] < n
        BY <1>1, <2>2, ArrivalIsLater
      <4>3. played[k] + TargetSize - 1 <= Newest'
        BY <1>2, <2>5, <4>1, JitterConstants
      <4>4. ASSUME NEW j \in 1 .. Len(buffer) + 1  PROVE played[k] < buffer'[j]
        BY <2>3, <4>1, <4>2
      <4> QED  BY <4>3, <4>4
    <3> QED  BY <1>1, <2>1, <3>1 DEF PlayedIsOld
  <2>9. BufferIsRecent'
    <3> SUFFICES ASSUME NEW j \in 1 .. Len(buffer) + 1
                 PROVE  /\ buffer'[j] <= Newest'
                        /\ Newest' - buffer'[j] <= Gap * (Len(buffer) + 1 - j) + Reorder
      BY <2>1 DEF BufferIsRecent, Gap
    <3>0. \A g \in Nat, k \in Int : g * (k + 1) = g * k + g
      OBVIOUS
    <3>1. Newest - n <= Reorder /\ n <= Newest + Gap
      BY <1>1, <1>2, JitterConstants DEF CanArrive, Gap
    <3>2. 0 <= Gap * (Len(buffer) + 1 - j) /\ Gap * (Len(buffer) + 1 - j) \in Int
      BY <1>2
    <3>3. CASE j = pos /\ buffer'[j] = n
      <4>1. Newest' - n <= Reorder /\ n <= Newest'
        BY <1>2, <2>5, <3>1, JitterConstants
      <4>2. Newest' \in Int
        BY <1>2, <2>5
      <4> DEFINE age == Gap * (Len(buffer) + 1 - j)
      <4>3. 0 <= age /\ age \in Int
        BY <3>2
      <4> HIDE DEF age
      <4>4. Newest' - n <= age + Reorder
        <5>1. n \in Int /\ Reorder \in Int
          BY <1>2, JitterConstants
        <5>2. \A x, y, a, r \in Int : 0 <= a /\ x - y <= r => x - y <= a + r
          OBVIOUS
        <5> QED  BY <4>1, <4>2, <4>3, <5>1, <5>2, Zenon
      <4> QED  BY <3>3, <4>1, <4>4 DEF age
    <3>4. CASE j < pos /\ j \in 1 .. Len(buffer) /\ buffer'[j] = buffer[j]
      <4>1. buffer[j] <= Newest /\ Newest - buffer[j] <= Gap * (Len(buffer) - j) + Reorder
        BY <3>4 DEF JitterInv, BufferIsRecent
      <4>2. Gap * (Len(buffer) + 1 - j) = Gap * (Len(buffer) - j) + Gap
        <5>1. Len(buffer) - j \in Int /\ Len(buffer) + 1 - j = (Len(buffer) - j) + 1
          BY <1>2
        <5> QED  BY <1>2, <3>0, <5>1
      <4>3. Newest <= Newest' /\ Newest' <= Newest + Gap /\ Newest' \in Int
        BY <1>2, <2>5, <3>1
      <4>4. Gap * (Len(buffer) - j) \in Int /\ buffer[j] \in Int
        BY <1>2, <3>4
      <4> DEFINE age == Gap * (Len(buffer) - j)
      <4>5. Newest' - buffer[j] <= (age + Gap) + Reorder /\ buffer[j] <= Newest'
        <5>1. /\ age \in Int /\ buffer[j] \in Int /\ Newest \in Int /\ Newest' \in Int
              /\ Gap \in Int /\ Reorder \in Int
              /\ Newest - buffer[j] <= age + Reorder
          BY <1>2, <4>1, <4>3, <4>4, JitterConstants
        <5> HIDE DEF age
        <5>2. \A b, x, y, g, a, r \in Int :
                b <= x /\ x <= y /\ y <= x + g /\ x - b <= a + r => y - b <= (a + g) + r /\ b <= y
          OBVIOUS
        <5> QED  BY <4>1, <4>3, <5>1, <5>2, Zenon
      <4> HIDE DEF age
      <4>6. Gap * (Len(buffer) + 1 - j) = age + Gap
        BY <4>2 DEF age
      <4> QED  BY <3>4, <4>5, <4>6, Zenon
    <3>5. CASE pos < j /\ j - 1 \in 1 .. Len(buffer) /\ buffer'[j] = buffer[j - 1]
      <4>1. /\ buffer[j - 1] <= Newest
            /\ Newest - buffer[j - 1] <= Gap * (Len(buffer) - (j - 1)) + Reorder
        BY <3>5 DEF JitterInv, BufferIsRecent
      <4>2. Len(buffer) - (j - 1) = Len(buffer) + 1 - j
        BY <1>2
      <4>3. n < buffer[j - 1]
        <5>1. ~(j - 1 < pos)
          BY <1>2, <3>5
        <5> QED  BY <2>1, <3>5, <5>1
      <4>4. Newest' = Newest
        BY <1>2, <2>5, <3>5, <4>1, <4>3
      <4> QED  BY <3>5, <4>1, <4>2, <4>4
    <3> QED  BY <2>3, <3>3, <3>4, <3>5
  <2>10. PlayedInOrder'
    BY <1>1 DEF JitterInv, PlayedInOrder
  <2> QED  BY <2>1, <2>4, <2>6, <2>7, <2>8, <2>9, <2>10 DEF JitterInv
<1> QED  BY <1>3, <1>4, <1>5

\* pop: what is taken off a full buffer is older than all that can still come.
LEMMA PopKeeps ==
  ASSUME JitterInv, Pop
  PROVE  /\ JitterInv' /\ Len(buffer') = Len(buffer) - 1
         /\ buffer # <<>> /\ Head(buffer) \in Packet /\ played' = Append(played, Head(buffer))
<1>1. /\ TargetSize <= Len(buffer) /\ received' = received
      /\ played' = Append(played, Head(buffer)) /\ buffer' = Tail(buffer)
  BY JitterTypes, JitterConstants DEF Pop, IsFull
<1>2. /\ buffer \in Seq(Packet) /\ played \in Seq(Packet) /\ received \subseteq Packet
      /\ Len(buffer) \in Nat /\ Len(played) \in Nat
      /\ \A i \in 1 .. Len(buffer) : buffer[i] \in Nat /\ buffer[i] \in Packet
      /\ \A k \in 1 .. Len(played) : played[k] \in Nat
      /\ Newest \in Int /\ Gap \in Nat
  BY JitterTypes
<1>3. 1 \in 1 .. Len(buffer) /\ Len(buffer) \in 1 .. Len(buffer) /\ 1 <= Len(buffer)
  BY <1>1, <1>2, JitterConstants
<1>4. buffer # <<>> /\ Head(buffer) = buffer[1]
  BY <1>2, <1>3
<1>5. /\ buffer' \in Seq(Packet) /\ Len(buffer') = Len(buffer) - 1
      /\ \A i \in 1 .. Len(buffer) - 1 : buffer'[i] = buffer[i + 1]
  BY <1>1, <1>2, <1>4, HeadTailProperties
<1>6. /\ played' \in Seq(Packet) /\ Len(played') = Len(played) + 1
      /\ \A k \in 1 .. Len(played) : played'[k] = played[k]
      /\ played'[Len(played) + 1] = buffer[1]
  BY <1>1, <1>2, <1>3, <1>4
<1>7. \A i \in 1 .. Len(buffer) - 1 : i + 1 \in 1 .. Len(buffer)
  BY <1>2
<1>8. \A i, j \in 1 .. Len(buffer) : i <= j => j - i <= buffer[j] - buffer[i]
  BY DEF JitterInv, IsStream
<1>9. IsStream(buffer')
  <2> SUFFICES ASSUME NEW i \in 1 .. Len(buffer) - 1, NEW j \in 1 .. Len(buffer) - 1, i <= j
               PROVE  j - i <= buffer'[j] - buffer'[i]
    BY <1>5 DEF IsStream
  <2>1. i + 1 \in 1 .. Len(buffer) /\ j + 1 \in 1 .. Len(buffer) /\ i + 1 <= j + 1
    BY <1>2
  <2>2. (j + 1) - (i + 1) <= buffer[j + 1] - buffer[i + 1]
    BY <1>8, <2>1, Zenon
  <2> QED  BY <1>2, <1>5, <2>1, <2>2
<1>10. Newest' = Newest
  BY <1>1 DEF Newest
<1>11. NothingIsLost'
  <2> SUFFICES ASSUME NEW x
               PROVE  x \in received <=> \/ \E k \in 1 .. Len(played) + 1 : played'[k] = x
                                         \/ \E i \in 1 .. Len(buffer) - 1 : buffer'[i] = x
    BY <1>1, <1>5, <1>6 DEF NothingIsLost
  <2>1. x \in received <=> \/ \E k \in 1 .. Len(played) : played[k] = x
                           \/ \E i \in 1 .. Len(buffer) : buffer[i] = x
    BY DEF JitterInv, NothingIsLost
  <2>2. (\E k \in 1 .. Len(played) + 1 : played'[k] = x)
        <=> (\E k \in 1 .. Len(played) : played[k] = x) \/ x = buffer[1]
    <3>1. Len(played) + 1 \in 1 .. Len(played) + 1
      BY <1>2
    <3>2. \A k \in 1 .. Len(played) + 1 : k \in 1 .. Len(played) \/ k = Len(played) + 1
      BY <1>2
    <3>3. \A k \in 1 .. Len(played) : k \in 1 .. Len(played) + 1
      BY <1>2
    <3> QED  BY <1>6, <3>1, <3>2, <3>3
  <2>3. (\E i \in 1 .. Len(buffer) : buffer[i] = x)
        <=> (\E i \in 1 .. Len(buffer) - 1 : buffer'[i] = x) \/ x = buffer[1]
    <3>1. ASSUME NEW i \in 1 .. Len(buffer), i # 1
          PROVE  \E j \in 1 .. Len(buffer) - 1 : buffer'[j] = buffer[i]
      <4>1. i - 1 \in 1 .. Len(buffer) - 1 /\ (i - 1) + 1 = i
        BY <1>2, <3>1
      <4> QED  BY <1>5, <4>1
    <3> QED  BY <1>3, <1>5, <1>7, <3>1
  <2> QED  BY <2>1, <2>2, <2>3
<1>12. BufferIsRecent'
  <2> SUFFICES ASSUME NEW i \in 1 .. Len(buffer) - 1
               PROVE  /\ buffer'[i] <= Newest
                      /\ Newest - buffer'[i] <= Gap * (Len(buffer) - 1 - i) + Reorder
    BY <1>5, <1>10 DEF BufferIsRecent, Gap
  <2>1. /\ buffer[i + 1] <= Newest
        /\ Newest - buffer[i + 1] <= Gap * (Len(buffer) - (i + 1)) + Reorder
    BY <1>7 DEF JitterInv, BufferIsRecent
  <2>2. Len(buffer) - (i + 1) = Len(buffer) - 1 - i
    BY <1>2
  <2> QED  BY <1>5, <2>1, <2>2
<1>13. buffer[1] + TargetSize - 1 <= Newest
  <2>1. Len(buffer) - 1 <= buffer[Len(buffer)] - buffer[1]
    BY <1>3, <1>8
  <2>2. buffer[Len(buffer)] <= Newest
    BY <1>3 DEF JitterInv, BufferIsRecent
  <2>3. buffer[Len(buffer)] \in Int /\ buffer[1] \in Int /\ Newest \in Int
        /\ Len(buffer) \in Int /\ TargetSize \in Int /\ TargetSize <= Len(buffer)
    BY <1>1, <1>2, <1>3, JitterConstants
  <2> QED  BY <2>1, <2>2, <2>3
<1>14. PlayedIsOld'
  <2>1. ASSUME NEW i \in 1 .. Len(buffer) - 1  PROVE buffer[1] < buffer[i + 1]
    <3>1. (i + 1) - 1 <= buffer[i + 1] - buffer[1]
      BY <1>2, <1>3, <1>7, <1>8
    <3> QED  BY <1>2, <1>3, <1>7, <3>1
  <2>2. ASSUME NEW k \in 1 .. Len(played) + 1
        PROVE  /\ played'[k] + TargetSize - 1 <= Newest
               /\ \A i \in 1 .. Len(buffer) - 1 : played'[k] < buffer'[i]
    <3>1. CASE k = Len(played) + 1
      BY <1>5, <1>6, <1>13, <2>1, <3>1
    <3>2. CASE k \in 1 .. Len(played)
      <4>1. /\ played[k] + TargetSize - 1 <= Newest
            /\ \A i \in 1 .. Len(buffer) : played[k] < buffer[i]
        BY <3>2 DEF JitterInv, PlayedIsOld
      <4> QED  BY <1>5, <1>6, <1>7, <3>2, <4>1
    <3> QED  BY <1>2, <3>1, <3>2
  <2> QED  BY <1>5, <1>6, <1>10, <2>2 DEF PlayedIsOld
<1>15. PlayedInOrder'
  <2>1. DOMAIN played' = 1 .. Len(played) + 1 /\ DOMAIN played = 1 .. Len(played)
    BY <1>2, <1>6
  <2> SUFFICES ASSUME NEW k \in 1 .. Len(played) + 1, NEW l \in 1 .. Len(played) + 1, k < l
               PROVE  played'[k] < played'[l]
    BY <2>1 DEF PlayedInOrder
  <2>2. k \in 1 .. Len(played)
    BY <1>2
  <2>3. CASE l = Len(played) + 1
    BY <1>3, <1>6, <2>2, <2>3 DEF JitterInv, PlayedIsOld
  <2>4. CASE l \in 1 .. Len(played)
    BY <1>6, <2>1, <2>2, <2>4 DEF JitterInv, PlayedInOrder
  <2> QED  BY <1>2, <2>3, <2>4
<1>16. JitterOK'
  BY <1>1, <1>2, <1>5, <1>6 DEF JitterOK
<1> QED  BY <1>1, <1>2, <1>3, <1>4, <1>5, <1>9, <1>11, <1>12, <1>14, <1>15, <1>16 DEF JitterInv

-----------------------------------------------------------------------------
(* The window.                                                             *)

\* The elements of a sequence.
LEMMA SetOfSequence ==
  ASSUME NEW S, NEW s \in Seq(S)
  PROVE  \A x : x \in ToSet(s) <=> \E i \in 1 .. Len(s) : s[i] = x
BY DEF ToSet

\* The packets of a buffer are as many as its places, and the first is the earliest.
LEMMA SortedIsWindow ==
  ASSUME NEW b \in Seq(Packet), IsStream(b)
  PROVE  /\ Cardinality(ToSet(b)) = Len(b)
         /\ \A i \in 1 .. Len(b) : i # 1 => b[1] < b[i]
<1>1. /\ Len(b) \in Nat /\ \A i \in 1 .. Len(b) : b[i] \in Nat
      /\ DOMAIN b = 1 .. Len(b)
  BY Entries
<1>2. \A i, j \in 1 .. Len(b) : i < j => b[i] < b[j]
  <2> SUFFICES ASSUME NEW i \in 1 .. Len(b), NEW j \in 1 .. Len(b), i < j  PROVE b[i] < b[j]
    OBVIOUS
  <2>1. j - i <= b[j] - b[i]
    BY DEF IsStream
  <2> QED  BY <1>1, <2>1
<1>3. ExistsBijection(1 .. Len(b), ToSet(b))
  <2>1. b = [i \in 1 .. Len(b) |-> b[i]]
    BY <1>1
  <2>2. b \in [1 .. Len(b) -> ToSet(b)] /\ \A x \in ToSet(b) : \E i \in 1 .. Len(b) : b[i] = x
    BY <1>1, <2>1, SetOfSequence
  <2>3. \A i, j \in 1 .. Len(b) : b[i] = b[j] => i = j
    BY <1>1, <1>2
  <2>4. b \in Bijection(1 .. Len(b), ToSet(b))
    BY <2>2, <2>3, Fun_IsBij
  <2> QED  BY <2>4 DEF ExistsBijection
<1>4. ASSUME NEW i \in 1 .. Len(b), i # 1  PROVE b[1] < b[i]
  BY <1>1, <1>2, <1>4
<1> QED  BY <1>1, <1>3, <1>4, FS_CountingElements

\* push is an arrival in the window, or nothing.
LEMMA PushIsArrival ==
  ASSUME JitterInv, JitterInv', Len(buffer) <= Held, NEW n \in Packet, Push(n)
  PROVE  [Window!Next]_<<ToSet(buffer), played>>
<1>1. /\ buffer \in Seq(Packet) /\ buffer' \in Seq(Packet) /\ IsStream(buffer)
      /\ buffer' = Insert(buffer, n) /\ CanArrive(n) /\ played' = played
  BY DEF JitterInv, JitterOK, Push
<1>2. \A i \in 1 .. Len(buffer) : IsNearTo(n, buffer[i])
  BY <1>1, ArrivalIsNear
<1>3. \/ buffer' = buffer
      \/ \E pos \in 1 .. Len(buffer) + 1 : IsInserted(buffer, n, pos, buffer')
  BY <1>1, <1>2, InsertShape
<1>4. CASE buffer' = buffer
  BY <1>1, <1>4
<1>5. ASSUME NEW pos \in 1 .. Len(buffer) + 1, IsInserted(buffer, n, pos, buffer')
      PROVE  Window!Next
  <2>1. Len(buffer) \in Nat /\ Len(buffer') = Len(buffer) + 1
    BY <1>1, <1>5 DEF IsInserted
  <2>2. /\ buffer'[pos] = n
        /\ \A i \in 1 .. Len(buffer) :
             IF i < pos THEN buffer'[i] = buffer[i] ELSE buffer'[i + 1] = buffer[i]
    BY <1>5 DEF IsInserted
  <2>3. ASSUME NEW x
        PROVE  x \in ToSet(buffer') <=> x \in ToSet(buffer) \cup {n}
    <3>1. ASSUME NEW i \in 1 .. Len(buffer), buffer[i] = x
          PROVE  \E j \in 1 .. Len(buffer') : buffer'[j] = x
      <4>1. i \in 1 .. Len(buffer') /\ i + 1 \in 1 .. Len(buffer')
        BY <2>1
      <4> QED  BY <2>2, <3>1, <4>1
    <3>2. ASSUME NEW j \in 1 .. Len(buffer'), buffer'[j] = x, x # n
          PROVE  \E i \in 1 .. Len(buffer) : buffer[i] = x
      <4>1. CASE j < pos
        <5>1. j \in 1 .. Len(buffer)
          BY <2>1, <4>1
        <5> QED  BY <2>2, <3>2, <4>1, <5>1
      <4>2. CASE pos < j
        <5>1. j - 1 \in 1 .. Len(buffer) /\ ~(j - 1 < pos) /\ (j - 1) + 1 = j
          BY <2>1, <4>2
        <5>2. buffer'[(j - 1) + 1] = buffer[j - 1]
          BY <2>2, <5>1
        <5> QED  BY <3>2, <5>1, <5>2
      <4>3. j # pos
        BY <2>2, <3>2
      <4> QED  BY <2>1, <4>1, <4>2, <4>3
    <3>3. pos \in 1 .. Len(buffer')
      BY <2>1
    <3> QED  BY <1>1, <2>2, <3>1, <3>2, <3>3, SetOfSequence
  <2>4. ToSet(buffer') = ToSet(buffer) \cup {n}
    BY <2>3
  <2> QED  BY <1>1, <2>4 DEF Window!Next, Window!Arrive
<1> QED  BY <1>3, <1>4, <1>5

\* pop plays the earliest packet of a window of at least TargetSize.
LEMMA PopIsPlay ==
  ASSUME JitterInv, Pop
  PROVE  Window!Next
<1>1. /\ buffer \in Seq(Packet) /\ IsStream(buffer) /\ Len(buffer) \in Nat
      /\ TargetSize <= Len(buffer) /\ 1 \in 1 .. Len(buffer)
      /\ buffer' = Tail(buffer) /\ played' = Append(played, Head(buffer))
  BY JitterTypes, JitterConstants DEF JitterInv, Pop, IsFull
<1>2. Cardinality(ToSet(buffer)) = Len(buffer) /\ Len(buffer) >= TargetSize
      /\ \A i \in 1 .. Len(buffer) : i # 1 => buffer[1] < buffer[i]
  BY <1>1, SortedIsWindow, JitterConstants
<1>3. \A i \in 1 .. Len(buffer) : buffer[i] \in Nat
  BY JitterTypes
<1>4. Head(buffer) = buffer[1] /\ buffer # <<>>
  BY <1>1
<1>5. Window!Earliest = buffer[1]
  <2>1. buffer[1] \in ToSet(buffer) /\ \A m \in ToSet(buffer) : buffer[1] <= m
    <3>1. \A i \in 1 .. Len(buffer) : buffer[1] <= buffer[i]
      BY <1>1, <1>2, <1>3
    <3> QED  BY <1>1, <3>1, SetOfSequence
  <2>2. ASSUME NEW n \in ToSet(buffer), \A m \in ToSet(buffer) : n <= m
        PROVE  n = buffer[1]
    <3>1. n <= buffer[1] /\ buffer[1] <= n
      BY <2>1, <2>2
    <3>2. n \in Nat /\ buffer[1] \in Nat
      BY <1>1, <1>3, SetOfSequence
    <3> QED  BY <3>1, <3>2
  <2> QED  BY <2>1, <2>2 DEF Window!Earliest
<1>6. ToSet(buffer') = ToSet(buffer) \ {buffer[1]}
  <2>1. /\ buffer' \in Seq(Packet) /\ Len(buffer') = Len(buffer) - 1
        /\ \A i \in 1 .. Len(buffer) - 1 : buffer'[i] = buffer[i + 1]
    BY <1>1, <1>4, HeadTailProperties
  <2> SUFFICES ASSUME NEW x
               PROVE  x \in ToSet(buffer') <=> x \in ToSet(buffer) /\ x # buffer[1]
    OBVIOUS
  <2>2. ASSUME NEW j \in 1 .. Len(buffer'), buffer'[j] = x
        PROVE  (\E i \in 1 .. Len(buffer) : buffer[i] = x) /\ x # buffer[1]
    <3>1. j + 1 \in 1 .. Len(buffer) /\ j + 1 # 1 /\ j \in 1 .. Len(buffer) - 1
      BY <1>1, <2>1
    <3>2. buffer[j + 1] = x /\ buffer[1] < buffer[j + 1]
      BY <1>2, <2>1, <2>2, <3>1
    <3> QED  BY <1>1, <1>3, <3>1, <3>2
  <2>3. ASSUME NEW i \in 1 .. Len(buffer), buffer[i] = x, x # buffer[1]
        PROVE  \E j \in 1 .. Len(buffer') : buffer'[j] = x
    <3>1. i - 1 \in 1 .. Len(buffer) - 1 /\ (i - 1) + 1 = i
      BY <1>1, <2>3
    <3> QED  BY <2>1, <2>3, <3>1
  <2>4. x \in ToSet(buffer') <=> \E j \in 1 .. Len(buffer') : buffer'[j] = x
    BY <2>1, SetOfSequence
  <2>5. x \in ToSet(buffer) <=> \E i \in 1 .. Len(buffer) : buffer[i] = x
    BY <1>1, SetOfSequence
  <2> QED  BY <2>2, <2>3, <2>4, <2>5
<1>7. Window!Cardinality(ToSet(buffer)) = Cardinality(ToSet(buffer))
  BY DEF Window!Cardinality, Cardinality
<1>8. TargetSize <= Len(buffer) /\ Len(buffer) >= TargetSize
  BY <1>1, <1>2
<1> QED  BY <1>1, <1>2, <1>4, <1>5, <1>6, <1>7, <1>8 DEF Window!Next, Window!Play

-----------------------------------------------------------------------------
(* DownlinkBuffer: what is buffered is the end of what was received, and   *)
(* every frame that was taken lies before it.                              *)

\* b is audio in a row that ends with byte number last.
EndsWith(b, last) ==
  /\ b \in Seq(Nat) /\ Len(b) <= last
  /\ \A i \in 1 .. Len(b) : b[i] = last - Len(b) + i

\* FrameSize bytes in a row.
IsFrame(f) ==
  /\ f \in Seq(Nat) /\ Len(f) = FrameSize
  /\ \A i \in 1 .. FrameSize : f[i] = f[1] + i - 1

\* A stage that has received a bytes, holds b, and gave the frames fs.  Beside the two
\* properties: no byte of a frame is beyond the bytes that have left the buffer.
StageInv(a, b, fs) ==
  /\ a \in Nat /\ EndsWith(b, a) /\ Len(b) <= Capacity
  /\ fs \in Seq(Seq(Nat))
  /\ \A k \in 1 .. Len(fs) : IsFrame(fs[k]) /\ fs[k][FrameSize] <= a - Len(b)
  /\ \A k, l \in 1 .. Len(fs) : k < l => fs[k][FrameSize] < fs[l][1]

DownlinkInv ==
  /\ DownlinkOK
  /\ \A s \in Stage : StageInv(audioIn[s], downlinkBuffer[s], framesOut[s])

\* What the sizes are.
LEMMA DownlinkConstants ==
  /\ Capacity \in Nat \ {0} /\ FrameSize \in Nat \ {0} /\ FrameSize <= Capacity
  /\ MaxChunk \in Nat /\ MaxReceived \in Nat /\ Stages \in Nat \ {0}
BY DownlinkAssumption

\* The ends of a frame are bytes.
LEMMA FrameEnds ==
  ASSUME NEW f, IsFrame(f)
  PROVE  f[1] \in Nat /\ f[FrameSize] \in Nat
<1>1. 1 \in 1 .. Len(f) /\ FrameSize \in 1 .. Len(f) /\ f \in Seq(Nat)
  BY DownlinkConstants DEF IsFrame
<1> QED  BY <1>1, ElementOfSeq

\* A piece of audio in a row is audio in a row.
LEMMA PieceEndsWith ==
  ASSUME NEW b, NEW last \in Nat, EndsWith(b, last),
         NEW from \in Nat, NEW to \in Nat, 1 <= from, from <= to + 1, to <= Len(b),
         NEW end, end = last - Len(b) + to
  PROVE  /\ EndsWith(SubSeq(b, from, to), end)
         /\ Len(SubSeq(b, from, to)) = to - from + 1
<1>1. b \in Seq(Nat) /\ Len(b) \in Nat /\ Len(b) <= last
  BY DEF EndsWith
<1>2. \A i \in from .. to : b[i] \in Nat
  BY <1>1, ElementOfSeq
<1>3. /\ SubSeq(b, from, to) \in Seq(Nat)
      /\ Len(SubSeq(b, from, to)) = to - from + 1
      /\ \A i \in 1 .. to - from + 1 : SubSeq(b, from, to)[i] = b[from + i - 1]
  BY <1>1, <1>2, SubSeqProperties
<1>4. \A i \in 1 .. to - from + 1 : b[from + i - 1] = last - Len(b) + from + i - 1
  BY <1>1 DEF EndsWith
<1> QED  BY <1>1, <1>3, <1>4 DEF EndsWith

\* What arrives continues what is there.
LEMMA ChunkFollows ==
  ASSUME NEW a \in Nat, NEW b, EndsWith(b, a), NEW n \in Nat
  PROVE  EndsWith(b \o Chunk(a, n), a + n) /\ Len(b \o Chunk(a, n)) = Len(b) + n
<1>1. Chunk(a, n) \in Seq(Nat) /\ Len(Chunk(a, n)) = n
  BY DEF Chunk
<1>2. b \in Seq(Nat) /\ Len(b) \in Nat /\ Len(b) <= a
  BY DEF EndsWith
<1>3. /\ b \o Chunk(a, n) \in Seq(Nat)
      /\ Len(b \o Chunk(a, n)) = Len(b) + n
      /\ \A i \in 1 .. Len(b) + n :
           (b \o Chunk(a, n))[i] = IF i <= Len(b) THEN b[i] ELSE Chunk(a, n)[i - Len(b)]
  BY <1>1, <1>2, ConcatProperties
<1>4. \A i \in 1 .. Len(b) + n : (b \o Chunk(a, n))[i] = (a + n) - (Len(b) + n) + i
  BY <1>2, <1>3 DEF EndsWith, Chunk
<1> QED  BY <1>2, <1>3, <1>4 DEF EndsWith

\* The end of what is longer is still the end.
LEMMA BytesArrive ==
  ASSUME NEW a, NEW b, NEW fs, StageInv(a, b, fs), NEW n \in Nat
  PROVE  StageInv(a + n, KeepEnd(b \o Chunk(a, n)), fs)
<1> DEFINE c == b \o Chunk(a, n)
<1>1. a \in Nat /\ Len(b) \in Nat
  BY DEF StageInv, EndsWith
<1>2. EndsWith(c, a + n) /\ Len(c) = Len(b) + n
  BY <1>1, ChunkFollows DEF StageInv
<1> HIDE DEF c
<1>3. /\ EndsWith(KeepEnd(c), a + n) /\ Len(KeepEnd(c)) <= Capacity
      /\ Len(KeepEnd(c)) <= Len(b) + n
  <2>1. CASE Len(c) > Capacity
    <3> DEFINE from == Len(c) - Capacity + 1
    <3>1. KeepEnd(c) = SubSeq(c, from, Len(c))
      BY <2>1 DEF KeepEnd
    <3>2. /\ from \in Nat /\ Len(c) \in Nat /\ 1 <= from /\ from <= Len(c) + 1
          /\ a + n \in Nat /\ a + n = (a + n) - Len(c) + Len(c) /\ Len(c) <= Len(c)
          /\ Len(c) - from + 1 = Capacity
      BY <1>1, <1>2, <2>1, DownlinkConstants
    <3> HIDE DEF from
    <3>3. /\ EndsWith(SubSeq(c, from, Len(c)), a + n)
          /\ Len(SubSeq(c, from, Len(c))) = Len(c) - from + 1
      BY <1>2, <3>2, PieceEndsWith
    <3>4. EndsWith(KeepEnd(c), a + n) /\ Len(KeepEnd(c)) = Capacity
      BY <3>1, <3>2, <3>3, Zenon
    <3> QED  BY <1>1, <1>2, <2>1, <3>4, DownlinkConstants
  <2>2. CASE ~(Len(c) > Capacity)
    BY <1>1, <1>2, <2>2, DownlinkConstants DEF KeepEnd
  <2> QED  BY <2>1, <2>2
<1>4. ASSUME NEW k \in 1 .. Len(fs)
      PROVE  fs[k][FrameSize] <= (a + n) - Len(KeepEnd(c))
  <2>1. fs[k][FrameSize] <= a - Len(b) /\ fs[k][FrameSize] \in Nat
    BY FrameEnds DEF StageInv
  <2>2. Len(KeepEnd(c)) \in Nat
    BY <1>3 DEF EndsWith
  <2> QED  BY <1>1, <1>3, <2>1, <2>2
<1>5. StageInv(a + n, KeepEnd(c), fs)
  BY <1>1, <1>3, <1>4 DEF StageInv
<1> QED  BY <1>5 DEF c

\* A frame is the start of the buffer, the rest is still the end.
LEMMA FrameLeaves ==
  ASSUME NEW a, NEW b, NEW fs, StageInv(a, b, fs), Len(b) >= FrameSize
  PROVE  StageInv(a, SubSeq(b, FrameSize + 1, Len(b)), Append(fs, SubSeq(b, 1, FrameSize)))
<1> DEFINE frame == SubSeq(b, 1, FrameSize)
<1> DEFINE rest == SubSeq(b, FrameSize + 1, Len(b))
<1> DEFINE left == a - Len(b)
<1> DEFINE size == Len(b)
<1>1. /\ size \in Nat /\ a \in Nat /\ EndsWith(b, a) /\ fs \in Seq(Seq(Nat))
      /\ FrameSize <= size /\ size <= Capacity /\ left \in Int /\ left = a - size
  BY DownlinkConstants DEF StageInv, EndsWith
<1>2. EndsWith(frame, left + FrameSize) /\ Len(frame) = FrameSize
  <2>1. /\ 1 \in Nat /\ FrameSize \in Nat /\ 1 <= 1 /\ 1 <= FrameSize + 1
        /\ FrameSize <= Len(b) /\ FrameSize - 1 + 1 = FrameSize
    BY <1>1, DownlinkConstants
  <2> QED  BY <1>1, <2>1, PieceEndsWith
<1>3. EndsWith(rest, a) /\ Len(rest) = size - FrameSize
  <2>1. /\ FrameSize + 1 \in Nat /\ Len(b) \in Nat /\ 1 <= FrameSize + 1
        /\ FrameSize + 1 <= Len(b) + 1 /\ Len(b) <= Len(b)
        /\ a = a - Len(b) + Len(b)
        /\ Len(b) - (FrameSize + 1) + 1 = Len(b) - FrameSize
    BY <1>1, DownlinkConstants
  <2> QED  BY <1>1, <2>1, PieceEndsWith
<1> HIDE DEF frame, rest, size, left
<1>4. frame \in Seq(Nat) /\ \A i \in 1 .. FrameSize : frame[i] = left + i
  <2>1. left + FrameSize - FrameSize = left
    BY <1>1, DownlinkConstants
  <2> QED  BY <1>1, <1>2, <2>1, DownlinkConstants DEF EndsWith
<1>5. IsFrame(frame) /\ frame[1] = left + 1 /\ frame[FrameSize] = left + FrameSize
  <2>1. 1 \in 1 .. FrameSize /\ FrameSize \in 1 .. FrameSize
    BY DownlinkConstants
  <2> QED  BY <1>1, <1>2, <1>4, <2>1, DownlinkConstants DEF IsFrame
<1>6. /\ Append(fs, frame) \in Seq(Seq(Nat)) /\ Len(fs) \in Nat
      /\ Len(Append(fs, frame)) = Len(fs) + 1
      /\ \A k \in 1 .. Len(fs) : Append(fs, frame)[k] = fs[k]
      /\ Append(fs, frame)[Len(fs) + 1] = frame
  BY <1>1, <1>4
<1>7. ASSUME NEW k \in 1 .. Len(fs)
      PROVE  /\ IsFrame(fs[k]) /\ fs[k][FrameSize] \in Nat /\ fs[k][FrameSize] <= left
  BY FrameEnds DEF StageInv, left
<1>8. ASSUME NEW k \in 1 .. Len(fs) + 1
      PROVE  /\ IsFrame(Append(fs, frame)[k])
             /\ Append(fs, frame)[k][FrameSize] <= a - Len(rest)
  <2>1. a - Len(rest) = left + FrameSize
    BY <1>1, <1>3, DownlinkConstants
  <2>2. CASE k = Len(fs) + 1
    <3>1. Append(fs, frame)[k] = frame
      BY <1>6, <2>2
    <3> QED  BY <1>1, <1>5, <2>1, <3>1, DownlinkConstants
  <2>3. CASE k \in 1 .. Len(fs)
    <3>1. Append(fs, frame)[k] = fs[k]
      BY <1>6, <2>3
    <3>2. IsFrame(fs[k]) /\ fs[k][FrameSize] \in Nat /\ fs[k][FrameSize] <= left
      BY <1>7, <2>3
    <3>3. \A e \in Nat : e <= left => e <= left + FrameSize
      BY <1>1, DownlinkConstants
    <3>4. fs[k][FrameSize] <= left + FrameSize
      BY <3>2, <3>3
    <3> QED  BY <2>1, <3>1, <3>2, <3>4
  <2> QED  BY <1>6, <2>2, <2>3
<1>9. ASSUME NEW k \in 1 .. Len(fs) + 1, NEW l \in 1 .. Len(fs) + 1, k < l
      PROVE  Append(fs, frame)[k][FrameSize] < Append(fs, frame)[l][1]
  <2>1. k \in 1 .. Len(fs)
    BY <1>6, <1>9
  <2>2. CASE l = Len(fs) + 1
    <3>1. Append(fs, frame)[k] = fs[k] /\ Append(fs, frame)[l] = frame
      BY <1>6, <2>1, <2>2
    <3>2. fs[k][FrameSize] \in Nat /\ fs[k][FrameSize] <= left
      BY <1>7, <2>1
    <3>3. fs[k][FrameSize] < left + 1
      BY <1>1, <3>2
    <3> QED  BY <1>5, <3>1, <3>3
  <2>3. CASE l \in 1 .. Len(fs)
    BY <1>6, <1>9, <2>1, <2>3 DEF StageInv
  <2>4. l = Len(fs) + 1 \/ l \in 1 .. Len(fs)
    BY <1>6
  <2> QED  BY <2>2, <2>3, <2>4
<1>10. StageInv(a, rest, Append(fs, frame))
  <2>1. Len(rest) <= Capacity
    BY <1>1, <1>3, DownlinkConstants
  <2> QED  BY <1>1, <1>3, <1>6, <1>8, <1>9, <2>1 DEF StageInv
<1> QED  BY <1>10 DEF frame, rest

\* Empty buffers are the ends of nothing.
LEMMA DownlinkStarts == DownlinkInit => DownlinkInv
<1> SUFFICES ASSUME DownlinkInit  PROVE DownlinkInv
  OBVIOUS
<1>1. StageInv(0, <<>>, <<>>)
  BY DownlinkConstants DEF StageInv, EndsWith
<1>2. DownlinkOK
  BY DEF DownlinkInit, DownlinkOK
<1>3. \A s \in Stage : audioIn[s] = 0 /\ downlinkBuffer[s] = <<>> /\ framesOut[s] = <<>>
  BY DEF DownlinkInit
<1> QED  BY <1>1, <1>2, <1>3 DEF DownlinkInv

\* Nothing else touches the buffers.
LEMMA DownlinkStutters == DownlinkInv /\ UNCHANGED downlinkVars => DownlinkInv'
<1> SUFFICES ASSUME DownlinkInv, UNCHANGED downlinkVars  PROVE DownlinkInv'
  OBVIOUS
<1>1. audioIn' = audioIn /\ downlinkBuffer' = downlinkBuffer /\ framesOut' = framesOut
  BY DEF downlinkVars
<1> QED  BY <1>1 DEF DownlinkInv, DownlinkOK

\* onAudioSocketData and onBotAudio, of one stage.
LEMMA OnAudioKeeps ==
  ASSUME DownlinkInv, NEW s \in Stage, NEW n \in 1 .. MaxChunk, OnAudio(s, n)
  PROVE  DownlinkInv'
<1> DEFINE b == KeepEnd(downlinkBuffer[s] \o Chunk(audioIn[s], n))
<1>1. /\ audioIn \in [Stage -> Nat] /\ downlinkBuffer \in [Stage -> Seq(Nat)]
      /\ framesOut \in [Stage -> Seq(Seq(Nat))] /\ n \in Nat
  BY DownlinkConstants DEF DownlinkInv, DownlinkOK
<1>2. StageInv(audioIn[s] + n, b, framesOut[s])
  BY <1>1, BytesArrive DEF DownlinkInv
<1>3. b \in Seq(Nat) /\ audioIn[s] + n \in Nat
  BY <1>2 DEF StageInv, EndsWith
<1> HIDE DEF b
<1>4. /\ audioIn' = [audioIn EXCEPT ![s] = audioIn[s] + n]
      /\ downlinkBuffer' = [downlinkBuffer EXCEPT ![s] = b] /\ framesOut' = framesOut
  BY <1>1 DEF OnAudio, b
<1>5. DownlinkOK'
  BY <1>1, <1>3, <1>4 DEF DownlinkOK
<1>6. ASSUME NEW t \in Stage
      PROVE  StageInv(audioIn'[t], downlinkBuffer'[t], framesOut'[t])
  <2>1. CASE t = s
    BY <1>1, <1>2, <1>4, <2>1
  <2>2. CASE t # s
    BY <1>1, <1>4, <2>2 DEF DownlinkInv
  <2> QED  BY <2>1, <2>2
<1> QED  BY <1>5, <1>6 DEF DownlinkInv

\* processDownlink, of one stage.
LEMMA TakeFrameKeeps ==
  ASSUME DownlinkInv, NEW s \in Stage, TakeFrame(s)
  PROVE  DownlinkInv'
<1>1. CASE ~HasFrame(s)
  BY <1>1, DownlinkStutters DEF TakeFrame, downlinkVars
<1>2. CASE HasFrame(s)
  <2> DEFINE b == SubSeq(downlinkBuffer[s], FrameSize + 1, Len(downlinkBuffer[s]))
  <2> DEFINE fs == Append(framesOut[s], NextFrame(s))
  <2>1. /\ audioIn \in [Stage -> Nat] /\ downlinkBuffer \in [Stage -> Seq(Nat)]
        /\ framesOut \in [Stage -> Seq(Seq(Nat))]
    BY DEF DownlinkInv, DownlinkOK
  <2>2. StageInv(audioIn[s], b, fs)
    BY <1>2, FrameLeaves DEF DownlinkInv, HasFrame, NextFrame
  <2>3. b \in Seq(Nat) /\ fs \in Seq(Seq(Nat))
    BY <2>2 DEF StageInv, EndsWith
  <2> HIDE DEF b, fs
  <2>4. /\ downlinkBuffer' = [downlinkBuffer EXCEPT ![s] = b] /\ audioIn' = audioIn
        /\ framesOut' = [framesOut EXCEPT ![s] = fs]
    BY <1>2, <2>1 DEF TakeFrame, b, fs
  <2>5. DownlinkOK'
    BY <2>1, <2>3, <2>4 DEF DownlinkOK
  <2>6. ASSUME NEW t \in Stage
        PROVE  StageInv(audioIn'[t], downlinkBuffer'[t], framesOut'[t])
    <3>1. CASE t = s
      BY <2>1, <2>2, <2>4, <3>1
    <3>2. CASE t # s
      BY <2>1, <2>4, <3>2 DEF DownlinkInv
    <3> QED  BY <3>1, <3>2
  <2> QED  BY <2>5, <2>6 DEF DownlinkInv
<1> QED  BY <1>1, <1>2

\* The invariant is inductive ...
LEMMA DownlinkKeeps ==
  ASSUME DownlinkInv, [DownlinkNext]_downlinkVars
  PROVE  DownlinkInv'
<1>1. ASSUME NEW s \in Stage, TakeFrame(s)  PROVE DownlinkInv'
  BY <1>1, TakeFrameKeeps
<1>2. ASSUME NEW s \in Stage, NEW n \in 1 .. MaxChunk, OnAudio(s, n)  PROVE DownlinkInv'
  BY <1>2, OnAudioKeeps
<1>3. CASE UNCHANGED downlinkVars
  BY <1>3, DownlinkStutters
<1> QED  BY <1>1, <1>2, <1>3 DEF DownlinkNext

\* ... and is enough.
LEMMA DownlinkInvImplies ==
  ASSUME DownlinkInv
  PROVE  DownlinkOK /\ BufferIsLatest /\ FramesInOrder
<1>1. ASSUME NEW s \in Stage
      PROVE  /\ downlinkBuffer[s] \in Seq(Nat) /\ Len(downlinkBuffer[s]) \in Nat
             /\ DOMAIN downlinkBuffer[s] = 1 .. Len(downlinkBuffer[s])
             /\ framesOut[s] \in Seq(Seq(Nat)) /\ Len(framesOut[s]) \in Nat
             /\ DOMAIN framesOut[s] = 1 .. Len(framesOut[s])
             /\ audioIn[s] \in Nat
             /\ StageInv(audioIn[s], downlinkBuffer[s], framesOut[s])
  BY DEF DownlinkInv, DownlinkOK
<1>2. BufferIsLatest
  BY <1>1 DEF StageInv, EndsWith, BufferIsLatest
<1>3. FramesInOrder
  <2> SUFFICES ASSUME NEW s \in Stage
               PROVE  LET b == downlinkBuffer[s]
                          f == framesOut[s]
                      IN  /\ \A k \in DOMAIN f :
                               /\ Len(f[k]) = FrameSize
                               /\ \A i \in 1 .. FrameSize : f[k][i] = f[k][1] + i - 1
                          /\ \A k, l \in DOMAIN f : k < l => f[k][FrameSize] < f[l][1]
                          /\ f # <<>> /\ b # <<>> => f[Len(f)][FrameSize] < b[1]
    BY DEF FramesInOrder
  <2> DEFINE f == framesOut[s]
             b == downlinkBuffer[s]
  <2>1. ASSUME f # <<>>, b # <<>>  PROVE f[Len(f)][FrameSize] < b[1]
    <3>1. Len(f) \in 1 .. Len(f) /\ 1 \in 1 .. Len(b)
      BY <1>1, <2>1, EmptySeq
    <3>2. f[Len(f)][FrameSize] \in Nat /\ f[Len(f)][FrameSize] <= audioIn[s] - Len(b)
      BY <1>1, <3>1, FrameEnds DEF StageInv
    <3>3. b[1] = audioIn[s] - Len(b) + 1
      BY <1>1, <3>1 DEF StageInv, EndsWith
    <3> QED  BY <1>1, <3>2, <3>3
  <2>2. \A k \in 1 .. Len(f) : IsFrame(f[k])
    BY <1>1 DEF StageInv
  <2>3. \A k, l \in 1 .. Len(f) : k < l => f[k][FrameSize] < f[l][1]
    BY <1>1 DEF StageInv
  <2> QED  BY <1>1, <2>1, <2>2, <2>3 DEF IsFrame
<1> QED  BY <1>2, <1>3 DEF DownlinkInv

-----------------------------------------------------------------------------

\* Whatever the order in which audio arrives and frames are taken, of any number of
\* stages, onAudioSocketData and onBotAudio keep the end of what was received, and
\* processDownlink plays it forwards, never a byte twice.
THEOREM DownlinkIsSound == DownlinkSpec => [](BufferIsLatest /\ FramesInOrder)
<1>1. DownlinkInv /\ [DownlinkNext]_downlinkVars => DownlinkInv'
  BY DownlinkKeeps
<1>2. DownlinkInv => BufferIsLatest /\ FramesInOrder
  BY DownlinkInvImplies
<1> QED  BY DownlinkStarts, <1>1, <1>2, PTL DEF DownlinkSpec

-----------------------------------------------------------------------------
(* G711: by cases on the segment, in which the quantiser is linear         *)
(* arithmetic.                                                             *)

\* What C++ and TLA+ agree on for a number that is not negative: a whole quotient.
LEMMA Division ==
  ASSUME NEW b \in Nat, NEW unit \in Nat \ {0}
  PROVE  /\ b \div unit \in Nat
         /\ unit * (b \div unit) <= b
         /\ b < unit * (b \div unit) + unit
OBVIOUS

\* & 0x0F takes the leading one off a number of five bits.
LEMMA FourBits ==
  ASSUME NEW k \in 16 .. 31
  PROVE  k % 16 = k - 16
OBVIOUS

\* 1 << seg for each of the eight segments.
LEMMA PowerValues ==
  /\ Power(0) = 1 /\ Power(1) = 2 /\ Power(2) = 4 /\ Power(3) = 8
  /\ Power(4) = 16 /\ Power(5) = 32 /\ Power(6) = 64 /\ Power(7) = 128
BY DEF Power

\* The chain of comparisons puts a magnitude between two powers of two.
LEMMA SegmentBounds ==
  ASSUME NEW b \in Nat, b < 32768, NEW seg, seg = Segment(b), NEW p, p = Power(seg)
  PROVE  /\ seg \in 0 .. 7
         /\ p \in {1, 2, 4, 8, 16, 32, 64, 128}
         /\ b < 256 * p
         /\ 128 <= b => 128 * p <= b
<1>1. CASE b < 256
  <2>1. seg = 0  BY <1>1 DEF Segment
  <2>2. p = 1  BY <2>1, PowerValues
  <2> QED  BY <1>1, <2>1, <2>2
<1>2. CASE 256 <= b /\ b < 512
  <2>1. seg = 1  BY <1>2 DEF Segment
  <2>2. p = 2  BY <2>1, PowerValues
  <2> QED  BY <1>2, <2>1, <2>2
<1>3. CASE 512 <= b /\ b < 1024
  <2>1. seg = 2  BY <1>3 DEF Segment
  <2>2. p = 4  BY <2>1, PowerValues
  <2> QED  BY <1>3, <2>1, <2>2
<1>4. CASE 1024 <= b /\ b < 2048
  <2>1. seg = 3  BY <1>4 DEF Segment
  <2>2. p = 8  BY <2>1, PowerValues
  <2> QED  BY <1>4, <2>1, <2>2
<1>5. CASE 2048 <= b /\ b < 4096
  <2>1. seg = 4  BY <1>5 DEF Segment
  <2>2. p = 16  BY <2>1, PowerValues
  <2> QED  BY <1>5, <2>1, <2>2
<1>6. CASE 4096 <= b /\ b < 8192
  <2>1. seg = 5  BY <1>6 DEF Segment
  <2>2. p = 32  BY <2>1, PowerValues
  <2> QED  BY <1>6, <2>1, <2>2
<1>7. CASE 8192 <= b /\ b < 16384
  <2>1. seg = 6  BY <1>7 DEF Segment
  <2>2. p = 64  BY <2>1, PowerValues
  <2> QED  BY <1>7, <2>1, <2>2
<1>8. CASE 16384 <= b
  <2>1. seg = 7  BY <1>8 DEF Segment
  <2>2. p = 128  BY <2>1, PowerValues
  <2>3. 16384 <= b /\ b < 32768  BY <1>8
  <2> QED  BY <2>1, <2>2, <2>3
<1> QED  BY <1>1, <1>2, <1>3, <1>4, <1>5, <1>6, <1>7, <1>8

-----------------------------------------------------------------------------
(* A step: segment p begins at 128 p and has sixteen steps of 8 p.         *)

Widths == {1, 2, 4, 8, 16, 32, 64, 128}
IsBiased(b) == 128 <= b /\ b < 32768
IsInSegment(b, p) == 128 * p <= b /\ b < 256 * p
IsInStep(b, p, low) ==
  8 * p * low <= b - 128 * p /\ b - 128 * p < 8 * p * low + 8 * p
Middle(p, low) == (low * 8 + 132) * p
IsHalfStep(t, b, p) == t - b <= 4 * p /\ b - t <= 4 * p

\* The four bits below the leading one are the step that b is in.
LEMMA StepOf ==
  ASSUME NEW p \in Widths, NEW b \in Nat, IsInSegment(b, p),
         NEW unit, unit = 8 * p, NEW low, low = (b \div unit) % 16
  PROVE  low \in 0 .. 15 /\ IsInStep(b, p, low)
<1>1. unit \in Nat \ {0}
  BY DEF Widths
<1>2. PICK k : k = b \div unit
  OBVIOUS
<1>3. k \in Nat /\ unit * k <= b /\ b < unit * k + unit
  BY <1>1, <1>2, Division
<1>4. k \in 16 .. 31
  BY <1>3 DEF Widths, IsInSegment
<1>5. low = k - 16
  BY <1>2, <1>4, FourBits
<1> QED  BY <1>3, <1>4, <1>5 DEF Widths, IsInStep

\* The middle of a step is within half a step of what is in the step.
LEMMA MiddleIsNear ==
  ASSUME NEW p \in Widths, NEW b \in Nat, NEW low \in 0 .. 15, IsInStep(b, p, low),
         NEW t, t = Middle(p, low)
  PROVE  t \in Nat /\ 132 <= t /\ IsHalfStep(t, b, p)
<1>1. CASE p = 1
  BY <1>1 DEF IsInStep, IsHalfStep, Middle
<1>2. CASE p = 2
  BY <1>2 DEF IsInStep, IsHalfStep, Middle
<1>3. CASE p = 4
  BY <1>3 DEF IsInStep, IsHalfStep, Middle
<1>4. CASE p = 8
  BY <1>4 DEF IsInStep, IsHalfStep, Middle
<1>5. CASE p = 16
  BY <1>5 DEF IsInStep, IsHalfStep, Middle
<1>6. CASE p = 32
  BY <1>6 DEF IsInStep, IsHalfStep, Middle
<1>7. CASE p = 64
  BY <1>7 DEF IsInStep, IsHalfStep, Middle
<1>8. CASE p = 128
  BY <1>8 DEF IsInStep, IsHalfStep, Middle
<1> QED
  BY <1>1, <1>2, <1>3, <1>4, <1>5, <1>6, <1>7, <1>8 DEF Widths

\* What the decoder makes of a segment and a step of a biased magnitude.
LEMMA StepIsNear ==
  ASSUME NEW b \in Nat, IsBiased(b), NEW seg, seg = Segment(b),
         NEW p, p = Power(seg), NEW unit, unit = 8 * p,
         NEW low, low = (b \div unit) % 16, NEW t, t = Middle(p, low)
  PROVE  /\ seg \in 0 .. 7 /\ low \in 0 .. 15 /\ p \in Widths
         /\ t \in Nat /\ 132 <= t /\ IsHalfStep(t, b, p)
<1>1. seg \in 0 .. 7 /\ p \in Widths /\ IsInSegment(b, p)
  BY SegmentBounds DEF Widths, IsInSegment, IsBiased
<1>2. low \in 0 .. 15 /\ IsInStep(b, p, low)
  BY <1>1, StepOf, Zenon
<1>3. t \in Nat /\ 132 <= t /\ IsHalfStep(t, b, p)
  BY <1>1, <1>2, MiddleIsNear, Zenon
<1> QED  BY <1>1, <1>2, <1>3, Zenon

\* A code is its sign, its segment and its step.
LEMMA CodeParts ==
  ASSUME NEW seg \in 0 .. 7, NEW low \in 0 .. 15, NEW code, code = 16 * seg + low
  PROVE  /\ code \in 0 .. 127
         /\ code % 16 = low /\ (code \div 16) % 8 = seg
         /\ (code + 128) % 16 = low /\ ((code + 128) \div 16) % 8 = seg
OBVIOUS

-----------------------------------------------------------------------------
(* mu-law.                                                                 *)

CanBeNegated(pcm) == -32767 <= pcm /\ pcm <= 32767
Biased(pcm) == AtMost(Magnitude(pcm), 32635) + 132
Unbiased(pcm, t) == IF pcm < 0 THEN 132 - t ELSE t - 132
MuLawBits(pcm, seg, low) ==
  IF pcm < 0 THEN 16 * seg + low + 128 ELSE 16 * seg + low

\* The ends of int16_t, without their digits.
LEMMA Interval ==
  ASSUME NEW least \in Int, NEW most \in Int, NEW x \in least .. most
  PROVE  x \in Int /\ least <= x /\ x <= most
OBVIOUS

\* A sample is a number.
LEMMA SampleIsInt == \A x \in Sample : x \in Int
<1>1. Lowest \in Int /\ Highest \in Int
  BY DEF Lowest, Highest
<1> QED  BY <1>1, Interval DEF Sample

\* AudioSocketStage clamps what it makes louder to int16_t.
LEMMA GainIsSample ==
  ASSUME NEW x \in Int
  PROVE  Gain(x) \in Sample
<1>1. ASSUME NEW least \in Int, NEW most \in Int, NEW y \in Int, least <= y, y <= most
      PROVE  y \in least .. most
  BY <1>1
<1>2. Gain(x) \in Int /\ Lowest <= Gain(x) /\ Gain(x) <= Highest
  BY DEF Gain, Lowest, Highest
<1>3. Lowest \in Int /\ Highest \in Int
  BY DEF Lowest, Highest
<1> QED  BY <1>1, <1>2, <1>3 DEF Sample

\* Every sample but one is the opposite of a sample.
LEMMA SampleCanBeNegated ==
  ASSUME NEW pcm \in Sample, pcm # -32768
  PROVE  pcm \in Int /\ CanBeNegated(pcm)
<1>1. Lowest \in Int /\ Highest \in Int
  BY DEF Lowest, Highest
<1>2. pcm \in Int /\ Lowest <= pcm /\ pcm <= Highest
  BY <1>1, Interval DEF Sample
<1> QED  BY <1>2 DEF Lowest, Highest, CanBeNegated

\* The bias lifts every magnitude into a segment; the clip keeps it in the last one.
LEMMA BiasedMagnitude ==
  ASSUME NEW pcm \in Int, CanBeNegated(pcm)
  PROVE  Biased(pcm) \in Nat /\ IsBiased(Biased(pcm))
BY DEF CanBeNegated, Biased, AtMost, Magnitude, IsBiased

\* Without the bias the middle of a step is as near to the sample, and has its sign.
LEMMA UnbiasedIsClose ==
  ASSUME NEW pcm \in Int, CanBeNegated(pcm), NEW p \in Widths,
         p = Power(Segment(Biased(pcm))),
         NEW t \in Nat, 132 <= t, IsHalfStep(t, Biased(pcm), p)
  PROVE  IsCloseTo(0, Unbiased(pcm, t), pcm)
<1>1. Clipped(0, pcm) \in Nat /\ Biased(pcm) = Clipped(0, pcm) + 132
  BY DEF Clipped, Biased, CanBeNegated, AtMost, Magnitude
<1>2. HalfStep(0, pcm) = 4 * p
  BY <1>1 DEF HalfStep
<1>3. /\ Magnitude(Unbiased(pcm, t)) = t - 132
      /\ IF pcm < 0 THEN Unbiased(pcm, t) <= 0 ELSE Unbiased(pcm, t) >= 0
  BY DEF Magnitude, Unbiased
<1>4. Magnitude((t - 132) - Clipped(0, pcm)) <= 4 * p
  BY <1>1 DEF Magnitude, IsHalfStep, Widths
<1> QED  BY <1>2, <1>3, <1>4 DEF IsCloseTo

\* linearToULaw puts sign, segment and step together ...
LEMMA MuLawCode ==
  ASSUME NEW pcm \in Int, CanBeNegated(pcm), NEW seg, seg = Segment(Biased(pcm)),
         NEW unit, unit = 8 * Power(seg), NEW low, low = (Biased(pcm) \div unit) % 16
  PROVE  LinearToULaw(pcm) = MuLawBits(pcm, seg, low)
BY DEF CanBeNegated, Biased, Magnitude, Negated, LinearToULaw, MuLawBits

\* ... and ulawToLinear takes them apart.
LEMMA MuLawSample ==
  ASSUME NEW pcm \in Int, NEW seg \in 0 .. 7, NEW low \in 0 .. 15, NEW code,
         code = MuLawBits(pcm, seg, low)
  PROVE  /\ code \in Code
         /\ ULawToLinear(code) = Unbiased(pcm, Middle(Power(seg), low))
<1> DEFINE bits == 16 * seg + low
<1>1. /\ bits \in 0 .. 127
      /\ bits % 16 = low /\ (bits \div 16) % 8 = seg
      /\ (bits + 128) % 16 = low /\ ((bits + 128) \div 16) % 8 = seg
  BY CodeParts
<1> HIDE DEF bits
<1>3. CASE pcm < 0
  <2>1. code = bits + 128
    BY <1>3 DEF bits, MuLawBits
  <2>2. code \in Code /\ code >= 128
    BY <1>1, <2>1 DEF Code
  <2>3. ULawToLinear(code) = 132 - (low * 8 + 132) * Power(seg)
    BY <1>1, <2>1, <2>2 DEF ULawToLinear
  <2> QED  BY <1>3, <2>2, <2>3 DEF Unbiased, Middle
<1>4. CASE ~(pcm < 0)
  <2>1. code = bits
    BY <1>4 DEF bits, MuLawBits
  <2>2. code \in Code /\ ~(code >= 128)
    BY <1>1, <2>1 DEF Code
  <2>3. ULawToLinear(code) = (low * 8 + 132) * Power(seg) - 132
    BY <1>1, <2>1, <2>2 DEF ULawToLinear
  <2> QED  BY <1>4, <2>2, <2>3 DEF Unbiased, Middle
<1> QED  BY <1>3, <1>4

\* There and back in mu-law.
LEMMA MuLawIsClose ==
  ASSUME NEW pcm \in Int, CanBeNegated(pcm)
  PROVE  /\ LinearToULaw(pcm) \in Code
         /\ IsCloseTo(0, ULawToLinear(LinearToULaw(pcm)), pcm)
<1> DEFINE b == Biased(pcm)
<1> DEFINE seg == Segment(b)
<1> DEFINE p == Power(seg)
<1> DEFINE low == (b \div (8 * p)) % 16
<1> DEFINE t == Middle(p, low)
<1>1. b \in Nat /\ IsBiased(b)
  BY BiasedMagnitude
<1> HIDE DEF b
<1>2. /\ seg \in 0 .. 7 /\ low \in 0 .. 15 /\ p \in Widths
      /\ t \in Nat /\ 132 <= t /\ IsHalfStep(t, b, p)
  BY <1>1, StepIsNear, Zenon
<1>3. LinearToULaw(pcm) = MuLawBits(pcm, seg, low)
  BY MuLawCode DEF b
<1> HIDE DEF low
<1>4. /\ LinearToULaw(pcm) \in Code
      /\ ULawToLinear(LinearToULaw(pcm)) = Unbiased(pcm, t)
  BY <1>2, <1>3, MuLawSample, Zenon
<1> HIDE DEF t
<1>5. IsCloseTo(0, Unbiased(pcm, t), pcm)
  BY <1>2, UnbiasedIsClose DEF b
<1> QED  BY <1>4, <1>5

-----------------------------------------------------------------------------
(* A-law: sixteen steps of 16 in the lowest segment, and no bias.          *)

ALawUnit(seg) == IF seg < 2 THEN 16 ELSE 8 * Power(seg)
ALawBits(pcm, seg, low) ==
  IF pcm < 0 THEN 16 * seg + low ELSE 16 * seg + low + 128
ALawMiddle(seg, low) == IF seg = 0 THEN 16 * low + 8 ELSE Middle(Power(seg), low)
Signed(pcm, t) == IF pcm < 0 THEN -t ELSE t

\* linearToALaw puts sign, segment and step together ...
LEMMA ALawCode ==
  ASSUME NEW pcm \in Int, CanBeNegated(pcm), NEW seg, seg = Segment(Magnitude(pcm)),
         NEW unit, unit = ALawUnit(seg), NEW low, low = (Magnitude(pcm) \div unit) % 16
  PROVE  LinearToALaw(pcm) = ALawBits(pcm, seg, low)
BY DEF CanBeNegated, Magnitude, Negated, AtMost, LinearToALaw, ALawUnit, ALawBits

\* alawToLinear begins a segment where linearToALaw does.
LEMMA SegmentMiddle ==
  ASSUME NEW seg \in 1 .. 7, NEW low \in 0 .. 15
  PROVE  (16 * low + 264) * Power(seg - 1) = Middle(Power(seg), low)
<1>1. Power(seg) = 2 * Power(seg - 1) /\ Power(seg - 1) \in Nat
  BY PowerValues
<1> QED  BY <1>1 DEF Middle

\* ... and alawToLinear takes them apart.
LEMMA ALawSample ==
  ASSUME NEW pcm \in Int, NEW seg \in 0 .. 7, NEW low \in 0 .. 15, NEW code,
         code = ALawBits(pcm, seg, low)
  PROVE  /\ code \in Code
         /\ ALawToLinear(code) = Signed(pcm, ALawMiddle(seg, low))
<1> DEFINE bits == 16 * seg + low
<1>1. /\ bits \in 0 .. 127
      /\ bits % 16 = low /\ (bits \div 16) % 8 = seg
      /\ (bits + 128) % 16 = low /\ ((bits + 128) \div 16) % 8 = seg
  BY CodeParts
<1> HIDE DEF bits
<1> DEFINE value == IF seg = 0 THEN low * 16 + 8 ELSE (low * 16 + 264) * Power(seg - 1)
<1>2. value = ALawMiddle(seg, low)
  BY SegmentMiddle DEF ALawMiddle
<1>3. CASE pcm < 0
  <2>1. code = bits
    BY <1>3 DEF bits, ALawBits
  <2>2. code \in Code /\ ~(code >= 128)
    BY <1>1, <2>1 DEF Code
  <2>3. ALawToLinear(code) = -value
    BY <1>1, <2>1, <2>2 DEF ALawToLinear
  <2> QED  BY <1>2, <1>3, <2>2, <2>3 DEF Signed
<1>4. CASE ~(pcm < 0)
  <2>1. code = bits + 128
    BY <1>4 DEF bits, ALawBits
  <2>2. code \in Code /\ code >= 128
    BY <1>1, <2>1 DEF Code
  <2>3. ALawToLinear(code) = value
    BY <1>1, <2>1, <2>2 DEF ALawToLinear
  <2> QED  BY <1>2, <1>4, <2>2, <2>3 DEF Signed
<1> QED  BY <1>3, <1>4

\* The lowest segment: within half of 16.
LEMMA LowestSegment ==
  ASSUME NEW b, b \in Nat, b < 256, NEW low, low = (b \div 16) % 16
  PROVE  low \in 0 .. 15 /\ -8 <= 16 * low + 8 - b /\ 16 * low + 8 - b <= 8
OBVIOUS

\* With its sign, what is near to the magnitude is near to the sample.
LEMMA SignedIsClose ==
  ASSUME NEW payloadType, payloadType # 0, NEW pcm \in Int, CanBeNegated(pcm),
         NEW t \in Nat, NEW h \in Nat, h = HalfStep(payloadType, pcm),
         t - Magnitude(pcm) <= h, Magnitude(pcm) - t <= h
  PROVE  IsCloseTo(payloadType, Signed(pcm, t), pcm)
<1>1. Clipped(payloadType, pcm) = Magnitude(pcm) /\ Magnitude(pcm) \in Nat
  BY DEF Clipped, Magnitude
<1>2. /\ Magnitude(Signed(pcm, t)) = t
      /\ IF pcm < 0 THEN Signed(pcm, t) <= 0 ELSE Signed(pcm, t) >= 0
  BY DEF Magnitude, Signed
<1>3. Magnitude(t - Magnitude(pcm)) <= h
  <2> DEFINE m == Magnitude(pcm)
  <2>1. m \in Nat /\ t - m <= h /\ m - t <= h
    BY <1>1
  <2> HIDE DEF m
  <2>2. Magnitude(t - m) <= h
    BY <2>1 DEF Magnitude
  <2> QED  BY <2>2 DEF m
<1> QED  BY <1>1, <1>2, <1>3 DEF IsCloseTo

\* There and back in A-law.
LEMMA ALawIsClose ==
  ASSUME NEW payloadType, payloadType # 0, NEW pcm \in Int, CanBeNegated(pcm)
  PROVE  /\ LinearToALaw(pcm) \in Code
         /\ IsCloseTo(payloadType, ALawToLinear(LinearToALaw(pcm)), pcm)
<1> DEFINE b == Magnitude(pcm)
<1> DEFINE seg == Segment(b)
<1> DEFINE low == (b \div ALawUnit(seg)) % 16
<1> DEFINE t == ALawMiddle(seg, low)
<1> DEFINE h == HalfStep(payloadType, pcm)
<1>1. b \in Nat /\ b < 32768
  BY DEF CanBeNegated, Magnitude
<1>2. LinearToALaw(pcm) = ALawBits(pcm, seg, low)
  BY ALawCode
<1>3. h = IF b < 256 THEN 8 ELSE 4 * Power(seg)
  BY DEF HalfStep, Clipped
<1> HIDE DEF b, h
<1>4. /\ seg \in 0 .. 7 /\ low \in 0 .. 15
      /\ t \in Nat /\ h \in Nat /\ t - b <= h /\ b - t <= h
  <2>1. CASE b < 256
    <3>1. seg = 0
      BY <2>1 DEF Segment
    <3>2. low = (b \div 16) % 16
      BY <3>1 DEF ALawUnit
    <3> HIDE DEF seg, low
    <3>3. low \in 0 .. 15 /\ -8 <= 16 * low + 8 - b /\ 16 * low + 8 - b <= 8
      BY <1>1, <2>1, <3>2, LowestSegment
    <3>4. t = 16 * low + 8
      BY <3>1 DEF ALawMiddle
    <3> HIDE DEF t
    <3> QED  BY <1>1, <1>3, <2>1, <3>1, <3>3, <3>4
  <2>2. CASE 256 <= b
    <3>1. b \in Nat /\ IsBiased(b)
      BY <1>1, <2>2 DEF IsBiased
    <3>2. seg # 0
      BY <1>1, <2>2 DEF Segment
    <3>3. seg \in 1 .. 7
      BY <1>1, <3>2, SegmentBounds
    <3>4. ALawUnit(seg) = 8 * Power(seg)
      BY <3>3, PowerValues DEF ALawUnit
    <3>5. t = Middle(Power(seg), low)
      BY <3>2 DEF ALawMiddle
    <3> HIDE DEF t
    <3>6. low \in 0 .. 15 /\ t \in Nat /\ Power(seg) \in Widths /\ IsHalfStep(t, b, Power(seg))
      BY <3>1, <3>4, <3>5, StepIsNear, ZenonT(40)
    <3>7. h = 4 * Power(seg)
      BY <1>1, <1>3, <2>2
    <3> HIDE DEF seg, low
    <3> QED  BY <1>1, <3>3, <3>6, <3>7 DEF IsHalfStep, Widths
  <2> QED  BY <1>1, <2>1, <2>2
<1> HIDE DEF seg, low
<1>5. /\ LinearToALaw(pcm) \in Code
      /\ ALawToLinear(LinearToALaw(pcm)) = Signed(pcm, t)
  BY <1>2, <1>4, ALawSample, Zenon
<1> HIDE DEF t
<1>6. IsCloseTo(payloadType, Signed(pcm, t), pcm)
  BY <1>4, SignedIsClose DEF b, h
<1> QED  BY <1>5, <1>6

-----------------------------------------------------------------------------

\* Whatever the agreed codec, a sample goes out as one byte and is heard to half a
\* step of what it was; all but the loudest negative one.
THEOREM SampleIsHeard ==
  ASSUME NEW payloadType, NEW pcm \in Sample, pcm # -32768
  PROVE  /\ Encode(payloadType, pcm) \in Code
         /\ IsCloseTo(payloadType, Decode(payloadType, Encode(payloadType, pcm)), pcm)
<1>1. pcm \in Int /\ CanBeNegated(pcm)
  BY SampleCanBeNegated
<1>2. CASE payloadType = 0
  BY <1>1, <1>2, MuLawIsClose DEF Encode, Decode
<1>3. CASE payloadType # 0
  BY <1>1, <1>3, ALawIsClose DEF Encode, Decode
<1> QED  BY <1>2, <1>3

\* linearToULaw and linearToALaw negate the sample as an int16_t, in which -32768 has
\* no opposite: the loudest sample there is is heard as silence.
THEOREM LoudestIsSilent ==
  /\ Decode(0, Encode(0, -32768)) = 0
  /\ Decode(8, Encode(8, -32768)) = -8
<1>1. LinearToULaw(-32768) = 128
  BY PowerValues DEF LinearToULaw, Negated, AtMost, Segment
<1>2. ULawToLinear(128) = 0
  BY PowerValues DEF ULawToLinear
<1>3. LinearToALaw(-32768) = 0
  BY DEF LinearToALaw, Negated, AtMost, Segment
<1>4. ALawToLinear(0) = -8
  BY DEF ALawToLinear
<1> QED  BY <1>1, <1>2, <1>3, <1>4 DEF Encode, Decode

\* What the gain clamps to it: a third of the range, and all below.
LEMMA GainIsLowest ==
  ASSUME NEW said \in Int
  PROVE  Gain(said) = -32768 <=> said <= -10923
BY DEF Gain

\* What the phone hears of what the server says.
LEMMA GainIsHeard ==
  ASSUME NEW payloadType \in {0, 8}, NEW said \in Sample
  PROVE  LET heard == Decode(payloadType, Encode(payloadType, Gain(said)))
         IN  IF said <= -10923 THEN heard \in {0, -8}
             ELSE IsCloseTo(payloadType, heard, Gain(said))
<1> DEFINE pcm == Gain(said)
<1>1. said \in Int /\ pcm \in Sample /\ (pcm = -32768 <=> said <= -10923)
  BY SampleIsInt, GainIsSample, GainIsLowest
<1> HIDE DEF pcm
<1>2. pcm = -32768 => Decode(payloadType, Encode(payloadType, pcm)) \in {0, -8}
  BY LoudestIsSilent
<1>3. pcm # -32768 => IsCloseTo(payloadType, Decode(payloadType, Encode(payloadType, pcm)), pcm)
  BY <1>1, SampleIsHeard
<1>4. IF said <= -10923 THEN Decode(payloadType, Encode(payloadType, pcm)) \in {0, -8}
      ELSE IsCloseTo(payloadType, Decode(payloadType, Encode(payloadType, pcm)), pcm)
  BY <1>1, <1>2, <1>3
<1> QED  BY <1>4 DEF pcm

-----------------------------------------------------------------------------
(* The types.                                                              *)

Label == {"receive", "pop", "copy", "echo", "echoing", "echoed", "clear", "take",
          "number", "send"}
PayloadType == 0 .. 127
Hand == [packet : Packet \cup {Torn}, stage : {0} \cup Stage, type : PayloadType,
         to : Address, payload : Seq(Int), seq : Int, ts : Int]
Sent == [by : Worker, stage : {0} \cup Stage, type : PayloadType, to : Address,
         payload : Seq(Int), seq : Int, ts : Int]

\* Before a re-INVITE there is one port.
SessionOK ==
  /\ mode \in {"ECHO", "AUDIOSOCKET", "GRPC"}
  /\ types \in Seq(PayloadType) /\ Built \in Stage /\ pipeline \in {0, Built}
  /\ First \in ports /\ ports \subseteq Worker
  /\ Built = 1 => ports = {First}
  /\ remote \in Address /\ rtpLocked \in BOOLEAN

WorkOK ==
  /\ outgoing \in [seq : 0 .. Modulus - 1, ts : Nat]
  /\ echo \in [Stage -> [writers : SUBSET Packet, hasData : BOOLEAN]]
  /\ sent \in Seq(Sent)

\* A worker that has copied the session.
HasCopied(w) == pc[w] \in Label \ {"receive", "pop", "copy"}

WorkerOK(w) ==
  /\ pc[w] # "receive" => w \in ports
  /\ pc[w] \in {"copy", "echo", "echoing", "echoed"} => hand[w].packet \in Packet
  /\ HasCopied(w) => hand[w].stage \in 1 .. Built

WorkersOK ==
  /\ pc \in [Worker -> Label]
  /\ hand \in [Worker -> Hand]
  /\ \A w \in Worker : WorkerOK(w)

MediaTypes == JitterOK /\ DownlinkOK /\ SessionOK /\ WorkOK /\ WorkersOK

\* What a hand and a packet consist of.
LEMMA HandFields ==
  ASSUME NEW h \in Hand
  PROVE  /\ h.packet \in Packet \cup {Torn} /\ h.stage \in {0} \cup Stage
         /\ h.type \in PayloadType /\ h.to \in Address /\ h.payload \in Seq(Int)
         /\ h.seq \in Int /\ h.ts \in Int
BY DEF Hand

\* Stages are numbers.
LEMMA BuiltIsNumber ==
  ASSUME SessionOK
  PROVE  Built \in Nat /\ 1 <= Built /\ Built <= Stages /\ \A s \in 1 .. Built : s \in Stage
BY DownlinkConstants DEF SessionOK, Stage

\* A call starts with its types.
LEMMA MediaTypesStart == Init => MediaTypes
<1> SUFFICES ASSUME Init  PROVE MediaTypes
  OBVIOUS
<1>1. JitterOK /\ DownlinkOK
  BY DEF Init, JitterInit, JitterOK, DownlinkInit, DownlinkOK
<1>2. SessionOK
  <2>1. PICK session \in Session : mode = session.mode /\ types = <<session.payloadType>>
    BY DEF Init
  <2>2. /\ session.mode \in {"ECHO", "AUDIOSOCKET", "GRPC"}
        /\ session.payloadType \in PayloadType
    BY MediaAssumption DEF PayloadType
  <2>3. types \in Seq(PayloadType) /\ Len(types) = 1
    BY <2>1, <2>2
  <2>4. 1 \in Stage
    BY DownlinkConstants DEF Stage
  <2> QED  BY <2>1, <2>2, <2>3, <2>4, MediaAssumption DEF Init, SessionOK, Address, Built
<1>3. WorkOK
  <2>1. FirstNumber \in 0 .. Modulus - 1
    BY SizeAssumption
  <2> QED  BY <2>1 DEF Init, WorkOK
<1>4. WorkersOK
  <2>1. EmptyHand \in Hand
    BY DEF EmptyHand, Hand, Address, Torn, PayloadType
  <2> QED  BY <2>1 DEF Init, WorkersOK, WorkerOK, HasCopied, Label
<1> QED  BY <1>1, <1>2, <1>3, <1>4 DEF MediaTypes

\* A worker moves: the others are where they were.
LEMMA Moved ==
  ASSUME WorkersOK, UNCHANGED <<ports, types>>, NEW w \in Worker, NEW label \in Label,
         GoTo(w, label), NEW h \in Hand, hand' = [hand EXCEPT ![w] = h],
         label # "receive" => w \in ports,
         label \in {"copy", "echo", "echoing", "echoed"} => h.packet \in Packet,
         label \in Label \ {"receive", "pop", "copy"} => h.stage \in 1 .. Built
  PROVE  WorkersOK'
<1>1. /\ pc' \in [Worker -> Label] /\ pc'[w] = label
      /\ \A v \in Worker \ {w} : pc'[v] = pc[v]
  BY DEF WorkersOK, GoTo
<1>2. /\ hand' \in [Worker -> Hand] /\ hand'[w] = h
      /\ \A v \in Worker \ {w} : hand'[v] = hand[v]
  BY DEF WorkersOK
<1>3. WorkerOK(w)'
  BY <1>1, <1>2 DEF WorkerOK, HasCopied, Built
<1>4. ASSUME NEW v \in Worker, v # w  PROVE WorkerOK(v)'
  <2>1. WorkerOK(v) /\ pc'[v] = pc[v] /\ hand'[v] = hand[v]
    BY <1>1, <1>2, <1>4 DEF WorkersOK
  <2> QED  BY <2>1 DEF WorkerOK, HasCopied, Built
<1> QED  BY <1>1, <1>2, <1>3, <1>4 DEF WorkersOK

\* A worker is done.
LEMMA FinishKeeps ==
  ASSUME WorkersOK, UNCHANGED <<ports, types>>, NEW w \in Worker, Finish(w)
  PROVE  WorkersOK'
<1>1. EmptyHand \in Hand /\ "receive" \in Label
  BY DEF EmptyHand, Hand, Address, Torn, PayloadType, Label
<1>2. GoTo(w, "receive") /\ hand' = [hand EXCEPT ![w] = EmptyHand]
  BY DEF Finish
<1> QED  BY <1>1, <1>2, Moved

\* A worker moves with what it has in its hand.
LEMMA MovedOn ==
  ASSUME WorkersOK, UNCHANGED <<ports, types, hand>>, NEW w \in Worker, NEW label \in Label,
         GoTo(w, label), label # "receive" => w \in ports,
         label \in {"copy", "echo", "echoing", "echoed"} => hand[w].packet \in Packet,
         label \in Label \ {"receive", "pop", "copy"} => hand[w].stage \in 1 .. Built
  PROVE  WorkersOK'
<1>1. hand[w] \in Hand /\ hand' = [hand EXCEPT ![w] = hand[w]]
  BY DEF WorkersOK
<1> QED  BY <1>1, Moved

\* onRtpPacket of an agreed packet ...
LEMMA ReceiveTypes ==
  ASSUME MediaTypes, JitterOK', NEW w \in Worker, NEW n \in Packet, NEW from \in Sender,
         Receive(w, n, from)
  PROVE  MediaTypes'
<1>1. DownlinkOK' /\ UNCHANGED <<ports, types, hand>>
  BY DEF MediaTypes, DownlinkOK, Receive, downlinkVars
<1>2. SessionOK'
  BY DEF MediaTypes, SessionOK, Receive, LockOn, Address, Built
<1>3. WorkOK'
  BY DEF MediaTypes, WorkOK, Receive, workVars
<1>4. WorkersOK'
  <2>1. GoTo(w, "pop") /\ w \in ports /\ WorkersOK /\ "pop" \in Label
    BY DEF Receive, ServesPort, MediaTypes, Label
  <2> QED  BY <1>1, <2>1, MovedOn
<1> QED  BY <1>1, <1>2, <1>3, <1>4 DEF MediaTypes

\* ... of another one ...
LEMMA ReceiveOtherTypes ==
  ASSUME MediaTypes, NEW w \in Worker, NEW from \in Sender, ReceiveOther(w, from)
  PROVE  MediaTypes'
<1>1. JitterOK' /\ DownlinkOK'
  BY DEF MediaTypes, DownlinkOK, JitterOK, ReceiveOther, downlinkVars, jitterVars
<1>2. SessionOK'
  BY DEF MediaTypes, SessionOK, ReceiveOther, LockOn, Address, Built
<1>3. WorkOK' /\ WorkersOK'
  BY DEF MediaTypes, WorkOK, WorkersOK, WorkerOK, HasCopied, Built, ReceiveOther, workVars
<1> QED  BY <1>1, <1>2, <1>3 DEF MediaTypes

\* Nothing of the session changes.
LEMMA SessionStays ==
  ASSUME SessionOK, UNCHANGED sessionVars
  PROVE  SessionOK' /\ Built' = Built /\ UNCHANGED <<ports, types>>
BY DEF SessionOK, sessionVars, Built

\* ... processRtpFrame, which takes a frame ...
LEMMA PopFrameTypes ==
  ASSUME MediaTypes, JitterOK', Pop => Head(buffer) \in Packet, NEW w \in Worker, PopFrame(w)
  PROVE  MediaTypes'
<1>1. DownlinkOK' /\ WorkOK'
  BY DEF MediaTypes, DownlinkOK, WorkOK, PopFrame, downlinkVars, workVars
<1>2. SessionOK' /\ UNCHANGED <<ports, types>>
  BY SessionStays DEF MediaTypes, PopFrame
<1>3. WorkersOK'
  <2>1. CASE Finish(w)
    BY <1>2, <2>1, FinishKeeps DEF MediaTypes
  <2>2. CASE Pop /\ hand' = [hand EXCEPT ![w].packet = Head(buffer)] /\ GoTo(w, "copy")
    <3> DEFINE h == [hand[w] EXCEPT !.packet = Head(buffer)]
    <3>1. hand[w] \in Hand /\ w \in ports /\ WorkersOK /\ Head(buffer) \in Packet
      BY <2>2 DEF MediaTypes, WorkersOK, WorkerOK, PopFrame
    <3>2. h \in Hand /\ h.packet \in Packet
      BY <3>1 DEF Hand
    <3>3. hand' = [hand EXCEPT ![w] = h] /\ "copy" \in Label /\ GoTo(w, "copy")
      BY <2>2 DEF Label
    <3> HIDE DEF h
    <3> QED  BY <1>2, <3>1, <3>2, <3>3, Moved
  <2> QED  BY <2>1, <2>2 DEF PopFrame
<1> QED  BY <1>1, <1>2, <1>3 DEF MediaTypes

\* What a worker copies: the stage that was built last, its payload type, the address.
LEMMA CopyEffect ==
  ASSUME MediaTypes, NEW w \in Worker, CopySession(w), pipeline # 0
  PROVE  \E h \in Hand, label \in {"take", "echoed", "echo"} :
           /\ hand' = [hand EXCEPT ![w] = h] /\ GoTo(w, label)
           /\ h.stage = Built /\ h.type = types[Built] /\ h.to = remote
           /\ h.packet = hand[w].packet
           /\ label = IF mode # "ECHO" THEN "take"
                      ELSE IF hand[w].packet \in Empty THEN "echoed" ELSE "echo"
<1> DEFINE h == [hand[w] EXCEPT !.stage = pipeline, !.type = types[Built], !.to = remote]
<1>1. /\ pipeline = Built /\ Built \in Stage /\ remote \in Address
      /\ types[Built] \in PayloadType /\ hand[w] \in Hand
  <2>1. pipeline = Built /\ Built \in Stage /\ remote \in Address /\ types \in Seq(PayloadType)
    BY DEF MediaTypes, SessionOK
  <2>2. Built \in 1 .. Len(types)
    BY <2>1, DownlinkConstants DEF Built, Stage
  <2> QED  BY <2>1, <2>2 DEF MediaTypes, WorkersOK
<1>2. h \in Hand /\ h.stage = Built /\ h.type = types[Built] /\ h.to = remote
      /\ h.packet = hand[w].packet
  BY <1>1 DEF Hand
<1>3. hand' = [hand EXCEPT ![w] = h]
  BY DEF CopySession
<1> HIDE DEF h
<1> DEFINE label == IF mode # "ECHO" THEN "take"
                    ELSE IF hand[w].packet \in Empty THEN "echoed" ELSE "echo"
<1>4. GoTo(w, label) /\ label \in {"take", "echoed", "echo"}
  BY DEF CopySession
<1> HIDE DEF label
<1>5. label = IF mode # "ECHO" THEN "take"
              ELSE IF hand[w].packet \in Empty THEN "echoed" ELSE "echo"
  BY DEF label
<1> QED  BY <1>2, <1>3, <1>4, <1>5

\* ... and copies the session ...
LEMMA CopySessionTypes ==
  ASSUME MediaTypes, NEW w \in Worker, CopySession(w)
  PROVE  MediaTypes'
<1>1. JitterOK' /\ DownlinkOK' /\ WorkOK'
  BY DEF MediaTypes, DownlinkOK, JitterOK, WorkOK, CopySession, downlinkVars, jitterVars, workVars
<1>2. SessionOK' /\ UNCHANGED <<ports, types>>
  BY SessionStays DEF MediaTypes, CopySession
<1>3. WorkersOK'
  <2>1. CASE pipeline = 0
    BY <1>2, <2>1, FinishKeeps DEF MediaTypes, CopySession
  <2>2. CASE pipeline # 0
    <3>1. PICK h \in Hand, label \in {"take", "echoed", "echo"} :
             /\ hand' = [hand EXCEPT ![w] = h] /\ GoTo(w, label)
             /\ h.stage = Built /\ h.packet = hand[w].packet
      BY <2>2, CopyEffect
    <3>2. w \in ports /\ hand[w].packet \in Packet /\ WorkersOK
      BY DEF MediaTypes, WorkersOK, WorkerOK, CopySession
    <3>3. Built \in 1 .. Built
      BY BuiltIsNumber DEF MediaTypes
    <3>4. label \in Label
      BY DEF Label
    <3> QED  BY <1>2, <3>1, <3>2, <3>3, <3>4, Moved
  <2> QED  BY <2>1, <2>2
<1> QED  BY <1>1, <1>2, <1>3 DEF MediaTypes

\* What a worker has in its hand at a stage.
LEMMA AtStage ==
  ASSUME MediaTypes, NEW w \in Worker, HasCopied(w)
  PROVE  /\ hand[w].stage \in Stage /\ hand[w].stage \in 1 .. Built
         /\ w \in ports /\ hand[w] \in Hand
<1>1. pc[w] # "receive"
  BY DEF HasCopied
<1> QED  BY <1>1, BuiltIsNumber DEF MediaTypes, WorkersOK, WorkerOK

\* ... the echo stage, from write to clear ...
LEMMA EchoTypes ==
  ASSUME MediaTypes, NEW w \in Worker, BeginEcho(w) \/ EndEcho(w) \/ ClearEcho(w)
  PROVE  MediaTypes'
<1>1. JitterOK' /\ DownlinkOK' /\ UNCHANGED hand
  BY DEF MediaTypes, DownlinkOK, JitterOK, BeginEcho, EndEcho, ClearEcho, downlinkVars, jitterVars
<1>2. SessionOK' /\ UNCHANGED <<ports, types>>
  BY SessionStays DEF MediaTypes, BeginEcho, EndEcho, ClearEcho
<1>3. HasCopied(w) /\ (pc[w] \in {"echo", "echoing"} => hand[w].packet \in Packet)
  BY DEF HasCopied, Label, MediaTypes, WorkersOK, WorkerOK, BeginEcho, EndEcho, ClearEcho
<1>4. WorkersOK'
  <2>1. /\ WorkersOK /\ w \in ports /\ hand[w].stage \in 1 .. Built
        /\ {"echoing", "echoed", "number"} \subseteq Label
    BY <1>3, AtStage DEF MediaTypes, Label
  <2>2. \/ GoTo(w, "echoing") /\ hand[w].packet \in Packet
        \/ GoTo(w, "echoed") /\ hand[w].packet \in Packet
        \/ GoTo(w, "number")
    BY <1>3 DEF BeginEcho, EndEcho, ClearEcho
  <2> QED  BY <1>1, <1>2, <2>1, <2>2, MovedOn
<1>5. echo' \in [Stage -> [writers : SUBSET Packet, hasData : BOOLEAN]]
  <2>1. hand[w].stage \in Stage
    BY <1>3, AtStage
  <2>2. echo \in [Stage -> [writers : SUBSET Packet, hasData : BOOLEAN]]
    BY DEF MediaTypes, WorkOK
  <2>3. CASE BeginEcho(w)
    <3>1. ((IF Writing(hand[w].stage) = {} THEN {} ELSE echo[hand[w].stage].writers)
             \cup {hand[w].packet}) \in SUBSET Packet
      BY <1>3, <2>1, <2>2, <2>3 DEF BeginEcho
    <3> QED  BY <2>1, <2>2, <2>3, <3>1 DEF BeginEcho
  <2>4. CASE EndEcho(w)
    BY <2>1, <2>2, <2>4 DEF EndEcho
  <2>5. CASE ClearEcho(w)
    BY <2>1, <2>2, <2>5 DEF ClearEcho
  <2> QED  BY <2>3, <2>4, <2>5
<1>6. WorkOK'
  BY <1>5 DEF MediaTypes, WorkOK, BeginEcho, EndEcho, ClearEcho
<1> QED  BY <1>1, <1>2, <1>4, <1>6 DEF MediaTypes

\* The two ways to a payload.
LEMMA PayloadTypes ==
  ASSUME MediaTypes, UNCHANGED <<ports, types>>, NEW w \in Worker, HasCopied(w),
         NEW payload \in Seq(Int), hand' = [hand EXCEPT ![w].payload = payload],
         NEW label \in {"clear", "number"}, GoTo(w, label)
  PROVE  /\ WorkersOK' /\ hand'[w] \in Hand
         /\ hand'[w].payload = payload /\ hand'[w].stage = hand[w].stage
         /\ hand'[w].packet = hand[w].packet /\ hand'[w].to = hand[w].to
         /\ hand'[w].type = hand[w].type
<1> DEFINE h == [hand[w] EXCEPT !.payload = payload]
<1>1. hand[w] \in Hand /\ w \in ports /\ hand[w].stage \in 1 .. Built /\ WorkersOK
  BY AtStage DEF MediaTypes
<1>2. /\ h \in Hand /\ h.payload = payload /\ h.stage = hand[w].stage
      /\ h.packet = hand[w].packet /\ h.to = hand[w].to /\ h.type = hand[w].type
  BY <1>1 DEF Hand
<1>3. hand' = [hand EXCEPT ![w] = h] /\ hand \in [Worker -> Hand]
  BY DEF MediaTypes, WorkersOK
<1> HIDE DEF h
<1>4. hand'[w] = h
  BY <1>3
<1>5. label \in Label
  BY DEF Label
<1> QED  BY <1>1, <1>2, <1>3, <1>4, <1>5, Moved

\* What buffer_ has, when that is a packet.
LEMMA OnlyOne ==
  ASSUME NEW S \in SUBSET Packet
  PROVE  /\ Cardinality(S) = 1 => S = {CHOOSE n \in S : TRUE}
         /\ \A n : Cardinality({n}) = 1 /\ (CHOOSE m \in {n} : TRUE) = n
<1>1. ASSUME Cardinality(S) = 1  PROVE S = {CHOOSE n \in S : TRUE}
  <2>1. IsFiniteSet(Packet)
    BY FS_Interval, JitterConstants DEF Packet
  <2>2. PICK n : S = {n}
    BY <1>1, <2>1, FS_Subset, FS_Singleton
  <2> QED  BY <2>2
<1>2. \A n : Cardinality({n}) = 1
  BY FS_Singleton
<1> QED  BY <1>1, <1>2

\* What is found in buffer_ is a packet that has been written there, and by one worker
\* alone, or torn.
LEMMA ContentIs ==
  ASSUME MediaTypes, NEW s \in Stage
  PROVE  /\ Content(s) # Torn =>
              /\ Writing(s) = {} /\ echo[s].writers = {Content(s)} /\ Content(s) \in Packet
         /\ Writing(s) = {} => \A n : echo[s].writers = {n} => Content(s) = n
         /\ Content(s) \in Int
<1>1. echo[s].writers \subseteq Packet
  BY DEF MediaTypes, WorkOK
<1>2. \A n \in Packet : n \in Int /\ n # Torn
  BY JitterConstants DEF Packet, Torn
<1>3. CASE Writing(s) = {} /\ Cardinality(echo[s].writers) = 1
  <2>1. Content(s) = CHOOSE n \in echo[s].writers : TRUE
    BY <1>3 DEF Content
  <2>2. echo[s].writers = {Content(s)}
    BY <1>1, <1>3, <2>1, OnlyOne
  <2> QED  BY <1>1, <1>2, <1>3, <2>2
<1>4. CASE ~(Writing(s) = {} /\ Cardinality(echo[s].writers) = 1)
  <2>1. Content(s) = Torn /\ Torn \in Int
    BY <1>4 DEF Content, Torn
  <2>2. \A n : Cardinality({n}) = 1
    BY FS_Singleton
  <2> QED  BY <1>4, <2>1, <2>2
<1> QED  BY <1>3, <1>4

\* ... and its copy, which is a packet or torn ...
LEMMA TakeEchoTypes ==
  ASSUME MediaTypes, NEW w \in Worker, TakeEcho(w)
  PROVE  MediaTypes'
<1>1. JitterOK' /\ DownlinkOK' /\ WorkOK'
  BY DEF MediaTypes, DownlinkOK, JitterOK, WorkOK, TakeEcho, downlinkVars, jitterVars, workVars
<1>2. SessionOK' /\ UNCHANGED <<ports, types>>
  BY SessionStays DEF MediaTypes, TakeEcho
<1>3. WorkersOK'
  <2>1. CASE Finish(w)
    BY <1>2, <2>1, FinishKeeps DEF MediaTypes
  <2>2. CASE ~Finish(w)
    <3> DEFINE payload == <<Content(hand[w].stage)>>
    <3>1. hand' = [hand EXCEPT ![w].payload = payload] /\ GoTo(w, "clear") /\ HasCopied(w)
      BY <2>2 DEF TakeEcho, HasCopied, Label
    <3>2. Content(hand[w].stage) \in Int
      BY <3>1, AtStage, ContentIs
    <3>3. payload \in Seq(Int)
      BY <3>2
    <3> HIDE DEF payload
    <3> QED  BY <1>2, <3>1, <3>3, PayloadTypes
  <2> QED  BY <2>1, <2>2
<1> QED  BY <1>1, <1>2, <1>3 DEF MediaTypes

\* ... the stage with a downlink ...
LEMMA TakeDownlinkTypes ==
  ASSUME MediaTypes, DownlinkOK', NEW w \in Worker, TakeDownlink(w)
  PROVE  MediaTypes'
<1>1. JitterOK' /\ WorkOK'
  BY DEF MediaTypes, JitterOK, WorkOK, TakeDownlink, jitterVars, workVars
<1>2. SessionOK' /\ UNCHANGED <<ports, types>>
  BY SessionStays DEF MediaTypes, TakeDownlink
<1>3. WorkersOK'
  <2>1. CASE Finish(w)
    BY <1>2, <2>1, FinishKeeps DEF MediaTypes
  <2>2. CASE ~Finish(w)
    <3> DEFINE s == hand[w].stage
    <3>1. /\ hand' = [hand EXCEPT ![w].payload = NextFrame(s)] /\ GoTo(w, "number")
          /\ HasCopied(w) /\ HasFrame(s)
      BY <2>2 DEF TakeDownlink, HasCopied, Label
    <3>2. downlinkBuffer[s] \in Seq(Nat) /\ FrameSize <= Len(downlinkBuffer[s])
      BY <3>1, AtStage DEF MediaTypes, DownlinkOK, HasFrame
    <3>3. NextFrame(s) \in Seq(Int)
      <4>1. \A i \in 1 .. FrameSize : downlinkBuffer[s][i] \in Int
        BY <3>2, DownlinkConstants, ElementOfSeq
      <4> QED  BY <3>2, <4>1, DownlinkConstants, SubSeqProperties DEF NextFrame
    <3> QED  BY <1>2, <3>1, <3>3, PayloadTypes
  <2> QED  BY <2>1, <2>2
<1> QED  BY <1>1, <1>2, <1>3 DEF MediaTypes

\* What a worker has in its hand when it has taken a number.
LEMMA NumberEffect ==
  ASSUME MediaTypes, NEW w \in Worker, TakeNumber(w)
  PROVE  /\ outgoing' \in [seq : 0 .. Modulus - 1, ts : Nat]
         /\ \E h \in Hand :
              /\ hand' = [hand EXCEPT ![w] = h] /\ hand'[w] = h
              /\ h.seq = outgoing'.seq /\ h.ts = outgoing'.ts
              /\ h.packet = hand[w].packet /\ h.stage = hand[w].stage
              /\ h.type = hand[w].type /\ h.to = hand[w].to /\ h.payload = hand[w].payload
<1>1. outgoing' \in [seq : 0 .. Modulus - 1, ts : Nat]
  <2>1. outgoing.seq \in Nat /\ outgoing.ts \in Nat
    BY JitterConstants DEF MediaTypes, WorkOK
  <2>2. (outgoing.seq + 1) % Modulus \in 0 .. Modulus - 1
    BY <2>1, JitterConstants
  <2> QED  BY <2>1, <2>2 DEF TakeNumber, Advance
<1>2. outgoing'.seq \in Int /\ outgoing'.ts \in Int
  BY <1>1, JitterConstants
<1> DEFINE h == [hand[w] EXCEPT !.seq = outgoing'.seq, !.ts = outgoing'.ts]
<1>3. hand \in [Worker -> Hand] /\ hand[w] \in Hand
  BY DEF MediaTypes, WorkersOK
<1>4. hand' = [hand EXCEPT ![w] = h]
  <2> DEFINE numbered == [hand EXCEPT ![w].seq = outgoing'.seq]
  <2>1. numbered = [hand EXCEPT ![w] = [hand[w] EXCEPT !.seq = outgoing'.seq]]
    OBVIOUS
  <2>2. hand' = [numbered EXCEPT ![w].ts = outgoing'.ts]
    BY DEF TakeNumber
  <2>3. numbered[w] = [hand[w] EXCEPT !.seq = outgoing'.seq] /\ DOMAIN numbered = Worker
        /\ \A v \in Worker : v # w => numbered[v] = hand[v]
    BY <1>3, <2>1
  <2> HIDE DEF numbered
  <2>4. hand' = [v \in Worker |-> IF v = w THEN [numbered[w] EXCEPT !.ts = outgoing'.ts] ELSE numbered[v]]
    BY <2>2, <2>3
  <2>5. [numbered[w] EXCEPT !.ts = outgoing'.ts] = h
    BY <2>3
  <2> HIDE DEF h
  <2>6. [hand EXCEPT ![w] = h] = [v \in Worker |-> IF v = w THEN h ELSE hand[v]]
    BY <1>3
  <2> QED  BY <2>3, <2>4, <2>5, <2>6
<1>5. /\ h \in Hand /\ h.seq = outgoing'.seq /\ h.ts = outgoing'.ts
      /\ h.packet = hand[w].packet /\ h.stage = hand[w].stage
      /\ h.type = hand[w].type /\ h.to = hand[w].to /\ h.payload = hand[w].payload
  BY <1>2, <1>3 DEF Hand
<1> HIDE DEF h
<1>6. hand'[w] = h
  BY <1>3, <1>4
<1> QED  BY <1>1, <1>4, <1>5, <1>6

\* ... the number ...
LEMMA TakeNumberTypes ==
  ASSUME MediaTypes, NEW w \in Worker, TakeNumber(w)
  PROVE  MediaTypes'
<1>1. JitterOK' /\ DownlinkOK'
  BY DEF MediaTypes, DownlinkOK, JitterOK, TakeNumber, downlinkVars, jitterVars
<1>2. SessionOK' /\ UNCHANGED <<ports, types>>
  BY SessionStays DEF MediaTypes, TakeNumber
<1>3. WorkOK'
  BY NumberEffect DEF MediaTypes, WorkOK, TakeNumber
<1>4. WorkersOK'
  <2>1. PICK h \in Hand : hand' = [hand EXCEPT ![w] = h] /\ h.stage = hand[w].stage
    BY NumberEffect
  <2>2. HasCopied(w) /\ GoTo(w, "send") /\ "send" \in Label
    BY DEF TakeNumber, HasCopied, Label
  <2>3. w \in ports /\ hand[w].stage \in 1 .. Built /\ WorkersOK
    BY <2>2, AtStage DEF MediaTypes
  <2> QED  BY <1>2, <2>1, <2>2, <2>3, Moved
<1> QED  BY <1>1, <1>2, <1>3, <1>4 DEF MediaTypes

\* What a worker sends is appended, and its hand is empty again.
LEMMA SendEffect ==
  ASSUME MediaTypes, NEW w \in Worker, Send(w)
  PROVE  \E packet \in Sent :
           /\ packet.by = w /\ packet.stage = hand[w].stage /\ packet.type = hand[w].type
           /\ packet.to = hand[w].to /\ packet.payload = hand[w].payload
           /\ packet.seq = hand[w].seq /\ packet.ts = hand[w].ts
           /\ sent' = Append(sent, packet) /\ sent' \in Seq(Sent)
           /\ Len(sent) \in Nat /\ Len(sent') = Len(sent) + 1
           /\ \A i \in 1 .. Len(sent) : sent'[i] = sent[i]
           /\ sent'[Len(sent) + 1] = packet
           /\ \A i \in 1 .. Len(sent') : i \in 1 .. Len(sent) \/ i = Len(sent) + 1
           /\ pc[w] = "send" /\ pc'[w] = "receive"
           /\ \A v \in Worker \ {w} : pc'[v] = pc[v] /\ hand'[v] = hand[v]
<1> DEFINE packet == PacketOf(w)
<1>1. pc \in [Worker -> Label] /\ hand \in [Worker -> Hand] /\ sent \in Seq(Sent)
  BY DEF MediaTypes, WorkersOK, WorkOK
<1>2. packet \in Sent
  BY <1>1 DEF Hand, Sent, PacketOf
<1>3. sent' = Append(sent, packet)
  BY DEF Send
<1>4. /\ packet.by = w /\ packet.stage = hand[w].stage /\ packet.type = hand[w].type
      /\ packet.to = hand[w].to /\ packet.payload = hand[w].payload
      /\ packet.seq = hand[w].seq /\ packet.ts = hand[w].ts
  BY DEF PacketOf
<1>5. /\ pc[w] = "send" /\ pc'[w] = "receive"
      /\ \A v \in Worker \ {w} : pc'[v] = pc[v] /\ hand'[v] = hand[v]
  BY <1>1 DEF Send, Finish, GoTo
<1> HIDE DEF packet
<1>6. /\ Len(sent) \in Nat /\ Len(sent') = Len(sent) + 1 /\ sent' \in Seq(Sent)
      /\ \A i \in 1 .. Len(sent) : sent'[i] = sent[i]
      /\ sent'[Len(sent) + 1] = packet
  BY <1>1, <1>2, <1>3
<1>7. \A i \in 1 .. Len(sent') : i \in 1 .. Len(sent) \/ i = Len(sent) + 1
  BY <1>6
<1> QED  BY <1>2, <1>3, <1>4, <1>5, <1>6, <1>7

\* ... and the packet keep the types ...
LEMMA SendTypes ==
  ASSUME MediaTypes, NEW w \in Worker, Send(w)
  PROVE  MediaTypes'
<1>1. JitterOK' /\ DownlinkOK'
  BY DEF MediaTypes, DownlinkOK, JitterOK, Send, downlinkVars, jitterVars
<1>2. SessionOK' /\ UNCHANGED <<ports, types>>
  BY SessionStays DEF MediaTypes, Send
<1>3. WorkOK'
  BY SendEffect DEF MediaTypes, WorkOK, Send
<1>4. WorkersOK'
  BY <1>2, FinishKeeps DEF MediaTypes, Send
<1> QED  BY <1>1, <1>2, <1>3, <1>4 DEF MediaTypes

\* The stages and payload types after another INVITE.
LEMMA ReinviteEffect ==
  ASSUME SessionOK, NEW w \in Worker, NEW payloadType \in PayloadType, Reinvite(w, payloadType)
  PROVE  /\ types' \in Seq(PayloadType) /\ Built' = Built + 1 /\ Built' \in Stage
         /\ \A s \in 1 .. Built : types'[s] = types[s]
         /\ ports' = ports \cup {w} /\ pipeline' = Built' /\ remote' = "new offer"
         /\ Built' # 1 /\ \A s \in 1 .. Built : s \in 1 .. Built'
<1>1. types \in Seq(PayloadType) /\ types' = Append(types, payloadType) /\ Built < Stages
  BY DEF SessionOK, Reinvite
<1>2. /\ types' \in Seq(PayloadType) /\ Len(types') = Len(types) + 1
      /\ \A s \in 1 .. Len(types) : types'[s] = types[s]
  BY <1>1
<1>3. Built \in Nat /\ Built' = Built + 1
  BY <1>1, <1>2 DEF Built
<1>4. Built' \in Stage
  BY <1>1, <1>3, DownlinkConstants DEF Stage
<1>5. Built' # 1 /\ \A s \in 1 .. Built : s \in 1 .. Built'
  <2> DEFINE b == Built
             c == Built'
  <2>1. b \in Nat /\ 1 <= b /\ c = b + 1
    BY <1>3, BuiltIsNumber
  <2> HIDE DEF b, c
  <2>2. c # 1 /\ \A s \in 1 .. b : s \in 1 .. c
    BY <2>1
  <2> QED  BY <2>2 DEF b, c
<1>6. pipeline' = Built' /\ ports' = ports \cup {w} /\ remote' = "new offer"
  BY <1>3 DEF Reinvite
<1> QED  BY <1>2, <1>3, <1>4, <1>5, <1>6 DEF Built

\* The INVITEs that a call may see again have a payload type.
LEMMA AgainIsReinvite ==
  ASSUME SipStep
  PROVE  Terminate \/ \E w \in Worker, payloadType \in PayloadType : Reinvite(w, payloadType)
<1>1. ASSUME NEW w \in Worker, NEW session \in Session, Reinvite(w, session.payloadType)
      PROVE  \E v \in Worker, payloadType \in PayloadType : Reinvite(v, payloadType)
  <2>1. session.payloadType \in PayloadType
    BY MediaAssumption DEF PayloadType
  <2> QED  BY <1>1, <2>1
<1> QED  BY <1>1 DEF SipStep

\* ... as do the reader thread and the SIP thread.
LEMMA OtherTypes ==
  ASSUME MediaTypes, DownlinkOK',
         \/ \E s \in Stage, n \in 1 .. MaxChunk : ReadAudio(s, n)
         \/ SipStep
         \/ UNCHANGED mediaVars
  PROVE  MediaTypes'
<1>1. ASSUME UNCHANGED <<jitterVars, sessionVars, workVars, pc, hand>>  PROVE MediaTypes'
  <2>1. SessionOK' /\ Built' = Built /\ UNCHANGED <<ports, types>>
    BY <1>1, SessionStays DEF MediaTypes
  <2>2. WorkersOK'
    BY <1>1, <2>1 DEF MediaTypes, WorkersOK, WorkerOK, HasCopied
  <2> QED  BY <1>1, <2>1, <2>2 DEF MediaTypes, JitterOK, WorkOK, jitterVars, workVars
<1>2. ASSUME NEW w \in Worker, NEW payloadType \in PayloadType, Reinvite(w, payloadType)
      PROVE  MediaTypes'
  <2>1. JitterOK' /\ WorkOK' /\ UNCHANGED <<pc, hand, mode, rtpLocked>>
    BY <1>2 DEF Reinvite, MediaTypes, JitterOK, WorkOK, jitterVars, workVars
  <2>2. /\ types' \in Seq(PayloadType) /\ Built' = Built + 1 /\ Built' \in Stage
        /\ ports' = ports \cup {w} /\ pipeline' = Built' /\ remote' = "new offer"
        /\ Built' # 1 /\ \A s \in 1 .. Built : s \in 1 .. Built'
    BY <1>2, ReinviteEffect DEF MediaTypes
  <2>3. Built \in Nat /\ 1 <= Built
    BY BuiltIsNumber DEF MediaTypes
  <2>4. SessionOK'
    <3>1. remote' \in Address /\ pipeline' \in {0, Built'}
      BY <2>2, Zenon DEF Address
    <3>2. /\ mode' \in {"ECHO", "AUDIOSOCKET", "GRPC"} /\ rtpLocked' \in BOOLEAN
          /\ First \in ports' /\ ports' \subseteq Worker
      BY <2>1, <2>2 DEF MediaTypes, SessionOK
    <3> QED  BY <2>2, <3>1, <3>2 DEF SessionOK
  <2>5. WorkersOK'
    <3>2. ASSUME NEW v \in Worker  PROVE WorkerOK(v)'
      <4>1. WorkerOK(v)
        BY DEF MediaTypes, WorkersOK
      <4> QED  BY <2>1, <2>2, <4>1 DEF WorkerOK, HasCopied
    <3> QED  BY <2>1, <3>2 DEF MediaTypes, WorkersOK
  <2> QED  BY <2>1, <2>4, <2>5 DEF MediaTypes
<1>3. CASE Terminate
  <2>1. UNCHANGED <<pc, hand, ports, types, mode, remote, rtpLocked>> /\ pipeline' = 0
    BY <1>3 DEF Terminate
  <2>2. SessionOK' /\ WorkersOK'
    BY <2>1 DEF MediaTypes, SessionOK, WorkersOK, WorkerOK, HasCopied, Built
  <2> QED  BY <1>3, <2>2 DEF Terminate, MediaTypes, JitterOK, WorkOK, jitterVars, workVars
<1>4. CASE \E s \in Stage, n \in 1 .. MaxChunk : ReadAudio(s, n)
  BY <1>1, <1>4 DEF ReadAudio
<1>5. CASE UNCHANGED mediaVars
  BY <1>1, <1>5 DEF mediaVars
<1> QED  BY <1>2, <1>3, <1>4, <1>5, AgainIsReinvite

-----------------------------------------------------------------------------
(* The stream.                                                             *)

\* Workers that have pushed a packet and not yet popped one.
Poppers == {w \in Worker : pc[w] = "pop"}

\* The buffer is less than full, but for a packet for each worker that is about to pop.
LengthInv == Len(buffer) < TargetSize + Cardinality(Poppers)

MediaInv == MediaTypes /\ JitterInv /\ LengthInv /\ DownlinkInv

\* There are as many as there are workers.
LEMMA PoppersAreFew ==
  /\ IsFiniteSet(Poppers) /\ Cardinality(Poppers) \in Nat
  /\ Cardinality(Poppers) <= Pushers
  /\ \A w \in Worker \ Poppers : Cardinality(Poppers) + 1 <= Pushers
<1>1. /\ IsFiniteSet(Worker) /\ Cardinality(Worker) <= Pushers /\ Cardinality(Worker) \in Nat
      /\ Pushers \in Nat
  BY MediaAssumption, FS_CardinalityType, JitterConstants
<1>2. Poppers \subseteq Worker
  BY DEF Poppers
<1>3. IsFiniteSet(Poppers) /\ Cardinality(Poppers) <= Cardinality(Worker)
      /\ Cardinality(Poppers) \in Nat
  BY <1>1, <1>2, FS_Subset, FS_CardinalityType
<1>4. ASSUME NEW w \in Worker \ Poppers  PROVE Cardinality(Poppers) + 1 <= Pushers
  <2>1. Cardinality(Poppers \cup {w}) = Cardinality(Poppers) + 1
    BY <1>3, FS_AddElement
  <2>2. Cardinality(Poppers \cup {w}) <= Cardinality(Worker)
    BY <1>1, <1>2, FS_Subset
  <2> QED  BY <1>1, <1>3, <2>1, <2>2
<1> QED  BY <1>1, <1>3, <1>4

\* There is room for what a worker pushes.
LEMMA LengthIsHeld ==
  ASSUME JitterInv, LengthInv
  PROVE  Len(buffer) \in Nat /\ Len(buffer) <= Held
BY JitterTypes, JitterConstants, PoppersAreFew DEF LengthInv

\* A worker pushes, which has not pushed yet.
LEMMA ReceiveKeeps ==
  ASSUME MediaInv, NEW w \in Worker, NEW n \in Packet, NEW from \in Sender,
         Receive(w, n, from)
  PROVE  MediaTypes' /\ JitterInv' /\ LengthInv'
<1>1. Push(n) /\ w \notin Poppers /\ Poppers' = Poppers \cup {w}
  BY DEF Receive, Poppers, GoTo, MediaInv, MediaTypes, WorkersOK
<1>2. Len(buffer) \in Nat /\ Len(buffer) <= Held
  BY LengthIsHeld DEF MediaInv
<1>3. JitterInv' /\ (Len(buffer') = Len(buffer) \/ Len(buffer') = Len(buffer) + 1)
  BY <1>1, <1>2, PushKeeps DEF MediaInv
<1>4. Cardinality(Poppers') = Cardinality(Poppers) + 1 /\ Cardinality(Poppers) \in Nat
  BY <1>1, PoppersAreFew, FS_AddElement
<1>5. LengthInv'
  <2>1. Len(buffer) < TargetSize + Cardinality(Poppers)
    BY DEF MediaInv, LengthInv
  <2> QED  BY <1>2, <1>3, <1>4, <2>1, JitterConstants DEF LengthInv
<1>6. MediaTypes'
  BY <1>3, ReceiveTypes DEF MediaInv, JitterInv
<1> QED  BY <1>3, <1>5, <1>6

\* A worker pops, or finds that there is nothing to pop.
LEMMA PopFrameKeeps ==
  ASSUME MediaInv, NEW w \in Worker, PopFrame(w)
  PROVE  MediaTypes' /\ JitterInv' /\ LengthInv'
<1>1. Poppers' = Poppers \ {w} /\ w \in Poppers
  BY DEF PopFrame, Poppers, Finish, GoTo, MediaInv, MediaTypes, WorkersOK
<1>2. /\ Len(buffer) \in Nat /\ Len(buffer) < TargetSize + Cardinality(Poppers)
      /\ Cardinality(Poppers') = Cardinality(Poppers) - 1
      /\ Cardinality(Poppers) \in Nat /\ Cardinality(Poppers') \in Nat
  <2>1. /\ Cardinality(Poppers') = Cardinality(Poppers) - 1 /\ Cardinality(Poppers) \in Nat
        /\ IsFiniteSet(Poppers')
    BY <1>1, PoppersAreFew, FS_RemoveElement
  <2> QED  BY <2>1, JitterTypes, FS_CardinalityType DEF MediaInv, LengthInv
<1>3. CASE Pop
  <2>1. JitterInv' /\ Len(buffer') = Len(buffer) - 1 /\ Head(buffer) \in Packet
    BY <1>3, PopKeeps DEF MediaInv
  <2>2. LengthInv'
    BY <1>2, <2>1, JitterConstants DEF LengthInv
  <2>3. MediaTypes'
    BY <2>1, PopFrameTypes DEF MediaInv, JitterInv
  <2> QED  BY <2>1, <2>2, <2>3
<1>4. CASE ~IsFull /\ UNCHANGED jitterVars
  <2>1. JitterInv' /\ buffer' = buffer
    BY <1>4, JitterStutters DEF MediaInv, jitterVars
  <2>2. LengthInv'
    BY <1>2, <1>4, <2>1, JitterConstants DEF IsFull, LengthInv
  <2>3. ~Pop
    BY <1>4 DEF Pop
  <2> QED  BY <2>1, <2>2, <2>3, PopFrameTypes DEF MediaInv, JitterInv
<1> QED  BY <1>3, <1>4 DEF PopFrame

\* Nobody else pushes or pops.
LEMMA OthersKeep ==
  ASSUME MediaInv, UNCHANGED jitterVars, Poppers' = Poppers
  PROVE  JitterInv' /\ LengthInv'
<1>1. JitterInv' /\ buffer' = buffer
  BY JitterStutters DEF MediaInv, jitterVars
<1> QED  BY <1>1 DEF MediaInv, LengthInv

\* Every step of a worker keeps the invariant ...
LEMMA WorkerKeeps ==
  ASSUME MediaInv, DownlinkInv', NEW w \in Worker, WorkerStep(w)
  PROVE  MediaInv'
<1>1. CASE \E n \in Packet, from \in Sender : Receive(w, n, from)
  BY <1>1, ReceiveKeeps DEF MediaInv
<1>2. CASE PopFrame(w)
  BY <1>2, PopFrameKeeps DEF MediaInv
<1>3. MediaTypes /\ DownlinkOK' /\ pc \in [Worker -> Label]
  BY DEF MediaInv, DownlinkInv, MediaTypes, WorkersOK
<1>4. CASE \E from \in Sender : ReceiveOther(w, from)
  BY <1>3, <1>4, OthersKeep, ReceiveOtherTypes DEF ReceiveOther, Poppers, MediaInv
<1>5. CASE CopySession(w)
  <2>1. UNCHANGED jitterVars /\ Poppers' = Poppers
    BY <1>3, <1>5 DEF CopySession, Finish, GoTo, Poppers
  <2> QED  BY <1>3, <1>5, <2>1, OthersKeep, CopySessionTypes DEF MediaInv
<1>6. CASE BeginEcho(w) \/ EndEcho(w) \/ ClearEcho(w)
  <2>1. UNCHANGED jitterVars /\ Poppers' = Poppers
    BY <1>3, <1>6 DEF BeginEcho, EndEcho, ClearEcho, GoTo, Poppers
  <2> QED  BY <1>3, <1>6, <2>1, OthersKeep, EchoTypes DEF MediaInv
<1>7. CASE TakeEcho(w)
  <2>1. UNCHANGED jitterVars /\ Poppers' = Poppers
    BY <1>3, <1>7 DEF TakeEcho, Finish, GoTo, Poppers
  <2> QED  BY <1>3, <1>7, <2>1, OthersKeep, TakeEchoTypes DEF MediaInv
<1>8. CASE TakeDownlink(w)
  <2>1. UNCHANGED jitterVars /\ Poppers' = Poppers
    BY <1>3, <1>8 DEF TakeDownlink, Finish, GoTo, Poppers
  <2> QED  BY <1>3, <1>8, <2>1, OthersKeep, TakeDownlinkTypes DEF MediaInv
<1>9. CASE TakeNumber(w)
  <2>1. UNCHANGED jitterVars /\ Poppers' = Poppers
    BY <1>3, <1>9 DEF TakeNumber, GoTo, Poppers
  <2> QED  BY <1>3, <1>9, <2>1, OthersKeep, TakeNumberTypes DEF MediaInv
<1>10. CASE Send(w)
  <2>1. UNCHANGED jitterVars /\ Poppers' = Poppers
    BY <1>3, <1>10 DEF Send, Finish, GoTo, Poppers
  <2> QED  BY <1>3, <1>10, <2>1, OthersKeep, SendTypes DEF MediaInv
<1> QED
  BY <1>1, <1>2, <1>4, <1>5, <1>6, <1>7, <1>8, <1>9, <1>10 DEF WorkerStep

\* Every step of a call is a step of one of its downlink buffers, or of none.
LEMMA MediaStepIsDownlinkStep ==
  ASSUME MediaTypes, [Next]_mediaVars
  PROVE  [DownlinkNext]_downlinkVars
<1>1. ASSUME NEW w \in Worker, WorkerStep(w)  PROVE [DownlinkNext]_downlinkVars
  <2>1. ASSUME TakeDownlink(w)  PROVE DownlinkNext
    <3>1. HasCopied(w) /\ TakeFrame(hand[w].stage)
      BY <2>1 DEF TakeDownlink, HasCopied, Label
    <3> QED  BY <3>1, AtStage DEF DownlinkNext
  <2>2. ASSUME ~TakeDownlink(w)  PROVE UNCHANGED downlinkVars
    BY <1>1, <2>2 DEF WorkerStep, ReceiveOther, Receive, PopFrame, CopySession, BeginEcho,
         EndEcho, TakeEcho, ClearEcho, TakeNumber, Send
  <2> QED  BY <2>1, <2>2
<1>2. ASSUME NEW s \in Stage, NEW n \in 1 .. MaxChunk, ReadAudio(s, n)  PROVE DownlinkNext
  BY <1>2 DEF ReadAudio, DownlinkNext
<1>3. ASSUME SipStep  PROVE UNCHANGED downlinkVars
  BY <1>3 DEF SipStep, Terminate, Reinvite
<1>4. ASSUME UNCHANGED mediaVars  PROVE UNCHANGED downlinkVars
  BY <1>4 DEF mediaVars
<1> QED  BY <1>1, <1>2, <1>3, <1>4 DEF Next

\* ... and every other step of the call ...
LEMMA MediaKeeps ==
  ASSUME MediaInv, [Next]_mediaVars
  PROVE  MediaInv'
<1>1. DownlinkInv' /\ DownlinkOK'
  BY MediaStepIsDownlinkStep, DownlinkKeeps DEF MediaInv, DownlinkInv
<1>2. CASE \E w \in Worker : WorkerStep(w)
  BY <1>1, <1>2, WorkerKeeps
<1>3. CASE \/ \E s \in Stage, n \in 1 .. MaxChunk : ReadAudio(s, n)
           \/ SipStep
           \/ UNCHANGED mediaVars
  <2>1. UNCHANGED jitterVars /\ Poppers' = Poppers
    BY <1>3 DEF ReadAudio, SipStep, Reinvite, Terminate, mediaVars, Poppers
  <2>2. MediaTypes'
    BY <1>1, <1>3, OtherTypes DEF MediaInv
  <2> QED  BY <1>1, <2>1, <2>2, OthersKeep DEF MediaInv
<1> QED  BY <1>2, <1>3 DEF Next

\* ... which a call starts with ...
LEMMA MediaStarts == Init => MediaInv
<1> SUFFICES ASSUME Init  PROVE MediaInv
  OBVIOUS
<1>1. JitterInv /\ DownlinkInv
  BY JitterStarts, DownlinkStarts DEF Init
<1>2. LengthInv
  <2>1. Len(buffer) = 0 /\ Cardinality(Poppers) \in Nat
    BY PoppersAreFew DEF Init, JitterInit
  <2> QED  BY <2>1, JitterConstants DEF LengthInv
<1> QED  BY <1>1, <1>2, MediaTypesStart DEF MediaInv

\* ... and so always has.
LEMMA MediaAlways == Spec => []MediaInv
BY MediaStarts, MediaKeeps, PTL DEF Spec

-----------------------------------------------------------------------------
(* What follows from it.                                                   *)

\* A call implements the downlink buffers of all its stages: those that a re-INVITE has
\* replaced while audio came in and a worker played from them, too.
THEOREM MediaImplementsDownlink == Spec => DownlinkSpec
<1>1. Init => DownlinkInit
  BY DEF Init
<1>2. MediaInv /\ [Next]_mediaVars => [DownlinkNext]_downlinkVars
  BY MediaStepIsDownlinkStep DEF MediaInv
<1> QED  BY <1>1, <1>2, MediaAlways, PTL DEF Spec, DownlinkSpec

\* What is left of the server's audio is the latest of it, however many workers play
\* and whichever stage they play from.
THEOREM MediaBufferIsLatest == Spec => []BufferIsLatest
BY MediaImplementsDownlink, DownlinkIsSound, PTL

\* The frames that workers take from a stage are in the order of its audio, and no byte
\* is in two.
THEOREM MediaFramesInOrder == Spec => []FramesInOrder
BY MediaImplementsDownlink, DownlinkIsSound, PTL

\* What onRtpPacket has pushed is played or in the buffer, which at rest is less
\* than full.
THEOREM MediaNothingLost == Spec => []NothingLost
<1>1. MediaInv => NothingLost
  <2> SUFFICES ASSUME MediaInv  PROVE NothingLost
    OBVIOUS
  <2>1. buffer \in Seq(Packet) /\ played \in Seq(Packet)
    BY JitterTypes DEF MediaInv
  <2>2. \A x : x \in received <=> x \in ToSet(played) \cup ToSet(buffer)
    BY <2>1, SetOfSequence DEF MediaInv, JitterInv, NothingIsLost
  <2>3. ASSUME \A w \in Worker : pc[w] # "pop"  PROVE Len(buffer) < TargetSize
    <3>1. Poppers = {}
      BY <2>3 DEF Poppers
    <3>2. Cardinality(Poppers) = 0
      BY <3>1, FS_EmptySet
    <3> QED  BY <3>2, JitterConstants DEF MediaInv, LengthInv
  <2> QED  BY <2>2, <2>3 DEF NothingLost
<1> QED  BY <1>1, MediaAlways, PTL

\* push and pop play the stream forwards, across the wrap of the sequence number, for
\* every network that overtakes by less than the depth of the buffer.
THEOREM MediaPlayedInOrder == Spec => []PlayedInOrder
<1>1. MediaInv => PlayedInOrder
  BY DEF MediaInv, JitterInv
<1> QED  BY <1>1, MediaAlways, PTL

\* The variables of a call have their types, and the jitter buffer never holds more
\* than its depth and a packet for each worker that serves a port.
THEOREM MediaTypeOK == Spec => []TypeOK
<1>1. MediaInv => TypeOK
  <2> SUFFICES ASSUME MediaInv  PROVE TypeOK
    OBVIOUS
  <2>1. JitterOK /\ DownlinkOK /\ SessionOK /\ WorkOK /\ WorkersOK
    BY DEF MediaInv, MediaTypes
  <2>2. Len(buffer) < TargetSize + Cardinality(ports)
    <3>1. Len(buffer) \in Nat /\ TargetSize \in Nat
      BY JitterTypes, JitterConstants DEF MediaInv
    <3>2. Poppers \subseteq ports
      BY <2>1 DEF Poppers, WorkersOK, WorkerOK
    <3>3. IsFiniteSet(ports)
      BY <2>1, MediaAssumption, FS_Subset DEF SessionOK
    <3>4. /\ Cardinality(Poppers) <= Cardinality(ports)
          /\ Cardinality(Poppers) \in Nat /\ Cardinality(ports) \in Nat
      BY <3>2, <3>3, FS_Subset, FS_CardinalityType
    <3> QED  BY <3>1, <3>4 DEF MediaInv, LengthInv
  <2>3. /\ types \in Seq(0 .. 127) /\ Built \in Stage /\ pipeline \in {0, Built}
        /\ First \in ports /\ ports \subseteq Worker
        /\ remote \in Address /\ rtpLocked \in BOOLEAN
    BY <2>1 DEF SessionOK, PayloadType
  <2>4. /\ outgoing.seq \in 0 .. Modulus - 1 /\ outgoing.ts \in Nat
        /\ \A s \in Stage : echo[s].writers \subseteq Packet /\ echo[s].hasData \in BOOLEAN
    BY <2>1 DEF WorkOK
  <2>5. \A w \in Worker \ ports : pc[w] = "receive"
    BY <2>1 DEF WorkersOK, WorkerOK
  <2> QED  BY <2>1, <2>2, <2>3, <2>4, <2>5 DEF TypeOK
<1> QED  BY <1>1, MediaAlways, PTL

\* The jitter buffer is a window of fixed depth over the stream, whatever the workers
\* do between a push and a pop.
THEOREM MediaIsPlayoutWindow == Spec => IsPlayoutWindow
<1>1. Init => Window!Init
  <2>1. ToSet(<<>>) = {}
    BY DEF ToSet
  <2> QED  BY <2>1 DEF Init, JitterInit, Window!Init
<1>2. MediaInv /\ MediaInv' /\ [Next]_mediaVars => [Window!Next]_<<ToSet(buffer), played>>
  <2> SUFFICES ASSUME MediaInv, MediaInv', [Next]_mediaVars
               PROVE  [Window!Next]_<<ToSet(buffer), played>>
    OBVIOUS
  <2>1. ASSUME NEW w \in Worker, NEW n \in Packet, NEW from \in Sender, Receive(w, n, from)
        PROVE  [Window!Next]_<<ToSet(buffer), played>>
    <3>1. Len(buffer) <= Held /\ JitterInv /\ JitterInv' /\ Push(n)
      BY <2>1, LengthIsHeld DEF MediaInv, Receive
    <3> QED  BY <3>1, PushIsArrival
  <2>2. ASSUME NEW w \in Worker, PopFrame(w)
        PROVE  [Window!Next]_<<ToSet(buffer), played>>
    <3>1. CASE Pop
      BY <3>1, PopIsPlay DEF MediaInv
    <3>2. CASE UNCHANGED jitterVars
      BY <3>2 DEF jitterVars
    <3> QED  BY <2>2, <3>1, <3>2 DEF PopFrame
  <2>3. CASE UNCHANGED jitterVars
    BY <2>3 DEF jitterVars
  <2>4. \/ \E w \in Worker, n \in Packet, from \in Sender : Receive(w, n, from)
        \/ \E w \in Worker : PopFrame(w)
        \/ UNCHANGED jitterVars
    BY DEF Next, WorkerStep, ReceiveOther, CopySession, BeginEcho, EndEcho, TakeEcho,
           ClearEcho, TakeDownlink, TakeNumber, Send, ReadAudio, SipStep, Reinvite,
           Terminate, mediaVars
  <2> QED  BY <2>1, <2>2, <2>3, <2>4
<1> QED  BY <1>1, <1>2, MediaAlways, PTL DEF Spec, IsPlayoutWindow, Window!Spec

-----------------------------------------------------------------------------
(* The payload type.                                                       *)

\* A worker, and a packet, has the payload type that its stage was built with.
AgreedInv ==
  /\ \A w \in Worker : HasCopied(w) => hand[w].type = types[hand[w].stage]
  /\ \A k \in 1 .. Len(sent) :
       sent[k].stage \in 1 .. Built /\ sent[k].type = types[sent[k].stage]

\* A worker that goes on takes its payload type along.
LEMMA AgreedStays ==
  ASSUME AgreedInv, NEW w \in Worker, UNCHANGED <<types, sent>>,
         \A v \in Worker \ {w} : pc'[v] = pc[v] /\ hand'[v] = hand[v],
         HasCopied(w)' => hand'[w].type = types[hand'[w].stage]
  PROVE  AgreedInv'
<1>1. \A v \in Worker \ {w} : HasCopied(v)' => HasCopied(v)
  BY DEF HasCopied
<1> QED  BY <1>1 DEF AgreedInv, Built

\* However INVITEs and workers interleave.
LEMMA AgreedKeeps ==
  ASSUME MediaTypes, AgreedInv, [Next]_mediaVars
  PROVE  AgreedInv'
<1>1. pc \in [Worker -> Label] /\ hand \in [Worker -> Hand]
  BY DEF MediaTypes, WorkersOK
<1>2. ASSUME NEW w \in Worker,
             \/ \E from \in Sender : ReceiveOther(w, from) \/ \E n \in Packet : Receive(w, n, from)
             \/ PopFrame(w) \/ CopySession(w) \/ BeginEcho(w) \/ EndEcho(w) \/ TakeEcho(w)
             \/ ClearEcho(w) \/ TakeDownlink(w) \/ TakeNumber(w)
      PROVE  AgreedInv'
  <2>1. UNCHANGED <<types, sent>>
    BY <1>2 DEF ReceiveOther, Receive, PopFrame, CopySession, BeginEcho, EndEcho, TakeEcho,
                ClearEcho, TakeDownlink, TakeNumber, sessionVars, workVars
  <2>2. \A v \in Worker \ {w} : pc'[v] = pc[v] /\ hand'[v] = hand[v]
    BY <1>1, <1>2 DEF ReceiveOther, Receive, PopFrame, CopySession, BeginEcho, EndEcho,
                      TakeEcho, ClearEcho, TakeDownlink, TakeNumber, GoTo, Finish
  <2>3. CASE ~HasCopied(w)'
    BY <2>1, <2>2, <2>3, AgreedStays
  <2>4. CASE CopySession(w) /\ pipeline # 0
    <3>1. PICK h \in Hand : /\ hand' = [hand EXCEPT ![w] = h]
                            /\ h.stage = Built /\ h.type = types[Built]
      BY <2>4, CopyEffect
    <3>2. hand'[w] = h
      BY <1>1, <3>1
    <3> QED  BY <2>1, <2>2, <3>1, <3>2, AgreedStays
  <2>5. CASE /\ HasCopied(w) /\ HasCopied(w)'
             /\ \/ BeginEcho(w) \/ EndEcho(w) \/ TakeEcho(w)
                \/ ClearEcho(w) \/ TakeDownlink(w) \/ TakeNumber(w)
    <3>1. ~Finish(w)
      BY <1>1, <2>5 DEF Finish, GoTo, HasCopied
    <3>2. hand'[w].type = hand[w].type /\ hand'[w].stage = hand[w].stage
      BY <1>1, <2>5, <3>1 DEF BeginEcho, EndEcho, TakeEcho, ClearEcho, TakeDownlink,
                              TakeNumber, Hand
    <3>3. hand[w].type = types[hand[w].stage]
      BY <2>5 DEF AgreedInv
    <3> QED  BY <2>1, <2>2, <3>2, <3>3, AgreedStays
  <2>6. CASE \/ \E from \in Sender : ReceiveOther(w, from) \/ \E n \in Packet : Receive(w, n, from)
             \/ PopFrame(w) \/ (CopySession(w) /\ pipeline = 0)
    <3>1. pc'[w] \in {"receive", "pop", "copy"}
      BY <1>1, <2>6 DEF ReceiveOther, Receive, PopFrame, CopySession, GoTo, Finish
    <3> QED  BY <2>3, <3>1 DEF HasCopied
  <2>7. BeginEcho(w) \/ EndEcho(w) \/ TakeEcho(w) \/ ClearEcho(w) \/ TakeDownlink(w)
          \/ TakeNumber(w) => HasCopied(w)
    BY DEF BeginEcho, EndEcho, TakeEcho, ClearEcho, TakeDownlink, TakeNumber, HasCopied, Label
  <2> QED  BY <1>2, <2>3, <2>4, <2>5, <2>6, <2>7
<1>3. ASSUME NEW w \in Worker, Send(w)  PROVE AgreedInv'
  <2>1. PICK packet \in Sent :
           /\ packet.stage = hand[w].stage /\ packet.type = hand[w].type
           /\ \A i \in 1 .. Len(sent) : sent'[i] = sent[i]
           /\ sent'[Len(sent) + 1] = packet
           /\ \A i \in 1 .. Len(sent') : i \in 1 .. Len(sent) \/ i = Len(sent) + 1
           /\ pc[w] = "send" /\ pc'[w] = "receive"
           /\ \A v \in Worker \ {w} : pc'[v] = pc[v] /\ hand'[v] = hand[v]
    BY <1>3, SendEffect
  <2>2. types' = types /\ Built' = Built
    BY <1>3 DEF Send, sessionVars, Built
  <2>3. HasCopied(w) /\ ~HasCopied(w)'
    BY <2>1 DEF HasCopied, Label
  <2>4. hand[w].stage \in 1 .. Built /\ hand[w].type = types[hand[w].stage]
    BY <2>3, AtStage DEF AgreedInv
  <2>5. ASSUME NEW k \in 1 .. Len(sent')
        PROVE  sent'[k].stage \in 1 .. Built /\ sent'[k].type = types[sent'[k].stage]
    BY <2>1, <2>4 DEF AgreedInv
  <2>6. ASSUME NEW v \in Worker, HasCopied(v)'
        PROVE  hand'[v].type = types[hand'[v].stage]
    BY <2>1, <2>3, <2>6 DEF AgreedInv, HasCopied
  <2> QED  BY <2>2, <2>5, <2>6 DEF AgreedInv
<1>4. ASSUME NEW w \in Worker, NEW payloadType \in PayloadType, Reinvite(w, payloadType)
      PROVE  AgreedInv'
  <2>1. UNCHANGED <<pc, hand, sent>>
    BY <1>4 DEF Reinvite, workVars
  <2>2. \A s \in 1 .. Built : types'[s] = types[s] /\ s \in 1 .. Built'
    BY <1>4, ReinviteEffect DEF MediaTypes
  <2>3. \A v \in Worker : HasCopied(v)' => HasCopied(v) /\ hand[v].stage \in 1 .. Built
    BY <2>1, AtStage DEF HasCopied
  <2> QED  BY <2>1, <2>2, <2>3 DEF AgreedInv
<1>5. ASSUME UNCHANGED <<types, sent, pc, hand>>  PROVE AgreedInv'
  BY <1>5 DEF AgreedInv, HasCopied, Built
<1>6. CASE Terminate \/ (\E s \in Stage, n \in 1 .. MaxChunk : ReadAudio(s, n))
             \/ UNCHANGED mediaVars
  BY <1>5, <1>6 DEF Terminate, ReadAudio, mediaVars, sessionVars, workVars
<1> QED  BY <1>2, <1>3, <1>4, <1>6, AgainIsReinvite DEF Next, WorkerStep

\* The phone hears what the server said, to half a step of the codec, and silence in
\* place of what the gain clamps to the lowest sample: whatever the server says and
\* whatever INVITE comes while a packet is made.
THEOREM MediaPeerHearsServer == Spec => []PeerHearsServer
<1>1. Init => AgreedInv
  BY DEF Init, AgreedInv, HasCopied
<1>2. MediaInv => MediaTypes
  BY DEF MediaInv
<1>3. MediaTypes /\ AgreedInv => PeerHearsServer
  <2> SUFFICES ASSUME MediaTypes, AgreedInv, NEW k \in DOMAIN sent, sent[k].type \in {0, 8},
                      NEW i \in DOMAIN sent[k].payload,
                      NEW said,
                      said = SamplesSaid[1 + (sent[k].payload[i] % Len(SamplesSaid))]
               PROVE  LET heard == Decode(sent[k].type,
                                          Encode(types[sent[k].stage], Gain(said)))
                      IN  IF said <= -10923 THEN heard \in {0, -8}
                          ELSE IsCloseTo(sent[k].type, heard, Gain(said))
    BY DEF PeerHearsServer
  <2>1. sent \in Seq(Sent) /\ DOMAIN sent = 1 .. Len(sent)
    BY DEF MediaTypes, WorkOK
  <2>2. sent[k].payload \in Seq(Int) /\ types[sent[k].stage] = sent[k].type
    <3>1. sent[k] \in Sent
      BY <2>1, ElementOfSeq
    <3> QED  BY <2>1, <3>1 DEF Sent, AgreedInv
  <2>3. sent[k].payload[i] \in Int
    BY <2>2
  <2>4. Len(SamplesSaid) \in Nat \ {0}
    BY MediaAssumption, EmptySeq
  <2>5. 1 + (sent[k].payload[i] % Len(SamplesSaid)) \in 1 .. Len(SamplesSaid)
    BY <2>3, <2>4
  <2>6. said \in Sample
    BY <2>5, MediaAssumption, ElementOfSeq
  <2> QED  BY <2>2, <2>6, GainIsHeard
<1> QED  BY <1>1, <1>2, <1>3, AgreedKeeps, MediaAlways, PTL DEF Spec

-----------------------------------------------------------------------------
(* Symmetric RTP.                                                          *)

\* Whoever is at work has seen a packet, so the address is the one to stay.
AddressInv ==
  /\ (\E w \in Worker : pc[w] # "receive") \/ sent # <<>> => rtpLocked
  /\ remote # "new offer" =>
       /\ \A w \in Worker : HasCopied(w) => hand[w].to = remote
       /\ \A i \in 1 .. Len(sent) : sent[i].to = remote

\* A worker that goes on does not change the address.
LEMMA AddressStays ==
  ASSUME MediaTypes, AddressInv, NEW w \in Worker, rtpLocked, UNCHANGED <<sent, remote, rtpLocked>>,
         \A v \in Worker \ {w} : pc'[v] = pc[v] /\ hand'[v] = hand[v],
         HasCopied(w)' => hand'[w].to = remote \/ (HasCopied(w) /\ hand'[w].to = hand[w].to)
  PROVE  AddressInv'
<1>1. \A v \in Worker \ {w} : HasCopied(v)' => HasCopied(v)
  BY DEF HasCopied
<1> QED  BY <1>1 DEF AddressInv

\* The address keeps to whoever sent first.
LEMMA AddressKeeps ==
  ASSUME MediaTypes, AddressInv, [Next]_mediaVars
  PROVE  AddressInv'
<1>1. pc \in [Worker -> Label] /\ hand \in [Worker -> Hand] /\ sent \in Seq(Sent)
  BY DEF MediaTypes, WorkersOK, WorkOK
<1>2. ASSUME NEW w \in Worker, NEW from \in Sender,
             pc[w] = "receive", LockOn(from), UNCHANGED <<hand, sent>>,
             UNCHANGED pc \/ GoTo(w, "pop")
      PROVE  AddressInv'
  <2>1. CASE rtpLocked
    <3>1. UNCHANGED <<remote, rtpLocked>>
      BY <1>2, <2>1 DEF LockOn, MediaTypes, SessionOK
    <3>2. \A v \in Worker : HasCopied(v)' => HasCopied(v)
      BY <1>1, <1>2 DEF HasCopied, GoTo
    <3> QED  BY <1>2, <2>1, <3>1, <3>2 DEF AddressInv
  <2>2. CASE ~rtpLocked
    <3>1. (\A v \in Worker : pc[v] = "receive") /\ sent = <<>> /\ rtpLocked' = TRUE
      BY <1>2, <2>2 DEF AddressInv, LockOn
    <3>2. \A v \in Worker : ~HasCopied(v)'
      BY <1>1, <1>2, <3>1 DEF HasCopied, GoTo
    <3>3. \A i \in 1 .. Len(sent') : FALSE
      BY <1>2, <3>1
    <3> QED  BY <3>1, <3>2, <3>3 DEF AddressInv
  <2> QED  BY <2>1, <2>2
<1>3. ASSUME NEW w \in Worker, \E from \in Sender, n \in Packet : Receive(w, n, from)
      PROVE  AddressInv'
  BY <1>2, <1>3 DEF Receive, workVars
<1>4. ASSUME NEW w \in Worker, \E from \in Sender : ReceiveOther(w, from)
      PROVE  AddressInv'
  BY <1>2, <1>4 DEF ReceiveOther, workVars
<1>5. ASSUME NEW w \in Worker,
             \/ PopFrame(w) \/ CopySession(w) \/ BeginEcho(w) \/ EndEcho(w) \/ TakeEcho(w)
             \/ ClearEcho(w) \/ TakeDownlink(w) \/ TakeNumber(w)
      PROVE  AddressInv'
  <2>1. rtpLocked
    BY <1>5 DEF AddressInv, PopFrame, CopySession, BeginEcho, EndEcho, TakeEcho, ClearEcho,
                TakeDownlink, TakeNumber
  <2>2. UNCHANGED <<sent, remote, rtpLocked>>
    BY <1>5 DEF PopFrame, CopySession, BeginEcho, EndEcho, TakeEcho, ClearEcho,
                TakeDownlink, TakeNumber, sessionVars, workVars
  <2>3. \A v \in Worker \ {w} : pc'[v] = pc[v] /\ hand'[v] = hand[v]
    BY <1>1, <1>5 DEF PopFrame, CopySession, BeginEcho, EndEcho, TakeEcho, ClearEcho,
                      TakeDownlink, TakeNumber, GoTo, Finish
  <2>4. CASE Finish(w)
    <3>1. ~HasCopied(w)'
      BY <1>1, <2>4 DEF Finish, GoTo, HasCopied
    <3> QED  BY <2>1, <2>2, <2>3, <3>1, AddressStays
  <2>5. CASE PopFrame(w)
    <3>1. ~HasCopied(w)' \/ Finish(w)
      BY <1>1, <2>5 DEF PopFrame, GoTo, HasCopied
    <3> QED  BY <2>1, <2>2, <2>3, <2>4, <3>1, AddressStays
  <2>6. CASE CopySession(w)
    <3>1. Finish(w) \/ hand'[w].to = remote
      <4>1. CASE pipeline # 0
        <5>1. PICK h \in Hand : hand' = [hand EXCEPT ![w] = h] /\ h.to = remote
          BY <2>6, <4>1, CopyEffect
        <5> QED  BY <1>1, <5>1
      <4> QED  BY <2>6, <4>1 DEF CopySession
    <3> QED  BY <2>1, <2>2, <2>3, <2>4, <3>1, AddressStays
  <2>7. CASE BeginEcho(w) \/ EndEcho(w) \/ TakeEcho(w) \/ ClearEcho(w)
             \/ TakeDownlink(w) \/ TakeNumber(w)
    <3>1. HasCopied(w)
      BY <2>7 DEF BeginEcho, EndEcho, TakeEcho, ClearEcho, TakeDownlink, TakeNumber,
                  HasCopied, Label
    <3>2. Finish(w) \/ hand'[w].to = hand[w].to
      BY <1>1, <2>7 DEF BeginEcho, EndEcho, TakeEcho, ClearEcho, TakeDownlink, TakeNumber, Hand
    <3> QED  BY <2>1, <2>2, <2>3, <2>4, <3>1, <3>2, AddressStays
  <2> QED  BY <1>5, <2>5, <2>6, <2>7
<1>6. ASSUME NEW w \in Worker, Send(w)  PROVE AddressInv'
  <2>1. rtpLocked /\ HasCopied(w) /\ UNCHANGED <<remote, rtpLocked>>
    BY <1>6 DEF AddressInv, Send, HasCopied, Label, sessionVars
  <2>2. ~HasCopied(w)' /\ \A v \in Worker \ {w} : pc'[v] = pc[v] /\ hand'[v] = hand[v]
    BY <1>1, <1>6 DEF Send, Finish, GoTo, HasCopied
  <2>3. \A v \in Worker : HasCopied(v)' => HasCopied(v) /\ hand'[v] = hand[v]
    BY <2>2 DEF HasCopied
  <2>4. ASSUME remote # "new offer", NEW i \in 1 .. Len(sent')  PROVE sent'[i].to = remote
    <3>1. hand[w].to = remote /\ \A j \in 1 .. Len(sent) : sent[j].to = remote
      BY <2>1, <2>4 DEF AddressInv
    <3>2. PICK packet \in Sent :
             /\ packet.to = hand[w].to
             /\ \A j \in 1 .. Len(sent) : sent'[j] = sent[j]
             /\ sent'[Len(sent) + 1] = packet
             /\ \A j \in 1 .. Len(sent') : j \in 1 .. Len(sent) \/ j = Len(sent) + 1
      BY <1>6, SendEffect
    <3> QED  BY <3>1, <3>2
  <2> QED  BY <2>1, <2>3, <2>4 DEF AddressInv
<1>7. CASE \/ \E s \in Stage, n \in 1 .. MaxChunk : ReadAudio(s, n)
           \/ SipStep
           \/ UNCHANGED mediaVars
  <2>1. UNCHANGED <<pc, hand, sent, rtpLocked>> /\ (remote' = remote \/ remote' = "new offer")
    BY <1>7 DEF ReadAudio, SipStep, Reinvite, Terminate, mediaVars, sessionVars, workVars
  <2> QED  BY <2>1 DEF AddressInv, HasCopied
<1> QED  BY <1>3, <1>4, <1>5, <1>6, <1>7 DEF Next, WorkerStep

\* Until a re-INVITE everything goes to where the first packet came from, even what was
\* in a worker's hand while other packets came from elsewhere.
THEOREM MediaSymmetricRtp == Spec => []SymmetricRtp
<1>1. Init => AddressInv
  BY DEF Init, AddressInv, HasCopied
<1>2. MediaInv => MediaTypes
  BY DEF MediaInv
<1>3. MediaTypes /\ AddressInv => SymmetricRtp
  <2> SUFFICES ASSUME MediaTypes, AddressInv  PROVE SymmetricRtp
    OBVIOUS
  <2>1. DOMAIN sent = 1 .. Len(sent)
    BY DEF MediaTypes, WorkOK
  <2> QED  BY <2>1 DEF AddressInv, SymmetricRtp
<1> QED  BY <1>1, <1>2, <1>3, AddressKeeps, MediaAlways, PTL DEF Spec

-----------------------------------------------------------------------------
(* Numbers and timestamps.                                                 *)

\* A remainder goes on to the next.
LEMMA NextRemainder ==
  ASSUME NEW M \in Nat \ {0}, NEW x \in Int
  PROVE  ((x % M) + 1) % M = (x + 1) % M
<1>1. PICK q \in Int, r \in Nat : r < M /\ x = M * q + r /\ x % M = r
  BY DivMod
<1>2. PICK p \in Int, s \in Nat : s < M /\ r + 1 = M * p + s /\ (r + 1) % M = s
  <2>1. r + 1 \in Int
    OBVIOUS
  <2> QED  BY <2>1, DivMod
<1>3. PICK k \in Int : x + 1 = M * k + s
  <2>1. x + 1 = M * (q + p) + s /\ q + p \in Int
    BY <1>1, <1>2
  <2> QED  BY <2>1
<1>4. (x + 1) % M = s
  <2> DEFINE y == x + 1
  <2>1. y = M * k + s /\ s < M
    BY <1>2, <1>3
  <2> HIDE DEF y
  <2>2. y % M = s
    BY <2>1, Remainder
  <2> QED  BY <2>2 DEF y
<1> QED  BY <1>1, <1>2, <1>4

\* The number after the k-th is the one before the next.
LEMMA NextNumber ==
  ASSUME NEW k \in Nat
  PROVE  (NumberOf(k) + 1) % Modulus = NumberOf(k + 1)
<1>1. FirstNumber + k \in Int /\ (FirstNumber + k) + 1 = FirstNumber + (k + 1)
  BY JitterConstants
<1>2. (((FirstNumber + k) % Modulus) + 1) % Modulus = ((FirstNumber + k) + 1) % Modulus
  BY <1>1, JitterConstants, NextRemainder
<1> QED  BY <1>1, <1>2 DEF NumberOf

\* Numbers are as far apart as the frames they stand for, until they come round.
LEMMA NumbersApart ==
  ASSUME NEW k \in Nat, NEW m \in Nat, k <= m, m - k < Modulus
  PROVE  (NumberOf(m) - NumberOf(k)) % Modulus = m - k
<1> DEFINE x == FirstNumber + k
           y == FirstNumber + m
<1>1. x \in Int /\ y \in Int /\ y - x = m - k /\ Modulus \in Nat \ {0} /\ m - k \in Nat
  BY JitterConstants
<1>2. NumberOf(k) = x % Modulus /\ NumberOf(m) = y % Modulus
  BY DEF NumberOf
<1> HIDE DEF x, y
<1>3. ((y % Modulus) - (x % Modulus)) % Modulus = (y - x) % Modulus
  BY <1>1, Difference
<1>4. m - k = Modulus * 0 + (m - k)
  BY <1>1
<1>5. (m - k) % Modulus = m - k
  BY <1>1, <1>4, Remainder
<1> QED  BY <1>1, <1>2, <1>3, <1>5

\* What carries number and timestamp of one frame.
Stamped(r) == \E k \in Nat : r.ts = 160 * k /\ r.seq = NumberOf(k)

\* A worker that has taken a number and not yet sent.
AtSend(w) == pc[w] = "send"

\* Whatever has been taken is not taken again, by whomever it is held.
ClockInv ==
  /\ Stamped(outgoing)
  /\ \A i \in 1 .. Len(sent) : Stamped(sent[i]) /\ sent[i].ts <= outgoing.ts
  /\ \A i, j \in 1 .. Len(sent) : i # j => sent[i].ts # sent[j].ts
  /\ \A w \in Worker : AtSend(w) =>
       /\ Stamped(hand[w]) /\ hand[w].ts <= outgoing.ts
       /\ \A i \in 1 .. Len(sent) : sent[i].ts # hand[w].ts
       /\ \A v \in Worker \ {w} : AtSend(v) => hand[v].ts # hand[w].ts

\* With one port the numbers that have been taken are those of the packets that have
\* been sent, and the one in the worker's hand.
SinglePortInv ==
  ports = {First} =>
    /\ \A i \in 1 .. Len(sent) : sent[i].seq = NumberOf(i)
    /\ IF AtSend(First)
         THEN outgoing.seq = NumberOf(Len(sent) + 1) /\ hand[First].seq = outgoing.seq
         ELSE outgoing.seq = NumberOf(Len(sent))

NumberInv == ClockInv /\ SinglePortInv

\* A call starts with no number taken.
LEMMA NumberStarts == Init => NumberInv
<1> SUFFICES ASSUME Init  PROVE NumberInv
  OBVIOUS
<1>1. FirstNumber = NumberOf(0)
  <2>1. FirstNumber = Modulus * 0 + FirstNumber /\ FirstNumber < Modulus
    BY SizeAssumption
  <2>2. FirstNumber % Modulus = FirstNumber
    BY <2>1, JitterConstants, Remainder
  <2>3. FirstNumber + 0 = FirstNumber
    BY JitterConstants
  <2> QED  BY <2>2, <2>3 DEF NumberOf
<1>2. outgoing.ts = 160 * 0 /\ outgoing.seq = NumberOf(0) /\ sent = <<>> /\ Len(sent) = 0
  BY <1>1 DEF Init
<1>3. \A w \in Worker : ~AtSend(w)
  BY DEF Init, AtSend
<1>4. ClockInv
  BY <1>2, <1>3 DEF ClockInv, Stamped
<1>5. SinglePortInv
  BY <1>2, <1>3, MediaAssumption DEF SinglePortInv
<1> QED  BY <1>4, <1>5 DEF NumberInv

\* Nothing changes for who takes no number and sends nothing.
LEMMA QuietNumbers ==
  ASSUME NumberInv, UNCHANGED <<outgoing, sent>>, First \in ports, ports \subseteq ports',
         \A w \in Worker : (AtSend(w)' <=> AtSend(w)) /\ (AtSend(w) => hand'[w] = hand[w])
  PROVE  NumberInv'
<1>1. ClockInv'
  <2>1. Stamped(outgoing')
    BY DEF NumberInv, ClockInv
  <2> QED  BY <2>1 DEF NumberInv, ClockInv
<1>2. SinglePortInv'
  <2> SUFFICES ASSUME ports' = {First}  PROVE SinglePortInv'
    BY DEF SinglePortInv
  <2>1. ports = {First} /\ First \in Worker
    BY MediaAssumption
  <2> QED  BY <2>1 DEF NumberInv, SinglePortInv
<1> QED  BY <1>1, <1>2 DEF NumberInv

\* A number is taken, which is new.
LEMMA TakeNumberKeeps ==
  ASSUME MediaTypes, NumberInv, NEW w \in Worker, TakeNumber(w)
  PROVE  NumberInv'
<1>1. /\ outgoing' = Advance(outgoing) /\ pc[w] = "number" /\ UNCHANGED <<sent, ports>>
      /\ \A v \in Worker : AtSend(v)' <=> AtSend(v) \/ v = w
  BY DEF TakeNumber, GoTo, AtSend, MediaTypes, WorkersOK, sessionVars
<1>2. /\ hand'[w].seq = outgoing'.seq /\ hand'[w].ts = outgoing'.ts
      /\ \A v \in Worker \ {w} : hand'[v] = hand[v]
  <2>1. hand \in [Worker -> Hand]
    BY DEF MediaTypes, WorkersOK
  <2>2. PICK h \in Hand : /\ hand' = [hand EXCEPT ![w] = h] /\ hand'[w] = h
                          /\ h.seq = outgoing'.seq /\ h.ts = outgoing'.ts
    BY NumberEffect
  <2> QED  BY <2>1, <2>2
<1>3. PICK k \in Nat : outgoing.ts = 160 * k /\ outgoing.seq = NumberOf(k)
  BY DEF NumberInv, ClockInv, Stamped
<1>4. outgoing'.seq = NumberOf(k + 1) /\ outgoing'.ts = 160 * (k + 1)
  BY <1>1, <1>3, NextNumber DEF Advance
<1>5. Stamped(outgoing') /\ Stamped(hand'[w]) /\ outgoing.ts < outgoing'.ts /\ k + 1 \in Nat
  BY <1>2, <1>3, <1>4 DEF Stamped
<1>6. /\ outgoing.ts \in Int /\ outgoing'.ts \in Int
      /\ \A i \in 1 .. Len(sent) : sent[i].ts \in Int
      /\ \A v \in Worker : hand[v].ts \in Int
  <2>1. \A i \in 1 .. Len(sent) : sent[i] \in Sent
    BY DEF MediaTypes, WorkOK
  <2>2. \A v \in Worker : hand[v] \in Hand
    BY DEF MediaTypes, WorkersOK
  <2> QED  BY <1>3, <1>4, <2>1, <2>2 DEF Sent, Hand
<1>7. ClockInv'
  <2>1. \A i \in 1 .. Len(sent') : Stamped(sent'[i]) /\ sent'[i].ts < outgoing'.ts
    <3>1. \A i \in 1 .. Len(sent) : Stamped(sent[i]) /\ sent[i].ts <= outgoing.ts
      BY DEF NumberInv, ClockInv
    <3> QED  BY <1>1, <1>5, <1>6, <3>1
  <2>2. \A i, j \in 1 .. Len(sent') : i # j => sent'[i].ts # sent'[j].ts
    BY <1>1 DEF NumberInv, ClockInv
  <2>3. \A v \in Worker \ {w} : AtSend(v)' =>
          /\ AtSend(v) /\ hand'[v] = hand[v]
          /\ Stamped(hand'[v]) /\ hand'[v].ts < outgoing'.ts
          /\ \A i \in 1 .. Len(sent') : sent'[i].ts # hand'[v].ts
    <3>1. \A v \in Worker : AtSend(v) =>
            /\ Stamped(hand[v]) /\ hand[v].ts <= outgoing.ts
            /\ \A i \in 1 .. Len(sent) : sent[i].ts # hand[v].ts
      BY DEF NumberInv, ClockInv
    <3> QED  BY <1>1, <1>2, <1>5, <1>6, <3>1
  <2>4. \A u, v \in Worker : u # v /\ AtSend(u)' /\ AtSend(v)' => hand'[u].ts # hand'[v].ts
    <3> SUFFICES ASSUME NEW u \in Worker, NEW v \in Worker, u # v, AtSend(u)', AtSend(v)'
                 PROVE  hand'[u].ts # hand'[v].ts
      OBVIOUS
    <3>1. CASE u # w /\ v # w
      <4>1. AtSend(u) /\ AtSend(v) /\ hand'[u] = hand[u] /\ hand'[v] = hand[v]
        BY <2>3, <3>1
      <4> QED  BY <4>1 DEF NumberInv, ClockInv
    <3>2. CASE u = w
      BY <1>2, <1>6, <2>3, <3>2
    <3>3. CASE v = w
      BY <1>2, <1>6, <2>3, <3>3
    <3> QED  BY <3>1, <3>2, <3>3
  <2>5. /\ hand'[w].ts <= outgoing'.ts
        /\ \A i \in 1 .. Len(sent') : sent'[i].ts # hand'[w].ts
        /\ \A i \in 1 .. Len(sent') : sent'[i].ts <= outgoing'.ts
        /\ \A v \in Worker \ {w} : AtSend(v)' => hand'[v].ts <= outgoing'.ts
    BY <1>1, <1>2, <1>6, <2>1, <2>3
  <2> QED  BY <1>5, <2>1, <2>2, <2>3, <2>4, <2>5 DEF ClockInv
<1>8. SinglePortInv'
  <2> SUFFICES ASSUME ports' = {First}  PROVE SinglePortInv'
    BY DEF SinglePortInv
  <2>1. w = First /\ ports = {First} /\ ~AtSend(First) /\ AtSend(First)'
    BY <1>1 DEF MediaTypes, WorkersOK, WorkerOK, AtSend
  <2>2. outgoing.seq = NumberOf(Len(sent)) /\ Len(sent) \in Nat
    BY <2>1 DEF NumberInv, SinglePortInv, MediaTypes, WorkOK
  <2>3. outgoing'.seq = NumberOf(Len(sent) + 1)
    BY <1>1, <2>2, NextNumber DEF Advance
  <2> QED  BY <1>1, <1>2, <2>1, <2>3 DEF NumberInv, SinglePortInv
<1> QED  BY <1>7, <1>8 DEF NumberInv

\* A number that was taken leaves.
LEMMA SendNumbers ==
  ASSUME MediaTypes, NumberInv, NEW w \in Worker, Send(w)
  PROVE  NumberInv'
<1>1. UNCHANGED <<outgoing, ports>>
  BY DEF Send, sessionVars
<1>2. PICK packet \in Sent :
           /\ packet.seq = hand[w].seq /\ packet.ts = hand[w].ts
           /\ Len(sent) \in Nat /\ Len(sent') = Len(sent) + 1
           /\ \A i \in 1 .. Len(sent) : sent'[i] = sent[i]
           /\ sent'[Len(sent) + 1] = packet
           /\ pc[w] = "send" /\ pc'[w] = "receive"
           /\ \A i \in 1 .. Len(sent') : i \in 1 .. Len(sent) \/ i = Len(sent) + 1
           /\ \A v \in Worker \ {w} : pc'[v] = pc[v] /\ hand'[v] = hand[v]
  BY SendEffect
<1>3. /\ AtSend(w) /\ ~AtSend(w)'
      /\ \A v \in Worker : AtSend(v)' => AtSend(v) /\ v # w /\ hand'[v] = hand[v]
  BY <1>2 DEF AtSend
<1>4. /\ Stamped(packet) /\ packet.ts <= outgoing.ts
      /\ \A i \in 1 .. Len(sent) : sent[i].ts # packet.ts
      /\ \A v \in Worker \ {w} : AtSend(v) => hand[v].ts # packet.ts
  BY <1>2, <1>3 DEF NumberInv, ClockInv, Stamped
<1>5. \A i \in 1 .. Len(sent') : i \in 1 .. Len(sent) \/ i = Len(sent) + 1
  BY <1>2
<1>6. ClockInv'
  <2>1. \A i \in 1 .. Len(sent') : Stamped(sent'[i]) /\ sent'[i].ts <= outgoing'.ts
    BY <1>1, <1>2, <1>4, <1>5 DEF NumberInv, ClockInv
  <2>2. \A i, j \in 1 .. Len(sent') : i # j => sent'[i].ts # sent'[j].ts
    BY <1>2, <1>4, <1>5 DEF NumberInv, ClockInv
  <2>3. \A v \in Worker : AtSend(v)' =>
          /\ Stamped(hand'[v]) /\ hand'[v].ts <= outgoing'.ts
          /\ \A u \in Worker \ {v} : AtSend(u)' => hand'[u].ts # hand'[v].ts
    BY <1>1, <1>3 DEF NumberInv, ClockInv
  <2>4. ASSUME NEW v \in Worker, AtSend(v)', NEW i \in 1 .. Len(sent')
        PROVE  sent'[i].ts # hand'[v].ts
    BY <1>2, <1>3, <1>4, <1>5, <2>4 DEF NumberInv, ClockInv
  <2>5. Stamped(outgoing')
    BY <1>1 DEF NumberInv, ClockInv
  <2> QED  BY <2>1, <2>2, <2>3, <2>4, <2>5 DEF ClockInv
<1>7. SinglePortInv'
  <2> SUFFICES ASSUME ports' = {First}  PROVE SinglePortInv'
    BY DEF SinglePortInv
  <2>1. w = First /\ ports = {First}
    BY <1>1, <1>2 DEF MediaTypes, WorkersOK, WorkerOK
  <2>2. /\ \A i \in 1 .. Len(sent) : sent[i].seq = NumberOf(i)
        /\ outgoing.seq = NumberOf(Len(sent) + 1) /\ hand[First].seq = outgoing.seq
    BY <1>3, <2>1 DEF NumberInv, SinglePortInv
  <2>3. \A i \in 1 .. Len(sent') : sent'[i].seq = NumberOf(i)
    BY <1>2, <1>5, <2>1, <2>2
  <2> QED  BY <1>1, <1>2, <1>3, <2>1, <2>2, <2>3 DEF SinglePortInv
<1> QED  BY <1>6, <1>7 DEF NumberInv

\* No number is taken twice, whoever takes it and however late it leaves.
LEMMA NumbersKeep ==
  ASSUME MediaTypes, NumberInv, [Next]_mediaVars
  PROVE  NumberInv'
<1>1. pc \in [Worker -> Label] /\ hand \in [Worker -> Hand] /\ First \in ports
  BY DEF MediaTypes, WorkersOK, SessionOK
<1>2. CASE \E w \in Worker : TakeNumber(w)
  BY <1>2, TakeNumberKeeps
<1>3. CASE \E w \in Worker : Send(w)
  BY <1>3, SendNumbers
<1>4. ASSUME NEW w \in Worker,
             \/ \E from \in Sender : ReceiveOther(w, from) \/ \E n \in Packet : Receive(w, n, from)
             \/ PopFrame(w) \/ CopySession(w)
             \/ BeginEcho(w) \/ EndEcho(w) \/ TakeEcho(w) \/ ClearEcho(w) \/ TakeDownlink(w)
      PROVE  NumberInv'
  <2>1. UNCHANGED <<outgoing, sent, ports>>
    BY <1>4 DEF ReceiveOther, Receive, PopFrame, CopySession, BeginEcho, EndEcho, TakeEcho,
                ClearEcho, TakeDownlink, workVars, sessionVars
  <2>2. pc[w] # "send" /\ (pc' = pc \/ \E l \in Label \ {"send"} : pc' = [pc EXCEPT ![w] = l])
    BY <1>4 DEF ReceiveOther, Receive, PopFrame, CopySession, BeginEcho, EndEcho, TakeEcho,
                ClearEcho, TakeDownlink, GoTo, Finish, Label
  <2>3. \A v \in Worker \ {w} : hand'[v] = hand[v]
    BY <1>1, <1>4 DEF ReceiveOther, Receive, PopFrame, CopySession, BeginEcho, EndEcho, TakeEcho,
                ClearEcho, TakeDownlink, GoTo, Finish
  <2>4. \A v \in Worker : (AtSend(v)' <=> AtSend(v)) /\ (AtSend(v) => v # w)
    BY <1>1, <2>2 DEF AtSend
  <2> QED  BY <1>1, <2>1, <2>3, <2>4, QuietNumbers
<1>5. CASE \/ \E s \in Stage, n \in 1 .. MaxChunk : ReadAudio(s, n)
           \/ SipStep
           \/ UNCHANGED mediaVars
  <2>1. UNCHANGED <<pc, hand, outgoing, sent>> /\ ports \subseteq ports'
    BY <1>5 DEF ReadAudio, SipStep, Reinvite, Terminate, mediaVars, sessionVars, workVars
  <2> QED  BY <1>1, <2>1, QuietNumbers DEF AtSend
<1> QED  BY <1>2, <1>3, <1>4, <1>5 DEF Next, WorkerStep

\* Every packet of a call has a timestamp of its own, with the number that belongs to it,
\* however many workers take numbers under the mutex and send outside of it.
THEOREM MediaNumbersFollowClock == Spec => []NumbersFollowClock
<1>1. MediaInv => MediaTypes
  BY DEF MediaInv
<1>2. MediaTypes /\ NumberInv => NumbersFollowClock
  <2> SUFFICES ASSUME MediaTypes, NumberInv  PROVE NumbersFollowClock
    OBVIOUS
  <2>1. /\ DOMAIN sent = 1 .. Len(sent)
        /\ \A k \in 1 .. Len(sent) : Stamped(sent[k])
    BY DEF MediaTypes, WorkOK, NumberInv, ClockInv
  <2>2. ASSUME NEW i \in 1 .. Len(sent), NEW j \in 1 .. Len(sent), i # j,
               NEW later, later = sent[j].ts - sent[i].ts
        PROVE  /\ later # 0
               /\ later \in 0 .. 160 * Modulus - 1 =>
                    later = 160 * ((sent[j].seq - sent[i].seq) % Modulus)
    <3>1. PICK k \in Nat : sent[i].ts = 160 * k /\ sent[i].seq = NumberOf(k)
      BY <2>1 DEF Stamped
    <3>2. PICK m \in Nat : sent[j].ts = 160 * m /\ sent[j].seq = NumberOf(m)
      BY <2>1 DEF Stamped
    <3>3. sent[i].ts # sent[j].ts
      BY <2>2 DEF NumberInv, ClockInv
    <3>4. later # 0 /\ later = 160 * (m - k)
      BY <2>2, <3>1, <3>2, <3>3
    <3>5. ASSUME later \in 0 .. 160 * Modulus - 1
          PROVE  later = 160 * ((sent[j].seq - sent[i].seq) % Modulus)
      <4>1. k <= m /\ m - k < Modulus
        BY <3>4, <3>5, JitterConstants
      <4>2. (NumberOf(m) - NumberOf(k)) % Modulus = m - k
        BY <4>1, NumbersApart
      <4> QED  BY <3>1, <3>2, <3>4, <4>2
    <3> QED  BY <3>4, <3>5
  <2>3. ports = {First} =>
          \A i \in 1 .. Len(sent) : sent[i].seq = (FirstNumber + i) % Modulus
    BY DEF NumberInv, SinglePortInv, NumberOf
  <2> QED  BY <2>1, <2>2, <2>3 DEF NumbersFollowClock
<1> QED  BY <1>1, <1>2, NumberStarts, NumbersKeep, MediaAlways, PTL DEF Spec

-----------------------------------------------------------------------------
(* The echo.                                                               *)

\* Workers with a packet that has been played and not yet been sent or dropped.
InHand == {w \in Worker : pc[w] \notin {"receive", "pop"}}

\* Every packet sent was played before, and not the one in another worker's hand.
CountInv ==
  /\ IsFiniteSet(InHand)
  /\ Len(sent) + Cardinality(InHand) <= Len(played)

\* A call starts with nothing sent.
LEMMA CountStarts == Init => CountInv
<1> SUFFICES ASSUME Init  PROVE CountInv
  OBVIOUS
<1>1. sent = <<>> /\ played = <<>> /\ InHand = {}
  BY DEF Init, JitterInit, InHand
<1> QED  BY <1>1, FS_EmptySet DEF CountInv

\* How many packets are in hand after a worker has taken one, or let go of one.
LEMMA HandsCount ==
  ASSUME MediaTypes, CountInv, NEW w \in Worker,
         \A v \in Worker \ {w} : pc'[v] = pc[v]
  PROVE  /\ Cardinality(InHand) \in Nat
         /\ IsFiniteSet(InHand') /\ Cardinality(InHand') \in Nat
         /\ w \in InHand <=> pc[w] \notin {"receive", "pop"}
         /\ w \in InHand' <=> pc'[w] \notin {"receive", "pop"}
         /\ (w \in InHand <=> w \in InHand') => InHand' = InHand
         /\ w \notin InHand /\ w \in InHand' => Cardinality(InHand') = Cardinality(InHand) + 1
         /\ w \in InHand /\ w \notin InHand' => Cardinality(InHand') = Cardinality(InHand) - 1
<1>1. IsFiniteSet(InHand) /\ Cardinality(InHand) \in Nat
  BY FS_CardinalityType DEF CountInv
<1>2. /\ w \in InHand <=> pc[w] \notin {"receive", "pop"}
      /\ w \in InHand' <=> pc'[w] \notin {"receive", "pop"}
      /\ \A v : v # w => (v \in InHand <=> v \in InHand')
  BY DEF InHand
<1>3. CASE w \in InHand <=> w \in InHand'
  <2>1. InHand' = InHand
    BY <1>2, <1>3
  <2> QED  BY <1>1, <1>2, <2>1
<1>4. CASE w \notin InHand /\ w \in InHand'
  <2>1. InHand' = InHand \cup {w}
    BY <1>2, <1>4
  <2>2. IsFiniteSet(InHand') /\ Cardinality(InHand') = Cardinality(InHand) + 1
    BY <1>1, <1>4, <2>1, FS_AddElement
  <2> QED  BY <1>1, <1>2, <1>4, <2>2, FS_CardinalityType
<1>5. CASE w \in InHand /\ w \notin InHand'
  <2>1. InHand' = InHand \ {w}
    BY <1>2, <1>5
  <2>2. IsFiniteSet(InHand') /\ Cardinality(InHand') = Cardinality(InHand) - 1
    BY <1>1, <1>5, <2>1, FS_RemoveElement
  <2> QED  BY <1>1, <1>2, <1>5, <2>2, FS_CardinalityType
<1> QED  BY <1>3, <1>4, <1>5

\* No step sends more than was played.
LEMMA CountKeeps ==
  ASSUME MediaTypes, CountInv, [Next]_mediaVars
  PROVE  CountInv'
<1>1. /\ pc \in [Worker -> Label] /\ hand \in [Worker -> Hand]
      /\ Len(sent) \in Nat /\ Len(played) \in Nat
  BY DEF MediaTypes, WorkersOK, WorkOK, JitterOK
<1>2. ASSUME NEW w \in Worker, Send(w)  PROVE CountInv'
  <2>1. /\ Len(sent') = Len(sent) + 1 /\ pc[w] = "send" /\ pc'[w] = "receive"
        /\ \A v \in Worker \ {w} : pc'[v] = pc[v]
    BY <1>2, SendEffect
  <2>2. /\ Cardinality(InHand) \in Nat /\ IsFiniteSet(InHand')
        /\ Cardinality(InHand') = Cardinality(InHand) - 1
    BY <2>1, HandsCount
  <2>3. played' = played
    BY <1>2 DEF Send, jitterVars
  <2> QED  BY <1>1, <2>1, <2>2, <2>3 DEF CountInv
<1>3. ASSUME NEW w \in Worker, PopFrame(w), Pop  PROVE CountInv'
  <2>1. played' = Append(played, Head(buffer)) /\ sent' = sent
    BY <1>3 DEF PopFrame, Pop, workVars
  <2>2. Len(played') = Len(played) + 1
    <3>1. Head(buffer) \in Packet /\ played \in Seq(Packet)
      <4>1. buffer \in Seq(Packet) /\ Len(buffer) >= TargetSize /\ played \in Seq(Packet)
        BY <1>3 DEF Pop, IsFull, MediaTypes, JitterOK
      <4>2. buffer # <<>>
        BY <4>1, JitterConstants
      <4> QED  BY <4>1, <4>2
    <3> QED  BY <2>1, <3>1
  <2>3. pc[w] = "pop" /\ \A v \in Worker \ {w} : pc'[v] = pc[v]
    BY <1>1, <1>3 DEF PopFrame, GoTo, Finish
  <2>4. /\ Cardinality(InHand) \in Nat
        /\ IsFiniteSet(InHand') /\ Cardinality(InHand') \in Nat
        /\ Cardinality(InHand') <= Cardinality(InHand) + 1
    BY <2>3, HandsCount
  <2> QED  BY <1>1, <2>1, <2>2, <2>4 DEF CountInv
<1>4. ASSUME NEW w \in Worker, UNCHANGED <<sent, played>>,
             pc' = pc \/ \E l \in Label : pc' = [pc EXCEPT ![w] = l]
                                     /\ (pc[w] \in {"receive", "pop"} => l \in {"receive", "pop"})
      PROVE  CountInv'
  <2>1. \A v \in Worker \ {w} : pc'[v] = pc[v]
    BY <1>1, <1>4
  <2>2. pc[w] \in {"receive", "pop"} => pc'[w] \in {"receive", "pop"}
    BY <1>1, <1>4
  <2>3. /\ Cardinality(InHand) \in Nat
        /\ IsFiniteSet(InHand') /\ Cardinality(InHand') \in Nat
        /\ Cardinality(InHand') <= Cardinality(InHand)
    BY <2>1, <2>2, HandsCount
  <2> QED  BY <1>1, <1>4, <2>3 DEF CountInv
<1>5. ASSUME NEW w \in Worker, WorkerStep(w), ~Send(w), ~(PopFrame(w) /\ Pop)
      PROVE  CountInv'
  <2>1. UNCHANGED <<sent, played>>
    BY <1>5 DEF WorkerStep, ReceiveOther, Receive, PopFrame, CopySession, BeginEcho, EndEcho,
                TakeEcho, ClearEcho, TakeDownlink, TakeNumber, Push, jitterVars, workVars
  <2>2. pc' = pc \/ \E l \in Label : pc' = [pc EXCEPT ![w] = l]
                                /\ (pc[w] \in {"receive", "pop"} => l \in {"receive", "pop"})
    BY <1>5 DEF WorkerStep, ReceiveOther, Receive, PopFrame, CopySession, BeginEcho, EndEcho,
                TakeEcho, ClearEcho, TakeDownlink, TakeNumber, GoTo, Finish, Label
  <2> QED  BY <1>4, <2>1, <2>2
<1>6. CASE \/ \E s \in Stage, n \in 1 .. MaxChunk : ReadAudio(s, n)
           \/ SipStep
           \/ UNCHANGED mediaVars
  <2>1. UNCHANGED <<pc, sent, played>>
    BY <1>6 DEF ReadAudio, SipStep, Reinvite, Terminate, mediaVars, jitterVars, workVars
  <2> QED  BY <2>1 DEF CountInv, InHand
<1> QED  BY <1>2, <1>3, <1>5, <1>6 DEF Next, WorkerStep

-----------------------------------------------------------------------------
(* Whose echo is whose, with any number of workers and stages.             *)

\* A worker whose packet has not been written, or not wholly.
IsOpen(w) == pc[w] \in {"copy", "echo", "echoing"}

\* A worker that has copied buffer_.
IsLoaded(w) == pc[w] \in {"clear", "number", "send"}

\* A frame that has been sent; that has been copied; that has been copied and cleared.
IsSent(n) == \E i \in 1 .. Len(sent) : sent[i].payload = <<n>>
Taken(n) == IsSent(n) \/ \E w \in Worker : IsLoaded(w) /\ hand[w].payload = <<n>>
Cleared(n) ==
  IsSent(n) \/ \E w \in Worker : pc[w] \in {"number", "send"} /\ hand[w].payload = <<n>>

\* A packet that is not yet written is nobody else's, and in no stage but the one it is
\* being written to.
OpenInv(w) ==
  IsOpen(w) =>
    /\ hand[w].packet \in ToSet(played) /\ ~Taken(hand[w].packet)
    /\ pc[w] # "copy" => hand[w].packet \notin Empty
    /\ \A v \in Worker \ {w} : IsOpen(v) => hand[v].packet # hand[w].packet
    /\ \A s \in Stage :
         hand[w].packet \in echo[s].writers <=> pc[w] = "echoing" /\ s = hand[w].stage

\* Stages share no packet, and what has been cleared is not there to be taken again.
WritersInv ==
  \A s \in Stage :
    /\ echo[s].writers \subseteq Audible
    /\ \A t \in Stage \ {s} : echo[s].writers \cap echo[t].writers = {}
    /\ echo[s].hasData => ~Cleared(Content(s)) \/ Content(s) = Torn

\* What a worker has copied it has not sent before, and it clears it where it was.
LoadedInv(w) ==
  IsLoaded(w) => \E n \in Audible \cup {Torn} :
    /\ hand[w].payload = <<n>>
    /\ n # Torn =>
         /\ \A i \in 1 .. Len(sent) : sent[i].by = w => sent[i].payload # <<n>>
         /\ pc[w] = "clear" => \A s \in Stage : n \in echo[s].writers => s = hand[w].stage

SentInv ==
  /\ \A i \in 1 .. Len(sent) : \E n \in Audible \cup {Torn} : sent[i].payload = <<n>>
  /\ \A i, j \in 1 .. Len(sent) :
       i # j /\ sent[i].by = sent[j].by /\ sent[i].payload = sent[j].payload =>
         sent[i].payload = <<Torn>>

EchoInv ==
  mode = "ECHO" =>
    /\ \A w \in Worker : pc[w] # "take" /\ OpenInv(w) /\ LoadedInv(w)
    /\ WritersInv /\ SentInv

\* A call starts with empty hands.
LEMMA EchoStarts == Init => EchoInv
<1> SUFFICES ASSUME Init  PROVE EchoInv
  OBVIOUS
<1>1. \A w \in Worker : pc[w] = "receive"
  BY DEF Init
<1>2. sent = <<>> /\ \A s \in Stage : echo[s].writers = {} /\ ~echo[s].hasData
  BY DEF Init
<1> QED
  BY <1>1, <1>2 DEF EchoInv, OpenInv, LoadedInv, WritersInv, SentInv, IsOpen, IsLoaded

\* The sets and sequences of a call in ECHO mode.
LEMMA EchoShape ==
  ASSUME MediaTypes
  PROVE  /\ pc \in [Worker -> Label] /\ hand \in [Worker -> Hand]
         /\ echo \in [Stage -> [writers : SUBSET Packet, hasData : BOOLEAN]]
         /\ sent \in Seq(Sent) /\ Len(sent) \in Nat
         /\ ToSet(played) \subseteq Packet /\ Audible \subseteq Packet
         /\ Torn \notin Packet
<1>1. played \in Seq(Packet)
  BY DEF MediaTypes, JitterOK
<1>2. ToSet(played) \subseteq Packet
  <2>1. \A i \in 1 .. Len(played) : played[i] \in Packet
    BY <1>1, ElementOfSeq
  <2> QED  BY <1>1, <2>1 DEF ToSet
<1>3. Torn \notin Packet
  BY JitterConstants DEF Packet, Torn
<1> QED  BY <1>2, <1>3 DEF MediaTypes, WorkersOK, WorkOK, Audible

\* A stage that is left alone has what it had.
LEMMA ContentStays ==
  ASSUME NEW s \in Stage, echo'[s].writers = echo[s].writers, Writing(s)' = Writing(s)
  PROVE  Content(s)' = Content(s)
BY DEF Content

\* A packet that is popped comes after all that have been.
LEMMA PopIsNew ==
  ASSUME JitterInv, JitterInv', Pop
  PROVE  /\ Head(buffer) \in Packet /\ Head(buffer) \notin ToSet(played)
         /\ \A n \in ToSet(played) : n < Head(buffer)
         /\ ToSet(played') = ToSet(played) \cup {Head(buffer)}
<1> DEFINE p == Head(buffer)
<1>1. p \in Packet /\ played \in Seq(Packet) /\ played' = Append(played, p)
  BY PopKeeps, JitterTypes DEF Pop
<1> HIDE DEF p
<1>2. /\ Len(played) \in Nat /\ Len(played') = Len(played) + 1
      /\ \A i \in 1 .. Len(played) : played'[i] = played[i] /\ played[i] \in Packet
      /\ played'[Len(played) + 1] = p
      /\ DOMAIN played' = 1 .. Len(played) + 1 /\ DOMAIN played = 1 .. Len(played)
  BY <1>1
<1>3. \A i \in 1 .. Len(played) : played[i] < p
  <2>1. \A i, j \in DOMAIN played' : i < j => played'[i] < played'[j]
    BY DEF JitterInv, PlayedInOrder
  <2> QED  BY <1>2, <2>1
<1>4. ToSet(played') = ToSet(played) \cup {p}
  BY <1>2 DEF ToSet
<1>5. \A n \in ToSet(played) : n < p /\ n \in Packet
  BY <1>2, <1>3 DEF ToSet
<1>6. p \notin ToSet(played)
  <2>1. p \in Int
    BY <1>1, JitterConstants DEF Packet
  <2> QED  BY <1>5, <2>1
<1> QED  BY <1>1, <1>4, <1>5, <1>6 DEF p

\* A worker goes on without a change to a stage.
LEMMA EchoStays ==
  ASSUME EchoInv, NEW w \in Worker, UNCHANGED <<mode, sent, echo, played>>,
         \A v \in Worker \ {w} : pc'[v] = pc[v] /\ hand'[v] = hand[v],
         pc[w] # "echoing", pc'[w] \notin {"take", "echoing"},
         mode = "ECHO" =>
           /\ IsOpen(w)' =>
                /\ IsOpen(w) /\ hand'[w].packet = hand[w].packet
                /\ pc'[w] # "copy" => hand[w].packet \notin Empty
           /\ \A v \in Worker : IsOpen(v)' => ~Taken(hand[v].packet)'
           /\ \A n : Cleared(n)' => Cleared(n)
           /\ LoadedInv(w)'
  PROVE  EchoInv'
<1> SUFFICES ASSUME mode = "ECHO"  PROVE EchoInv'
  BY DEF EchoInv
<1>1. Audible' = Audible
  BY DEF Audible
<1>2. \A s \in Stage : Content(s)' = Content(s)
  <2>1. \A s \in Stage : Writing(s)' = Writing(s)
    BY DEF Writing
  <2> QED  BY <2>1, ContentStays
<1>3. ASSUME NEW v \in Worker  PROVE pc'[v] # "take" /\ OpenInv(v)'
  <2>1. OpenInv(v) /\ pc[v] # "take"
    BY DEF EchoInv
  <2>2. \A u \in Worker : IsOpen(u)' => IsOpen(u) /\ hand'[u].packet = hand[u].packet
    BY DEF IsOpen
  <2>3. IsOpen(v)' => /\ pc'[v] # "copy" => hand[v].packet \notin Empty
                      /\ pc'[v] = "echoing" <=> pc[v] = "echoing"
                      /\ pc'[v] = "echoing" => hand'[v].stage = hand[v].stage
    BY <2>1 DEF OpenInv, IsOpen
  <2>4. IsOpen(v)' => ~Taken(hand[v].packet)'
    OBVIOUS
  <2>5. IsOpen(v)' =>
          /\ hand'[v].packet \in ToSet(played')
          /\ \A u \in Worker \ {v} : IsOpen(u)' => hand'[u].packet # hand'[v].packet
          /\ \A s \in Stage :
               hand'[v].packet \in echo'[s].writers <=> pc'[v] = "echoing" /\ s = hand'[v].stage
    BY <2>1, <2>2, <2>3 DEF OpenInv
  <2> QED  BY <2>1, <2>2, <2>3, <2>4, <2>5 DEF OpenInv
<1>4. ASSUME NEW v \in Worker, v # w  PROVE LoadedInv(v)'
  BY <1>1, <1>4 DEF EchoInv, LoadedInv, IsLoaded
<1>5. WritersInv'
  BY <1>1, <1>2 DEF EchoInv, WritersInv
<1>6. SentInv'
  BY <1>1 DEF EchoInv, SentInv
<1> QED  BY <1>3, <1>4, <1>5, <1>6 DEF EchoInv

\* What has been sent, copied and cleared stays so.
LEMMA NothingTaken ==
  ASSUME UNCHANGED sent, NEW w \in Worker, ~IsLoaded(w)',
         \A v \in Worker \ {w} : pc'[v] = pc[v] /\ hand'[v] = hand[v]
  PROVE  \A n : (Taken(n)' => Taken(n)) /\ (Cleared(n)' => Cleared(n))
BY DEF Taken, Cleared, IsSent, IsLoaded

\* A worker that has nothing of the stage leaves it alone ...
LEMMA QuietEcho ==
  ASSUME EchoInv, NEW w \in Worker, UNCHANGED <<mode, sent, echo, played>>,
         \A v \in Worker \ {w} : pc'[v] = pc[v] /\ hand'[v] = hand[v],
         pc[w] # "echoing", ~IsLoaded(w)', pc'[w] \notin {"take", "echoing"},
         mode = "ECHO" /\ IsOpen(w)' =>
           /\ IsOpen(w) /\ hand'[w].packet = hand[w].packet
           /\ pc'[w] # "copy" => hand[w].packet \notin Empty
  PROVE  EchoInv'
<1>1. \A n : (Taken(n)' => Taken(n)) /\ (Cleared(n)' => Cleared(n))
  BY NothingTaken
<1>2. mode = "ECHO" => \A v \in Worker : IsOpen(v) => ~Taken(hand[v].packet)
  BY DEF EchoInv, OpenInv
<1>3. \A v \in Worker : mode = "ECHO" /\ IsOpen(v)' =>
        IsOpen(v) /\ hand'[v].packet = hand[v].packet
  BY DEF IsOpen
<1>4. ASSUME mode = "ECHO", NEW v \in Worker, IsOpen(v)'  PROVE ~Taken(hand[v].packet)'
  <2> DEFINE p == hand[v].packet
  <2>1. ~Taken(p) /\ p = hand'[v].packet
    BY <1>2, <1>3, <1>4
  <2>2. ~Taken(hand'[v].packet)
    BY <2>1
  <2> QED  BY <1>1, <2>2
<1>5. LoadedInv(w)'
  BY DEF LoadedInv
<1> QED  BY <1>1, <1>4, <1>5, EchoStays

\* ... one that goes to it, or takes a number, takes nothing from it ...
LEMMA CopySessionEcho ==
  ASSUME MediaTypes, EchoInv, NEW w \in Worker, CopySession(w)
  PROVE  EchoInv'
<1>1. /\ UNCHANGED <<mode, sent, echo, played>> /\ pc[w] = "copy" /\ IsOpen(w)
      /\ \A v \in Worker \ {w} : pc'[v] = pc[v] /\ hand'[v] = hand[v]
  BY EchoShape DEF CopySession, jitterVars, sessionVars, workVars, GoTo, Finish, IsOpen
<1>2. CASE pipeline = 0
  <2>1. pc'[w] = "receive"
    BY <1>2, EchoShape DEF CopySession, GoTo, Finish
  <2> QED  BY <1>1, <2>1, QuietEcho DEF IsOpen, IsLoaded
<1>3. CASE pipeline # 0
  <2>1. PICK h \in Hand, label \in {"take", "echoed", "echo"} :
           /\ hand' = [hand EXCEPT ![w] = h] /\ GoTo(w, label)
           /\ h.packet = hand[w].packet
           /\ label = IF mode # "ECHO" THEN "take"
                      ELSE IF hand[w].packet \in Empty THEN "echoed" ELSE "echo"
    BY <1>3, CopyEffect
  <2>2. pc'[w] = label /\ hand'[w].packet = hand[w].packet
    BY <2>1, EchoShape DEF GoTo
  <2>3. CASE mode = "ECHO"
    <3>1. label # "take" /\ (label = "echo" => hand[w].packet \notin Empty)
      BY <2>1, <2>3
    <3>2. /\ ~IsLoaded(w)' /\ pc'[w] \notin {"take", "echoing"}
          /\ IsOpen(w)' => hand[w].packet \notin Empty
      BY <2>1, <2>2, <3>1 DEF IsLoaded, IsOpen
    <3> QED  BY <1>1, <2>2, <3>2, QuietEcho
  <2>4. CASE mode # "ECHO"
    BY <1>1, <2>4 DEF EchoInv
  <2> QED  BY <2>3, <2>4
<1> QED  BY <1>2, <1>3

\* ... as does one that takes a number ...
LEMMA TakeNumberEcho ==
  ASSUME MediaTypes, EchoInv, NEW w \in Worker, TakeNumber(w)
  PROVE  EchoInv'
<1> SUFFICES ASSUME mode = "ECHO"  PROVE EchoInv'
  BY DEF EchoInv, TakeNumber, sessionVars
<1>1. /\ UNCHANGED <<mode, sent, echo, played>> /\ pc[w] = "number" /\ pc'[w] = "send"
      /\ \A v \in Worker \ {w} : pc'[v] = pc[v] /\ hand'[v] = hand[v]
  BY EchoShape DEF TakeNumber, jitterVars, sessionVars, GoTo
<1>2. hand'[w].payload = hand[w].payload
  BY NumberEffect
<1>3. \A n : (Taken(n)' <=> Taken(n)) /\ (Cleared(n)' => Cleared(n))
  BY <1>1, <1>2 DEF Taken, Cleared, IsSent, IsLoaded
<1>4. ASSUME NEW v \in Worker, IsOpen(v)'  PROVE IsOpen(v) /\ ~Taken(hand[v].packet)'
  <2> DEFINE p == hand[v].packet
  <2>1. IsOpen(v) /\ v # w
    BY <1>1, <1>4 DEF IsOpen
  <2>2. ~Taken(p) /\ p = hand'[v].packet
    BY <1>1, <2>1 DEF EchoInv, OpenInv
  <2>3. ~Taken(hand'[v].packet)
    BY <2>2
  <2> QED  BY <1>3, <2>1, <2>3
<1>5. LoadedInv(w)'
  <2>1. LoadedInv(w) /\ IsLoaded(w) /\ pc'[w] # "clear" /\ Audible' = Audible
    BY <1>1 DEF EchoInv, IsLoaded, Audible
  <2> QED  BY <1>1, <1>2, <2>1 DEF LoadedInv
<1>6. ~IsOpen(w)' /\ pc[w] # "echoing" /\ pc'[w] \notin {"take", "echoing"}
  BY <1>1 DEF IsOpen
<1> QED  BY <1>1, <1>3, <1>4, <1>5, <1>6, EchoStays

\* ... one that copies takes what nobody has cleared ...
LEMMA TakeEchoEcho ==
  ASSUME MediaTypes, EchoInv, NEW w \in Worker, TakeEcho(w)
  PROVE  EchoInv'
<1> SUFFICES ASSUME mode = "ECHO"  PROVE EchoInv'
  BY DEF EchoInv, TakeEcho, sessionVars
<1>1. /\ UNCHANGED <<mode, sent, echo, played>> /\ pc[w] = "echoed"
      /\ \A v \in Worker \ {w} : pc'[v] = pc[v] /\ hand'[v] = hand[v]
  BY EchoShape DEF TakeEcho, jitterVars, sessionVars, workVars, GoTo, Finish
<1>2. CASE ~echo[hand[w].stage].hasData
  <2>1. pc'[w] = "receive"
    BY <1>2, EchoShape DEF TakeEcho, GoTo, Finish
  <2> QED  BY <1>1, <2>1, QuietEcho DEF IsOpen, IsLoaded
<1>3. CASE echo[hand[w].stage].hasData
  <2> DEFINE s == hand[w].stage
             n == Content(s)
  <2>1. hand' = [hand EXCEPT ![w].payload = <<n>>] /\ pc'[w] = "clear" /\ HasCopied(w)
    BY <1>1, <1>3, EchoShape DEF TakeEcho, GoTo, HasCopied, Label
  <2>2. s \in Stage
    BY <2>1, AtStage
  <2>3. hand'[w].payload = <<n>> /\ hand'[w].stage = s
    <3>1. hand[w] \in Hand /\ hand'[w] = [hand[w] EXCEPT !.payload = <<n>>]
      BY <2>1, EchoShape
    <3> QED  BY <3>1 DEF Hand
  <2>4. n # Torn => Writing(s) = {} /\ echo[s].writers = {n}
    BY <2>2, ContentIs
  <2>5. n # Torn => ~Cleared(n) /\ n \in Audible
    BY <1>3, <2>2, <2>4 DEF EchoInv, WritersInv
  <2> HIDE DEF n
  <2>6. \A m : /\ Taken(m)' => Taken(m) \/ <<m>> = <<n>>
               /\ Cleared(m)' => Cleared(m)
    BY <1>1, <2>1, <2>3 DEF Taken, Cleared, IsSent, IsLoaded
  <2>7. ASSUME NEW v \in Worker, IsOpen(v)'  PROVE ~Taken(hand[v].packet)'
    <3> DEFINE p == hand[v].packet
    <3>1. IsOpen(v) /\ v # w
      BY <1>1, <2>1, <2>7 DEF IsOpen
    <3>2. /\ ~Taken(p) /\ p = hand'[v].packet /\ p \in Packet
          /\ p \in echo[s].writers => pc[v] = "echoing" /\ s = hand[v].stage
      BY <1>1, <2>2, <3>1, EchoShape DEF EchoInv, OpenInv
    <3>3. p # n
      <4>1. p \in echo[s].writers => v \in Writing(s)
        BY <3>2 DEF Writing
      <4> QED  BY <2>4, <3>2, <4>1, EchoShape
    <3>4. ~Taken(hand'[v].packet) /\ <<hand'[v].packet>> # <<n>>
      BY <3>2, <3>3
    <3> QED  BY <2>6, <3>4
  <2>8. LoadedInv(w)'
    <3>1. Audible' = Audible
      BY <1>1 DEF Audible
    <3>2. n \in Audible \cup {Torn}
      BY <2>5
    <3>3. n # Torn =>
            /\ \A i \in 1 .. Len(sent) : sent[i].payload # <<n>>
            /\ \A t \in Stage : n \in echo[t].writers => t = s
      <4>1. n # Torn => ~IsSent(n)
        BY <2>5 DEF Cleared
      <4>2. n # Torn => \A t \in Stage : n \in echo[t].writers => t = s
        BY <2>2, <2>4 DEF EchoInv, WritersInv
      <4> QED  BY <4>1, <4>2 DEF IsSent
    <3> QED  BY <1>1, <2>1, <2>3, <3>1, <3>2, <3>3 DEF LoadedInv
  <2>9. ~IsOpen(w)' /\ pc[w] # "echoing" /\ pc'[w] \notin {"take", "echoing"}
    BY <1>1, <2>1 DEF IsOpen
  <2> QED  BY <1>1, <2>6, <2>7, <2>8, <2>9, EchoStays
<1> QED  BY <1>2, <1>3

\* ... one that begins to write puts in a packet that nobody has ...
LEMMA BeginEchoEcho ==
  ASSUME MediaTypes, EchoInv, NEW w \in Worker, BeginEcho(w)
  PROVE  EchoInv'
<1> SUFFICES ASSUME mode = "ECHO"  PROVE EchoInv'
  BY DEF EchoInv, BeginEcho, sessionVars
<1> DEFINE p == hand[w].packet
           q == hand[w].stage
<1>1. /\ UNCHANGED <<mode, sent, played, hand>> /\ pc[w] = "echo" /\ pc'[w] = "echoing"
      /\ \A v \in Worker \ {w} : pc'[v] = pc[v]
  BY EchoShape DEF BeginEcho, jitterVars, sessionVars, GoTo
<1>2. q \in Stage
  BY <1>1, AtStage DEF HasCopied, Label
<1>3. /\ IsOpen(w) /\ p \in Audible /\ p \in Packet /\ ~Taken(p)
      /\ \A s \in Stage : p \notin echo[s].writers
      /\ \A v \in Worker \ {w} : IsOpen(v) => hand[v].packet # p
  BY <1>1, EchoShape DEF EchoInv, OpenInv, IsOpen, Audible
<1>4. /\ echo'[q].writers = (IF Writing(q) = {} THEN {} ELSE echo[q].writers) \cup {p}
      /\ \A s \in Stage : echo'[s].hasData = echo[s].hasData
      /\ \A s \in Stage \ {q} : echo'[s].writers = echo[s].writers
  BY <1>2, EchoShape DEF BeginEcho
<1>5. \A s \in Stage : IF s = q THEN w \in Writing(s)' ELSE Writing(s)' = Writing(s)
  BY <1>1 DEF Writing
<1>6. \A s \in Stage : Content(s)' = IF s = q THEN Torn ELSE Content(s)
  <2>1. ASSUME NEW s \in Stage, s = q  PROVE Content(s)' = Torn
    <3>1. Writing(s)' # {}
      BY <1>5, <2>1
    <3> QED  BY <3>1 DEF Content
  <2> QED  BY <1>4, <1>5, <2>1, ContentStays
<1>7. \A n : (Taken(n)' <=> Taken(n)) /\ (Cleared(n)' <=> Cleared(n))
  BY <1>1 DEF Taken, Cleared, IsSent, IsLoaded
<1>8. Audible' = Audible
  BY <1>1 DEF Audible
<1> HIDE DEF p, q
<1>9. ASSUME NEW v \in Worker  PROVE pc'[v] # "take" /\ OpenInv(v)'
  <2>1. OpenInv(v) /\ pc[v] # "take" /\ (IsOpen(v)' <=> IsOpen(v))
    BY <1>1 DEF EchoInv, IsOpen
  <2>2. \A u \in Worker : IsOpen(u)' <=> IsOpen(u)
    BY <1>1 DEF IsOpen
  <2>3. IsOpen(v)' => ~Taken(hand[v].packet)'
    <3>1. IsOpen(v) => ~Taken(hand[v].packet)
      BY <2>1 DEF OpenInv
    <3>2. hand'[v] = hand[v]
      BY <1>1
    <3> QED  BY <1>7, <2>1, <3>1, <3>2
  <2>4. ASSUME IsOpen(v), NEW s \in Stage
        PROVE  hand[v].packet \in echo'[s].writers <=> pc'[v] = "echoing" /\ s = hand[v].stage
    <3>1. CASE v = w
      BY <1>1, <1>2, <1>3, <1>4, <3>1 DEF p, q
    <3>2. CASE v # w /\ s # q
      BY <1>1, <1>4, <2>1, <2>4, <3>2 DEF OpenInv
    <3>3. CASE v # w /\ s = q
      <4>1. hand[v].packet # p /\ pc'[v] = pc[v]
        BY <1>1, <1>3, <2>4, <3>3
      <4>2. hand[v].packet \in echo[q].writers <=> pc[v] = "echoing" /\ q = hand[v].stage
        BY <1>2, <2>1, <2>4 DEF OpenInv
      <4>3. pc[v] = "echoing" /\ q = hand[v].stage => Writing(q) # {}
        BY DEF Writing
      <4> QED  BY <1>4, <3>3, <4>1, <4>2, <4>3
    <3> QED  BY <3>1, <3>2, <3>3
  <2>5. IsOpen(v)' =>
          /\ hand'[v].packet \in ToSet(played')
          /\ pc'[v] # "copy" => hand'[v].packet \notin Empty
          /\ \A u \in Worker \ {v} : IsOpen(u)' => hand'[u].packet # hand'[v].packet
    BY <1>1, <2>1, <2>2 DEF OpenInv
  <2> QED  BY <1>1, <2>1, <2>3, <2>4, <2>5 DEF OpenInv
<1>10. ASSUME NEW v \in Worker  PROVE LoadedInv(v)'
  <2> SUFFICES ASSUME IsLoaded(v)'  PROVE LoadedInv(v)'
    BY DEF LoadedInv
  <2>1. v # w /\ IsLoaded(v) /\ pc'[v] = pc[v] /\ LoadedInv(v)
    BY <1>1 DEF IsLoaded, EchoInv
  <2>2. PICK n \in Audible \cup {Torn} :
           /\ hand[v].payload = <<n>>
           /\ n # Torn =>
                /\ \A i \in 1 .. Len(sent) : sent[i].by = v => sent[i].payload # <<n>>
                /\ pc[v] = "clear" => \A s \in Stage : n \in echo[s].writers => s = hand[v].stage
    BY <2>1 DEF LoadedInv
  <2>3. n # p
    BY <1>3, <2>1, <2>2 DEF Taken
  <2>4. \A s \in Stage : n \in echo'[s].writers => n \in echo[s].writers
    BY <1>4, <2>3
  <2> QED  BY <1>1, <1>8, <2>1, <2>2, <2>4 DEF LoadedInv
<1>11. WritersInv'
  <2>1. \A s \in Stage : echo'[s].writers \subseteq echo[s].writers \cup {p}
    BY <1>4
  <2>2. \A s \in Stage : echo'[s].writers \subseteq Audible'
    BY <1>3, <1>8, <2>1 DEF EchoInv, WritersInv
  <2>3. \A s \in Stage \ {q} : p \notin echo'[s].writers
    BY <1>3, <1>4
  <2>4. \A s \in Stage : \A t \in Stage \ {s} : echo'[s].writers \cap echo'[t].writers = {}
    BY <2>1, <2>3 DEF EchoInv, WritersInv
  <2>5. \A s \in Stage : echo'[s].hasData => ~Cleared(Content(s))' \/ Content(s)' = Torn
    <3> SUFFICES ASSUME NEW s \in Stage, s # q, echo'[s].hasData
                 PROVE  ~Cleared(Content(s))' \/ Content(s)' = Torn
      BY <1>6
    <3>1. ~Cleared(Content(s)) \/ Content(s) = Torn
      BY <1>4 DEF EchoInv, WritersInv
    <3>2. Content(s)' = Content(s)
      BY <1>6
    <3> HIDE DEF Content
    <3> QED  BY <1>7, <3>1, <3>2
  <2> QED  BY <2>2, <2>4, <2>5 DEF WritersInv
<1>12. SentInv'
  BY <1>1, <1>8 DEF EchoInv, SentInv
<1> QED  BY <1>9, <1>10, <1>11, <1>12 DEF EchoInv

\* ... and has written it alone, or torn it ...
LEMMA EndEchoEcho ==
  ASSUME MediaTypes, EchoInv, NEW w \in Worker, EndEcho(w)
  PROVE  EchoInv'
<1> SUFFICES ASSUME mode = "ECHO"  PROVE EchoInv'
  BY DEF EchoInv, EndEcho, sessionVars
<1> DEFINE p == hand[w].packet
           q == hand[w].stage
<1>1. /\ UNCHANGED <<mode, sent, played, hand>> /\ pc[w] = "echoing" /\ pc'[w] = "echoed"
      /\ \A v \in Worker \ {w} : pc'[v] = pc[v]
  BY EchoShape DEF EndEcho, jitterVars, sessionVars, GoTo
<1>2. q \in Stage
  BY <1>1, AtStage DEF HasCopied, Label
<1>3. ~Taken(p) /\ p \in echo[q].writers
  BY <1>1, <1>2 DEF EchoInv, OpenInv, IsOpen
<1>4. /\ \A s \in Stage : echo'[s].writers = echo[s].writers
      /\ \A s \in Stage \ {q} : echo'[s].hasData = echo[s].hasData
  BY <1>2, EchoShape DEF EndEcho
<1>5. \A s \in Stage \ {q} : Content(s)' = Content(s)
  <2>1. \A s \in Stage \ {q} : Writing(s)' = Writing(s)
    BY <1>1 DEF Writing
  <2> QED  BY <1>4, <2>1, ContentStays
<1>6. ASSUME NEW s \in Stage, s = q  PROVE Content(s)' = Torn \/ Content(s)' = p
  <2>1. echo'[s].writers \in SUBSET Packet /\ p \in echo'[s].writers
    BY <1>3, <1>4, <1>6, EchoShape
  <2>2. CASE Writing(s)' = {} /\ Cardinality(echo'[s].writers) = 1
    <3>1. Content(s)' = CHOOSE n \in echo'[s].writers : TRUE
      BY <2>2 DEF Content
    <3>2. echo'[s].writers = {CHOOSE n \in echo'[s].writers : TRUE}
      BY <2>1, <2>2, OnlyOne
    <3> QED  BY <2>1, <3>1, <3>2
  <2>3. CASE ~(Writing(s)' = {} /\ Cardinality(echo'[s].writers) = 1)
    BY <2>3 DEF Content
  <2> QED  BY <2>2, <2>3
<1>7. \A n : (Taken(n)' <=> Taken(n)) /\ (Cleared(n)' <=> Cleared(n)) /\ (Cleared(n) => Taken(n))
  BY <1>1 DEF Taken, Cleared, IsSent, IsLoaded
<1>8. Audible' = Audible
  BY <1>1 DEF Audible
<1> HIDE DEF p, q
<1>9. ASSUME NEW v \in Worker  PROVE pc'[v] # "take" /\ OpenInv(v)'
  <2>1. OpenInv(v) /\ pc[v] # "take" /\ \A u \in Worker : IsOpen(u)' => IsOpen(u)
    BY <1>1 DEF EchoInv, IsOpen
  <2>2. IsOpen(v)' => ~Taken(hand[v].packet)'
    <3>1. IsOpen(v)' => ~Taken(hand[v].packet)
      BY <2>1 DEF OpenInv
    <3>2. hand'[v] = hand[v]
      BY <1>1
    <3> QED  BY <1>7, <3>1, <3>2
  <2>3. IsOpen(v)' => pc'[v] = pc[v]
    BY <1>1 DEF IsOpen
  <2>4. IsOpen(v)' =>
          /\ hand'[v].packet \in ToSet(played')
          /\ pc'[v] # "copy" => hand'[v].packet \notin Empty
          /\ \A u \in Worker \ {v} : IsOpen(u)' => hand'[u].packet # hand'[v].packet
          /\ \A s \in Stage :
               hand'[v].packet \in echo'[s].writers <=> pc'[v] = "echoing" /\ s = hand'[v].stage
    BY <1>1, <1>4, <2>1, <2>3 DEF OpenInv
  <2> QED  BY <1>1, <2>1, <2>2, <2>4 DEF OpenInv
<1>10. ASSUME NEW v \in Worker  PROVE LoadedInv(v)'
  <2>1. IsLoaded(v)' => IsLoaded(v) /\ pc'[v] = pc[v]
    BY <1>1 DEF IsLoaded
  <2> QED  BY <1>1, <1>4, <1>8, <2>1 DEF EchoInv, LoadedInv
<1>11. WritersInv'
  <2>1. \A s \in Stage : /\ echo'[s].writers \subseteq Audible'
                         /\ \A t \in Stage \ {s} : echo'[s].writers \cap echo'[t].writers = {}
    BY <1>4, <1>8 DEF EchoInv, WritersInv
  <2>2. \A s \in Stage : echo'[s].hasData => ~Cleared(Content(s))' \/ Content(s)' = Torn
    <3> SUFFICES ASSUME NEW s \in Stage, echo'[s].hasData, Content(s)' # Torn
                 PROVE  ~Cleared(Content(s))'
      OBVIOUS
    <3>1. CASE s # q
      <4>1. ~Cleared(Content(s)) /\ Content(s)' = Content(s)
        BY <1>4, <1>5, <3>1 DEF EchoInv, WritersInv
      <4> HIDE DEF Content
      <4> QED  BY <1>7, <4>1
    <3>2. CASE s = q
      <4>1. ~Cleared(p) /\ Content(s)' = p
        BY <1>3, <1>6, <1>7, <3>2
      <4> QED  BY <1>7, <4>1
    <3> QED  BY <3>1, <3>2
  <2> QED  BY <2>1, <2>2 DEF WritersInv
<1>12. SentInv'
  BY <1>1, <1>8 DEF EchoInv, SentInv
<1> QED  BY <1>9, <1>10, <1>11, <1>12 DEF EchoInv

\* ... one that clears leaves a stage without what it has copied ...
LEMMA ClearEchoEcho ==
  ASSUME MediaTypes, EchoInv, NEW w \in Worker, ClearEcho(w)
  PROVE  EchoInv'
<1> SUFFICES ASSUME mode = "ECHO"  PROVE EchoInv'
  BY DEF EchoInv, ClearEcho, sessionVars
<1> DEFINE q == hand[w].stage
<1>1. /\ UNCHANGED <<mode, sent, played, hand>> /\ pc[w] = "clear" /\ pc'[w] = "number"
      /\ \A v \in Worker \ {w} : pc'[v] = pc[v]
  BY EchoShape DEF ClearEcho, jitterVars, sessionVars, GoTo
<1>2. q \in Stage
  BY <1>1, AtStage DEF HasCopied, Label
<1>3. PICK n \in Audible \cup {Torn} :
         /\ hand[w].payload = <<n>>
         /\ n # Torn => \A s \in Stage : n \in echo[s].writers => s = q
  BY <1>1 DEF EchoInv, LoadedInv, IsLoaded
<1>4. /\ \A s \in Stage : echo'[s].writers = echo[s].writers
      /\ \A s \in Stage \ {q} : echo'[s].hasData = echo[s].hasData
      /\ \A s \in Stage : s = q => ~echo'[s].hasData
  BY <1>2, EchoShape DEF ClearEcho
<1>5. \A s \in Stage : Content(s)' = Content(s)
  <2>1. \A s \in Stage : Writing(s)' = Writing(s)
    BY <1>1 DEF Writing
  <2> QED  BY <1>4, <2>1, ContentStays
<1>6. \A m : /\ Taken(m)' <=> Taken(m)
             /\ Cleared(m)' => Cleared(m) \/ m = n
  <2>1. \A m : <<m>> = <<n>> => m = n
    OBVIOUS
  <2> QED  BY <1>1, <1>3, <2>1 DEF Taken, Cleared, IsSent, IsLoaded
<1>7. Audible' = Audible
  BY <1>1 DEF Audible
<1> HIDE DEF q
<1>8. ASSUME NEW v \in Worker  PROVE pc'[v] # "take" /\ OpenInv(v)'
  <2>1. OpenInv(v) /\ pc[v] # "take" /\ \A u \in Worker : IsOpen(u)' <=> IsOpen(u)
    BY <1>1 DEF EchoInv, IsOpen
  <2>2. IsOpen(v)' => ~Taken(hand[v].packet)'
    <3>1. IsOpen(v)' => ~Taken(hand[v].packet)
      BY <2>1 DEF OpenInv
    <3>2. hand'[v] = hand[v]
      BY <1>1
    <3> QED  BY <1>6, <3>1, <3>2
  <2>3. IsOpen(v)' => pc'[v] = pc[v]
    BY <1>1 DEF IsOpen
  <2>4. IsOpen(v)' =>
          /\ hand'[v].packet \in ToSet(played')
          /\ pc'[v] # "copy" => hand'[v].packet \notin Empty
          /\ \A u \in Worker \ {v} : IsOpen(u)' => hand'[u].packet # hand'[v].packet
          /\ \A s \in Stage :
               hand'[v].packet \in echo'[s].writers <=> pc'[v] = "echoing" /\ s = hand'[v].stage
    BY <1>1, <1>4, <2>1, <2>3 DEF OpenInv
  <2> QED  BY <1>1, <2>1, <2>2, <2>4 DEF OpenInv
<1>9. ASSUME NEW v \in Worker  PROVE LoadedInv(v)'
  <2>1. (IsLoaded(v)' => IsLoaded(v)) /\ (pc'[v] = "clear" => pc[v] = "clear")
    BY <1>1 DEF IsLoaded
  <2> QED  BY <1>1, <1>4, <1>7, <2>1 DEF EchoInv, LoadedInv
<1>10. WritersInv'
  <2>1. \A s \in Stage : /\ echo'[s].writers \subseteq Audible'
                         /\ \A t \in Stage \ {s} : echo'[s].writers \cap echo'[t].writers = {}
    BY <1>4, <1>7 DEF EchoInv, WritersInv
  <2>2. \A s \in Stage : echo'[s].hasData => ~Cleared(Content(s))' \/ Content(s)' = Torn
    <3> SUFFICES ASSUME NEW s \in Stage, echo'[s].hasData, Content(s)' # Torn
                 PROVE  ~Cleared(Content(s))'
      OBVIOUS
    <3>1. s # q /\ Content(s) # Torn /\ ~Cleared(Content(s))
      BY <1>4, <1>5 DEF EchoInv, WritersInv
    <3>2. Content(s) # n
      <4>1. echo[s].writers = {Content(s)}
        BY <3>1, ContentIs
      <4> QED  BY <1>3, <3>1, <4>1
    <3>3. Content(s)' = Content(s)
      BY <1>5
    <3> HIDE DEF Content
    <3> QED  BY <1>6, <3>1, <3>2, <3>3
  <2> QED  BY <2>1, <2>2 DEF WritersInv
<1>11. SentInv'
  BY <1>1, <1>7 DEF EchoInv, SentInv
<1> QED  BY <1>8, <1>9, <1>10, <1>11 DEF EchoInv

\* ... one that sends what it has copied has not sent it before ...
LEMMA SendEcho ==
  ASSUME MediaTypes, EchoInv, NEW w \in Worker, Send(w)
  PROVE  EchoInv'
<1> SUFFICES ASSUME mode = "ECHO"  PROVE EchoInv'
  BY DEF EchoInv, Send, sessionVars
<1>1. UNCHANGED <<mode, played, echo>>
  BY DEF Send, jitterVars, sessionVars
<1>2. PICK packet \in Sent :
         /\ packet.by = w /\ packet.payload = hand[w].payload
         /\ \A i \in 1 .. Len(sent) : sent'[i] = sent[i] /\ i \in 1 .. Len(sent')
         /\ sent'[Len(sent) + 1] = packet /\ Len(sent) + 1 \in 1 .. Len(sent')
         /\ \A i \in 1 .. Len(sent') : i \in 1 .. Len(sent) \/ i = Len(sent) + 1
         /\ pc[w] = "send" /\ pc'[w] = "receive"
         /\ \A v \in Worker \ {w} : pc'[v] = pc[v] /\ hand'[v] = hand[v]
  <2>1. Len(sent) \in Nat
    BY EchoShape
  <2> QED  BY <2>1, SendEffect
<1>3. PICK n \in Audible \cup {Torn} :
         /\ hand[w].payload = <<n>>
         /\ n # Torn => \A i \in 1 .. Len(sent) : sent[i].by = w => sent[i].payload # <<n>>
  BY <1>2 DEF EchoInv, LoadedInv, IsLoaded
<1>4. \A m : IsSent(m)' <=> IsSent(m) \/ <<m>> = <<n>>
  BY <1>2, <1>3 DEF IsSent
<1>5. \A m : (Taken(m)' => Taken(m)) /\ (Cleared(m)' => Cleared(m))
  BY <1>2, <1>3, <1>4 DEF Taken, Cleared, IsLoaded
<1>6. Audible' = Audible /\ \A s \in Stage : Content(s)' = Content(s)
  <2>1. \A s \in Stage : Writing(s)' = Writing(s)
    BY <1>2 DEF Writing
  <2> QED  BY <1>1, <2>1, ContentStays DEF Audible
<1>7. ASSUME NEW v \in Worker  PROVE pc'[v] # "take" /\ OpenInv(v)'
  <2>1. OpenInv(v) /\ pc[v] # "take"
        /\ \A u \in Worker : IsOpen(u)' => IsOpen(u) /\ pc'[u] = pc[u] /\ hand'[u] = hand[u]
    BY <1>2 DEF EchoInv, IsOpen
  <2>2. IsOpen(v)' => ~Taken(hand[v].packet)'
    <3>1. IsOpen(v)' => ~Taken(hand[v].packet)
      BY <2>1 DEF OpenInv
    <3> QED  BY <1>5, <2>1, <3>1
  <2>3. IsOpen(v)' =>
          /\ hand'[v].packet \in ToSet(played')
          /\ pc'[v] # "copy" => hand'[v].packet \notin Empty
          /\ \A u \in Worker \ {v} : IsOpen(u)' => hand'[u].packet # hand'[v].packet
          /\ \A s \in Stage :
               hand'[v].packet \in echo'[s].writers <=> pc'[v] = "echoing" /\ s = hand'[v].stage
    BY <1>1, <2>1 DEF OpenInv
  <2> QED  BY <1>2, <2>1, <2>2, <2>3 DEF OpenInv
<1>8. ASSUME NEW v \in Worker  PROVE LoadedInv(v)'
  <2> SUFFICES ASSUME IsLoaded(v)'  PROVE LoadedInv(v)'
    BY DEF LoadedInv
  <2>1. v # w /\ IsLoaded(v) /\ pc'[v] = pc[v] /\ hand'[v] = hand[v] /\ LoadedInv(v)
    BY <1>2 DEF IsLoaded, EchoInv
  <2>2. \A i \in 1 .. Len(sent') : sent'[i].by = v => i \in 1 .. Len(sent) /\ sent'[i] = sent[i]
    BY <1>2, <2>1
  <2> QED  BY <1>1, <1>6, <2>1, <2>2 DEF LoadedInv
<1>9. WritersInv'
  <2>1. \A s \in Stage : /\ echo'[s].writers \subseteq Audible'
                         /\ \A t \in Stage \ {s} : echo'[s].writers \cap echo'[t].writers = {}
    BY <1>1, <1>6 DEF EchoInv, WritersInv
  <2>2. \A s \in Stage : echo'[s].hasData => ~Cleared(Content(s))' \/ Content(s)' = Torn
    <3> SUFFICES ASSUME NEW s \in Stage, echo'[s].hasData, Content(s)' # Torn
                 PROVE  ~Cleared(Content(s))'
      OBVIOUS
    <3>1. Content(s)' = Content(s) /\ ~Cleared(Content(s))
      BY <1>1, <1>6 DEF EchoInv, WritersInv
    <3> HIDE DEF Content
    <3> QED  BY <1>5, <3>1
  <2> QED  BY <2>1, <2>2 DEF WritersInv
<1>10. SentInv'
  <2>1. \A i \in 1 .. Len(sent') : \E m \in Audible' \cup {Torn} : sent'[i].payload = <<m>>
    BY <1>2, <1>3, <1>6 DEF EchoInv, SentInv
  <2>2. ASSUME NEW i \in 1 .. Len(sent'), NEW j \in 1 .. Len(sent'), i # j,
               sent'[i].by = sent'[j].by, sent'[i].payload = sent'[j].payload
        PROVE  sent'[i].payload = <<Torn>>
    <3>1. CASE i \in 1 .. Len(sent) /\ j \in 1 .. Len(sent)
      BY <1>2, <2>2, <3>1 DEF EchoInv, SentInv
    <3>2. CASE i = Len(sent) + 1 /\ j \in 1 .. Len(sent)
      BY <1>2, <1>3, <2>2, <3>2
    <3>3. CASE i \in 1 .. Len(sent) /\ j = Len(sent) + 1
      BY <1>2, <1>3, <2>2, <3>3
    <3> QED  BY <1>2, <2>2, <3>1, <3>2, <3>3
  <2> QED  BY <2>1, <2>2 DEF SentInv
<1> QED  BY <1>7, <1>8, <1>9, <1>10 DEF EchoInv

\* ... and one that pops has a packet that was not there before.
LEMMA PopFrameEcho ==
  ASSUME MediaInv, MediaInv', EchoInv, NEW w \in Worker, PopFrame(w)
  PROVE  EchoInv'
<1>1. /\ UNCHANGED <<mode, sent, echo>> /\ pc[w] = "pop" /\ MediaTypes
      /\ \A v \in Worker \ {w} : pc'[v] = pc[v] /\ hand'[v] = hand[v]
  BY EchoShape DEF MediaInv, PopFrame, sessionVars, workVars, GoTo, Finish
<1>2. CASE Finish(w) /\ UNCHANGED jitterVars
  <2>1. pc'[w] = "receive" /\ played' = played
    BY <1>1, <1>2, EchoShape DEF GoTo, Finish, jitterVars
  <2> QED  BY <1>1, <2>1, QuietEcho DEF IsOpen, IsLoaded
<1>3. CASE Pop /\ hand' = [hand EXCEPT ![w].packet = Head(buffer)] /\ GoTo(w, "copy")
  <2> DEFINE p == Head(buffer)
  <2>1. p \in Packet /\ p \notin ToSet(played) /\ ToSet(played') = ToSet(played) \cup {p}
    BY <1>3, PopIsNew DEF MediaInv
  <2>2. pc'[w] = "copy" /\ hand'[w].packet = p
    <3>1. hand[w] \in Hand /\ hand'[w] = [hand[w] EXCEPT !.packet = p] /\ pc'[w] = "copy"
      BY <1>1, <1>3, EchoShape DEF GoTo
    <3> QED  BY <3>1 DEF Hand
  <2> HIDE DEF p
  <2> SUFFICES ASSUME mode = "ECHO"  PROVE EchoInv'
    BY <1>1 DEF EchoInv
  <2>3. Audible \subseteq Audible' /\ p \notin Audible /\ Torn # p
    BY <1>1, <2>1, EchoShape DEF Audible
  <2>4. \A n : /\ Taken(n)' => Taken(n)
               /\ Cleared(n)' => Cleared(n)
    BY <1>1, <2>2, NothingTaken DEF IsLoaded
  <2>5. ~Taken(p) /\ \A s \in Stage : p \notin echo[s].writers
    <3>1. \A n \in Audible \cup {Torn} : <<n>> # <<p>>
      BY <2>3
    <3>2. \A v \in Worker : IsLoaded(v) => hand[v].payload # <<p>>
      BY <3>1 DEF EchoInv, LoadedInv
    <3>3. ~IsSent(p)
      BY <3>1 DEF EchoInv, SentInv, IsSent
    <3> QED  BY <2>3, <3>2, <3>3 DEF Taken, EchoInv, WritersInv
  <2>6. \A s \in Stage : Content(s)' = Content(s)
    <3>1. \A s \in Stage : Writing(s)' = Writing(s)
      BY <1>1, <2>2 DEF Writing
    <3> QED  BY <1>1, <3>1, ContentStays
  <2>7. \A v \in Worker \ {w} : IsOpen(v)' => IsOpen(v) /\ hand'[v].packet # p
    <3>1. \A v \in Worker : IsOpen(v) => hand[v].packet # p
      BY <2>1 DEF EchoInv, OpenInv
    <3> QED  BY <1>1, <3>1 DEF IsOpen
  <2>8. ASSUME NEW v \in Worker  PROVE pc'[v] # "take" /\ OpenInv(v)'
    <3>1. CASE v = w
      <4>1. ~Taken(hand[w].packet)'
        BY <2>2, <2>4, <2>5
      <4> QED  BY <1>1, <2>1, <2>2, <2>5, <2>7, <3>1, <4>1 DEF OpenInv
    <3>2. CASE v # w
      <4>1. OpenInv(v) /\ pc[v] # "take" /\ pc'[v] = pc[v] /\ hand'[v] = hand[v]
        BY <1>1, <3>2 DEF EchoInv
      <4>2. IsOpen(v)' => ~Taken(hand[v].packet)'
        BY <2>4, <2>7, <3>2, <4>1 DEF OpenInv
      <4>3. IsOpen(v)' =>
              /\ hand'[v].packet \in ToSet(played')
              /\ pc'[v] # "copy" => hand'[v].packet \notin Empty
              /\ \A s \in Stage :
                   hand'[v].packet \in echo'[s].writers
                     <=> pc'[v] = "echoing" /\ s = hand'[v].stage
        BY <1>1, <2>1, <2>7, <3>2, <4>1 DEF OpenInv
      <4>4. ASSUME IsOpen(v)', NEW u \in Worker \ {v}, IsOpen(u)'
            PROVE  hand'[u].packet # hand'[v].packet
        BY <1>1, <2>2, <2>7, <3>2, <4>1, <4>4 DEF OpenInv
      <4> QED  BY <4>1, <4>2, <4>3, <4>4 DEF OpenInv
    <3> QED  BY <3>1, <3>2
  <2>9. ASSUME NEW v \in Worker  PROVE LoadedInv(v)'
    <3>1. IsLoaded(v)' => v # w /\ IsLoaded(v)
      BY <1>1, <2>2 DEF IsLoaded
    <3> QED  BY <1>1, <2>3, <3>1 DEF EchoInv, LoadedInv
  <2>10. WritersInv'
    <3> SUFFICES ASSUME NEW s \in Stage
                 PROVE  /\ echo'[s].writers \subseteq Audible'
                        /\ \A t \in Stage \ {s} : echo'[s].writers \cap echo'[t].writers = {}
                        /\ echo'[s].hasData => ~Cleared(Content(s))' \/ Content(s)' = Torn
      BY DEF WritersInv
    <3>1. /\ echo[s].writers \subseteq Audible
          /\ \A t \in Stage \ {s} : echo[s].writers \cap echo[t].writers = {}
          /\ echo[s].hasData => ~Cleared(Content(s)) \/ Content(s) = Torn
      BY DEF EchoInv, WritersInv
    <3>2. Content(s)' = Content(s)
      BY <2>6
    <3> HIDE DEF Content
    <3>3. echo'[s].hasData => ~Cleared(Content(s))' \/ Content(s)' = Torn
      BY <1>1, <2>4, <3>1, <3>2
    <3> QED  BY <1>1, <2>3, <3>1, <3>3
  <2>11. SentInv'
    BY <1>1, <2>3 DEF EchoInv, SentInv
  <2> QED  BY <2>8, <2>9, <2>10, <2>11 DEF EchoInv
<1> QED  BY <1>2, <1>3 DEF PopFrame

\* Whoever works, and whatever INVITE comes.
LEMMA EchoKeeps ==
  ASSUME MediaInv, MediaInv', EchoInv, [Next]_mediaVars
  PROVE  EchoInv'
<1>1. MediaTypes /\ pc \in [Worker -> Label]
  BY EchoShape DEF MediaInv
<1>2. ASSUME NEW w \in Worker, NEW from \in Sender,
             ReceiveOther(w, from) \/ \E n \in Packet : Receive(w, n, from)
      PROVE  EchoInv'
  <2>1. /\ UNCHANGED <<mode, sent, echo, played, hand>> /\ pc[w] = "receive"
        /\ pc'[w] \in {"receive", "pop"} /\ \A v \in Worker \ {w} : pc'[v] = pc[v]
    BY <1>1, <1>2 DEF ReceiveOther, Receive, Push, GoTo, jitterVars, workVars
  <2> QED  BY <2>1, QuietEcho DEF IsOpen, IsLoaded
<1>3. ASSUME NEW w \in Worker, TakeDownlink(w)  PROVE EchoInv'
  <2>1. pc[w] = "take" /\ mode' = mode
    BY <1>3 DEF TakeDownlink, sessionVars
  <2> QED  BY <2>1 DEF EchoInv
<1>4. CASE (\E s \in Stage, n \in 1 .. MaxChunk : ReadAudio(s, n)) \/ SipStep
             \/ UNCHANGED mediaVars
  <2>1. UNCHANGED <<mode, sent, echo, played, hand, pc>>
    BY <1>4 DEF ReadAudio, SipStep, Reinvite, Terminate, mediaVars, jitterVars, sessionVars,
                workVars
  <2>2. /\ Audible' = Audible /\ \A n : (Taken(n)' <=> Taken(n)) /\ (Cleared(n)' <=> Cleared(n))
        /\ \A v \in Worker : (IsOpen(v)' <=> IsOpen(v)) /\ (IsLoaded(v)' <=> IsLoaded(v))
    BY <2>1 DEF Audible, Taken, Cleared, IsSent, IsOpen, IsLoaded
  <2>3. \A s \in Stage : Content(s)' = Content(s)
    BY <2>1 DEF Content, Writing
  <2>4. ASSUME mode = "ECHO", NEW v \in Worker
        PROVE  pc'[v] # "take" /\ OpenInv(v)' /\ LoadedInv(v)'
    BY <2>1, <2>2, <2>4 DEF EchoInv, OpenInv, LoadedInv
  <2>5. mode = "ECHO" => WritersInv' /\ SentInv'
    BY <2>1, <2>2, <2>3 DEF EchoInv, WritersInv, SentInv
  <2> QED  BY <2>1, <2>4, <2>5 DEF EchoInv
<1> QED
  BY <1>1, <1>2, <1>3, <1>4, PopFrameEcho, CopySessionEcho, BeginEchoEcho, EndEchoEcho,
     TakeEchoEcho, ClearEchoEcho, TakeNumberEcho, SendEcho DEF Next, WorkerStep

-----------------------------------------------------------------------------
(* The stream of a call with one worker.                                   *)

AllSentBut(p) == \A m \in Audible : m # p => IsSent(m)

SentInOrder ==
  \A i \in 1 .. Len(sent) : \E n \in Audible :
    /\ sent[i].payload = <<n>>
    /\ \A m \in Audible : m < n <=> \E k \in 1 .. i - 1 : sent[k].payload = <<m>>

\* What is in the worker's hand comes next, and everything before it has been sent,
\* unless the call had ended by the time it was popped.
HandInOrder ==
  LET p == hand[First].packet
  IN  /\ pc[First] \in {"receive", "pop"} /\ pipeline # 0 => AllSentBut(Torn)
      /\ pc[First] \notin {"receive", "pop"} =>
           /\ p \in ToSet(played) /\ ~IsSent(p) /\ \A m \in ToSet(played) : m <= p
           /\ (pc[First] = "copy" /\ pipeline = 0) \/ AllSentBut(p)

\* The stage has what is in the worker's hand, from when it is written until it is
\* cleared.
StageInOrder ==
  LET p == hand[First].packet
  IN  /\ echo[1].hasData <=> (pc[First] = "echoed" /\ p \notin Empty) \/ pc[First] = "clear"
      /\ pc[First] \in {"echoing", "echoed"} /\ p \notin Empty => echo[1].writers = {p}
      /\ IsLoaded(First) => hand[First].payload = <<p>> /\ p \notin Empty

IsAlone == mode = "ECHO" /\ Built = 1

OrderInv == IsAlone => SentInOrder /\ HandInOrder /\ StageInOrder

\* A call starts with nothing sent.
LEMMA OrderStarts == Init => OrderInv
<1> SUFFICES ASSUME Init  PROVE OrderInv
  OBVIOUS
<1>1. sent = <<>> /\ played = <<>> /\ pc[First] = "receive"
  BY MediaAssumption DEF Init, JitterInit
<1>2. ~echo[1].hasData
  BY DownlinkConstants DEF Init, Stage
<1>3. ToSet(played) = {}
  BY <1>1 DEF ToSet
<1> QED
  BY <1>1, <1>2, <1>3 DEF OrderInv, SentInOrder, HandInOrder, StageInOrder, AllSentBut, Audible,
                          IsLoaded

\* A worker that is not at the call's one port does nothing, and the one that is works
\* for the first stage while there is no other.
LEMMA OnePort ==
  ASSUME MediaTypes, IsAlone, NEW w \in Worker, pc[w] # "receive" \/ w \in ports
  PROVE  w = First /\ (HasCopied(w) => hand[w].stage = 1 /\ 1 \in Stage)
<1>1. w = First
  BY DEF MediaTypes, SessionOK, WorkersOK, WorkerOK, IsAlone
<1>2. HasCopied(w) => hand[w].stage \in 1 .. 1 /\ hand[w].stage \in Stage
  BY AtStage DEF IsAlone
<1>3. \A s \in 1 .. 1 : s = 1
  OBVIOUS
<1> QED  BY <1>1, <1>2, <1>3

\* A worker goes on with what it has in its hand, or is done with what has been sent.
LEMMA OrderStays ==
  ASSUME OrderInv, UNCHANGED <<mode, types, pipeline, sent, played>>,
         IsAlone =>
           /\ StageInOrder'
           /\ IF pc'[First] \in {"receive", "pop"}
                THEN pc[First] \in {"receive", "pop"} \/ pipeline = 0 \/ AllSentBut(Torn)
                ELSE /\ pc[First] \notin {"receive", "pop"}
                     /\ hand'[First].packet = hand[First].packet
                     /\ pipeline = 0 /\ pc[First] = "copy" => pc'[First] = "copy"
  PROVE  OrderInv'
<1> SUFFICES ASSUME IsAlone  PROVE OrderInv'
  BY DEF OrderInv, IsAlone, Built
<1>1. Audible' = Audible
  BY DEF Audible
<1>2. \A m : IsSent(m)' <=> IsSent(m)
  BY DEF IsSent
<1>3. SentInOrder'
  <2>1. SentInOrder /\ sent' = sent
    BY DEF OrderInv
  <2>2. ASSUME NEW i \in 1 .. Len(sent)
        PROVE  \E n \in Audible' :
                 /\ sent'[i].payload = <<n>>
                 /\ \A m \in Audible' : m < n <=> \E k \in 1 .. i - 1 : sent'[k].payload = <<m>>
    BY <1>1, <2>1 DEF SentInOrder
  <2> QED  BY <2>1, <2>2 DEF SentInOrder
<1>4. \A p : AllSentBut(p)' <=> AllSentBut(p)
  BY <1>1, <1>2 DEF AllSentBut
<1>5. HandInOrder'
  <2>1. pc'[First] \in {"receive", "pop"} /\ pipeline' # 0 => AllSentBut(Torn)'
    BY <1>4 DEF OrderInv, HandInOrder
  <2>2. ASSUME pc'[First] \notin {"receive", "pop"}, NEW p, p = hand'[First].packet
        PROVE  /\ p \in ToSet(played') /\ ~IsSent(p)' /\ \A m \in ToSet(played') : m <= p
               /\ (pc'[First] = "copy" /\ pipeline' = 0) \/ AllSentBut(p)'
    <3>1. /\ p \in ToSet(played) /\ ~IsSent(p) /\ \A m \in ToSet(played) : m <= p
          /\ (pc[First] = "copy" /\ pipeline = 0) \/ AllSentBut(p)
      BY <2>2 DEF OrderInv, HandInOrder
    <3> QED  BY <1>2, <1>4, <2>2, <3>1
  <2> DEFINE q == hand[First].packet
  <2>3. pc'[First] \notin {"receive", "pop"} =>
          /\ q' \in ToSet(played') /\ ~IsSent(q)' /\ \A m \in ToSet(played') : m <= q'
          /\ (pc'[First] = "copy" /\ pipeline' = 0) \/ AllSentBut(q)'
    BY <2>2
  <2> QED  BY <2>1, <2>3 DEF HandInOrder
<1> QED  BY <1>3, <1>5 DEF OrderInv

\* The worker's frame, from the buffer ...
LEMMA PopFrameOrder ==
  ASSUME MediaInv, MediaInv', EchoInv, OrderInv, NEW w \in Worker, PopFrame(w)
  PROVE  OrderInv'
<1> SUFFICES ASSUME IsAlone  PROVE OrderInv'
  BY DEF OrderInv, IsAlone, Built, PopFrame, sessionVars
<1>1. UNCHANGED <<mode, types, pipeline, sent, echo>> /\ pc[w] = "pop" /\ MediaTypes
  BY DEF MediaInv, PopFrame, sessionVars, workVars
<1>2. w = First
  BY <1>1, OnePort
<1>3. CASE Finish(w) /\ UNCHANGED jitterVars
  <2>1. pc'[First] = "receive" /\ played' = played
    BY <1>1, <1>2, <1>3, EchoShape DEF GoTo, Finish, jitterVars
  <2>2. StageInOrder'
    BY <1>1, <1>2, <2>1 DEF OrderInv, StageInOrder, IsLoaded
  <2> QED  BY <1>1, <1>2, <2>1, <2>2, OrderStays
<1>4. CASE Pop /\ hand' = [hand EXCEPT ![w].packet = Head(buffer)] /\ GoTo(w, "copy")
  <2> DEFINE p == Head(buffer)
  <2>1. /\ p \in Packet /\ p \notin ToSet(played) /\ \A n \in ToSet(played) : n < p
        /\ ToSet(played') = ToSet(played) \cup {p}
    BY <1>4, PopIsNew DEF MediaInv
  <2>2. pc'[First] = "copy" /\ hand'[First].packet = p
    <3>1. hand[w] \in Hand /\ hand'[w] = [hand[w] EXCEPT !.packet = p] /\ pc'[w] = "copy"
      BY <1>1, <1>4, EchoShape DEF GoTo
    <3> QED  BY <1>2, <3>1 DEF Hand
  <2> HIDE DEF p
  <2>3. /\ Audible \subseteq Audible' /\ Audible' \subseteq Audible \cup {p}
        /\ p \notin Audible /\ \A n \in Audible : n < p
    BY <2>1 DEF Audible
  <2>4. \A m : IsSent(m)' <=> IsSent(m)
    BY <1>1 DEF IsSent
  <2>5. ASSUME NEW i \in 1 .. Len(sent)
        PROVE  \E n \in Audible' :
                 /\ sent[i].payload = <<n>>
                 /\ \A m \in Audible' : m < n <=> \E k \in 1 .. i - 1 : sent[k].payload = <<m>>
    <3>1. PICK n \in Audible :
             /\ sent[i].payload = <<n>>
             /\ \A m \in Audible : m < n <=> \E k \in 1 .. i - 1 : sent[k].payload = <<m>>
      BY DEF OrderInv, SentInOrder
    <3>2. ~(p < n)
      <4>1. n < p /\ n \in Int /\ p \in Int
        BY <1>1, <2>1, <2>3, EchoShape, JitterConstants DEF Packet
      <4> QED  BY <4>1
    <3>3. ASSUME NEW k \in 1 .. i - 1  PROVE sent[k].payload # <<p>>
      <4>1. k \in 1 .. Len(sent)
        BY <1>1, EchoShape
      <4>2. PICK m \in Audible : sent[k].payload = <<m>>
        BY <4>1 DEF OrderInv, SentInOrder
      <4> QED  BY <2>3, <4>2
    <3> QED  BY <2>3, <3>1, <3>2, <3>3
  <2>6. SentInOrder'
    BY <1>1, <2>5 DEF SentInOrder
  <2>7. HandInOrder'
    <3>1. ~IsSent(p)
      BY <2>3 DEF OrderInv, SentInOrder, IsSent
    <3>2. \A m \in ToSet(played') : m <= p
      <4>1. p \in Int /\ \A m \in ToSet(played) : m \in Int
        BY <1>1, <2>1, EchoShape, JitterConstants DEF Packet
      <4> QED  BY <2>1, <4>1
    <3>3. pipeline # 0 => \A m \in Audible' : m # p => IsSent(m)'
      <4>1. pipeline # 0 => \A m \in Audible : m # Torn => IsSent(m)
        BY <1>1, <1>2 DEF OrderInv, HandInOrder, AllSentBut
      <4> QED  BY <1>1, <2>3, <2>4, <4>1, EchoShape
    <3> QED  BY <1>1, <2>1, <2>2, <2>4, <3>1, <3>2, <3>3 DEF HandInOrder, AllSentBut
  <2>8. StageInOrder'
    BY <1>1, <1>2, <2>2 DEF OrderInv, StageInOrder, IsLoaded
  <2> QED  BY <2>6, <2>7, <2>8 DEF OrderInv
<1> QED  BY <1>3, <1>4 DEF PopFrame

\* ... to the stage, unless the call has ended ...
LEMMA CopySessionOrder ==
  ASSUME MediaTypes, EchoInv, OrderInv, NEW w \in Worker, CopySession(w)
  PROVE  OrderInv'
<1> SUFFICES ASSUME IsAlone  PROVE OrderInv'
  BY DEF OrderInv, IsAlone, Built, CopySession, sessionVars
<1>1. UNCHANGED <<mode, types, pipeline, sent, played, echo>> /\ pc[w] = "copy"
  BY DEF CopySession, jitterVars, sessionVars, workVars
<1>2. w = First
  BY <1>1, OnePort
<1>3. ~echo[1].hasData
  BY <1>1, <1>2 DEF OrderInv, StageInOrder
<1>4. CASE pipeline = 0
  <2>1. pc'[First] = "receive"
    BY <1>2, <1>4, EchoShape DEF CopySession, GoTo, Finish
  <2>2. StageInOrder'
    BY <1>1, <1>3, <2>1 DEF StageInOrder, IsLoaded
  <2> QED  BY <1>1, <1>4, <2>1, <2>2, OrderStays
<1>5. CASE pipeline # 0
  <2>1. PICK h \in Hand, label \in {"take", "echoed", "echo"} :
           /\ hand' = [hand EXCEPT ![w] = h] /\ GoTo(w, label)
           /\ h.packet = hand[w].packet
           /\ label = IF mode # "ECHO" THEN "take"
                      ELSE IF hand[w].packet \in Empty THEN "echoed" ELSE "echo"
    BY <1>5, CopyEffect
  <2>2. pc'[First] = label /\ hand'[First].packet = hand[First].packet
    BY <1>2, <2>1, EchoShape DEF GoTo
  <2>3. \/ label = "echo"
        \/ label = "echoed" /\ hand[First].packet \in Empty
    BY <1>2, <2>1 DEF IsAlone
  <2>4. StageInOrder'
    BY <1>1, <1>3, <2>2, <2>3 DEF StageInOrder, IsLoaded
  <2> QED  BY <1>1, <1>2, <1>5, <2>2, <2>3, <2>4, OrderStays
<1> QED  BY <1>4, <1>5

\* ... where it is written ...
LEMMA WriteOrder ==
  ASSUME MediaTypes, EchoInv, OrderInv, NEW w \in Worker,
         BeginEcho(w) \/ EndEcho(w) \/ ClearEcho(w)
  PROVE  OrderInv'
<1> SUFFICES ASSUME IsAlone  PROVE OrderInv'
  BY DEF OrderInv, IsAlone, Built, BeginEcho, EndEcho, ClearEcho, sessionVars
<1> DEFINE p == hand[First].packet
<1>1. /\ UNCHANGED <<mode, types, pipeline, sent, played, hand>>
      /\ pc[w] \in {"echo", "echoing", "clear"}
  BY DEF BeginEcho, EndEcho, ClearEcho, jitterVars, sessionVars, workVars
<1>2. w = First /\ hand[w].stage = 1 /\ 1 \in Stage
  BY <1>1, OnePort DEF HasCopied, Label
<1>3. CASE BeginEcho(w)
  <2>1. pc[First] = "echo" /\ pc'[First] = "echoing" /\ ~echo[1].hasData
    BY <1>2, <1>3, EchoShape DEF BeginEcho, GoTo, OrderInv, StageInOrder
  <2>2. Writing(1) = {}
    <3>1. \A v \in Worker : pc[v] = "echoing" => v = First
      BY OnePort
    <3> QED  BY <2>1, <3>1 DEF Writing
  <2>3. echo'[1].writers = {p} /\ ~echo'[1].hasData
    BY <1>2, <1>3, <2>1, <2>2, EchoShape DEF BeginEcho
  <2>4. StageInOrder'
    BY <1>1, <2>1, <2>3 DEF StageInOrder, IsLoaded
  <2> QED  BY <1>1, <2>1, <2>4, OrderStays
<1>4. CASE EndEcho(w)
  <2>1. pc[First] = "echoing" /\ pc'[First] = "echoed" /\ p \notin Empty
    BY <1>2, <1>4, EchoShape DEF EndEcho, GoTo, EchoInv, OpenInv, IsOpen, IsAlone
  <2>2. echo'[1].writers = echo[1].writers /\ echo'[1].hasData
    BY <1>2, <1>4, EchoShape DEF EndEcho
  <2>3. echo[1].writers = {p}
    BY <2>1 DEF OrderInv, StageInOrder
  <2>4. StageInOrder'
    BY <1>1, <2>1, <2>2, <2>3 DEF StageInOrder, IsLoaded
  <2> QED  BY <1>1, <2>1, <2>4, OrderStays
<1>5. CASE ClearEcho(w)
  <2>1. pc[First] = "clear" /\ pc'[First] = "number" /\ ~echo'[1].hasData
    BY <1>2, <1>5, EchoShape DEF ClearEcho, GoTo
  <2>2. hand[First].payload = <<p>> /\ p \notin Empty
    BY <2>1 DEF OrderInv, StageInOrder, IsLoaded
  <2>3. StageInOrder'
    BY <1>1, <2>1, <2>2 DEF StageInOrder, IsLoaded
  <2> QED  BY <1>1, <2>1, <2>3, OrderStays
<1> QED  BY <1>3, <1>4, <1>5

\* ... which gives back what it was given ...
LEMMA TakeEchoOrder ==
  ASSUME MediaTypes, EchoInv, OrderInv, NEW w \in Worker, TakeEcho(w)
  PROVE  OrderInv'
<1> SUFFICES ASSUME IsAlone  PROVE OrderInv'
  BY DEF OrderInv, IsAlone, Built, TakeEcho, sessionVars
<1> DEFINE p == hand[First].packet
<1>1. UNCHANGED <<mode, types, pipeline, sent, played, echo>> /\ pc[w] = "echoed"
  BY DEF TakeEcho, jitterVars, sessionVars, workVars
<1>2. w = First /\ hand[w].stage = 1 /\ 1 \in Stage
  BY <1>1, OnePort DEF HasCopied, Label
<1>3. /\ echo[1].hasData <=> p \notin Empty
      /\ p \notin Empty => echo[1].writers = {p}
  BY <1>1, <1>2 DEF OrderInv, StageInOrder
<1>4. CASE ~echo[1].hasData
  <2>1. pc'[First] = "receive"
    BY <1>2, <1>4, EchoShape DEF TakeEcho, GoTo, Finish
  <2>2. AllSentBut(Torn)
    <3>1. AllSentBut(p)
      BY <1>1, <1>2 DEF OrderInv, HandInOrder
    <3> QED  BY <1>3, <1>4, <3>1 DEF AllSentBut, Audible
  <2>3. StageInOrder'
    BY <1>1, <1>4, <2>1 DEF StageInOrder, IsLoaded
  <2> QED  BY <1>1, <2>1, <2>2, <2>3, OrderStays
<1>5. CASE echo[1].hasData
  <2>1. Writing(1) = {}
    <3>1. \A v \in Worker : pc[v] = "echoing" => v = First
      BY OnePort
    <3> QED  BY <1>1, <1>2, <3>1 DEF Writing
  <2>2. Content(1) = p
    BY <1>2, <1>3, <1>5, <2>1, ContentIs
  <2>3. hand' = [hand EXCEPT ![w].payload = <<p>>] /\ pc'[First] = "clear"
    BY <1>2, <1>5, <2>2, EchoShape DEF TakeEcho, GoTo
  <2>4. hand'[First].payload = <<p>> /\ hand'[First].packet = p
    <3>1. hand[First] \in Hand /\ hand'[First] = [hand[First] EXCEPT !.payload = <<p>>]
      BY <1>2, <2>3, EchoShape
    <3> QED  BY <3>1 DEF Hand
  <2>5. StageInOrder'
    BY <1>1, <1>3, <1>5, <2>3, <2>4 DEF StageInOrder, IsLoaded
  <2> QED  BY <1>1, <1>2, <2>3, <2>4, <2>5, OrderStays
<1> QED  BY <1>4, <1>5

\* ... with a number ...
LEMMA TakeNumberOrder ==
  ASSUME MediaTypes, EchoInv, OrderInv, NEW w \in Worker, TakeNumber(w)
  PROVE  OrderInv'
<1> SUFFICES ASSUME IsAlone  PROVE OrderInv'
  BY DEF OrderInv, IsAlone, Built, TakeNumber, sessionVars
<1>1. UNCHANGED <<mode, types, pipeline, sent, played, echo>> /\ pc[w] = "number"
  BY DEF TakeNumber, jitterVars, sessionVars
<1>2. w = First
  BY <1>1, OnePort
<1>3. pc'[First] = "send"
  BY <1>2, EchoShape DEF TakeNumber, GoTo
<1>4. hand'[First].packet = hand[First].packet /\ hand'[First].payload = hand[First].payload
  BY <1>2, NumberEffect
<1>5. StageInOrder'
  BY <1>1, <1>2, <1>3, <1>4 DEF OrderInv, StageInOrder, IsLoaded
<1> QED  BY <1>1, <1>2, <1>3, <1>4, <1>5, OrderStays

\* ... to the phone.
LEMMA SendOrder ==
  ASSUME MediaTypes, EchoInv, OrderInv, NEW w \in Worker, Send(w)
  PROVE  OrderInv'
<1> SUFFICES ASSUME IsAlone  PROVE OrderInv'
  BY DEF OrderInv, IsAlone, Built, Send, sessionVars
<1> DEFINE p == hand[First].packet
<1>1. UNCHANGED <<mode, types, pipeline, played, echo>> /\ pc[w] = "send"
  BY DEF Send, jitterVars, sessionVars
<1>2. w = First
  BY <1>1, OnePort
<1>3. PICK packet \in Sent :
         /\ packet.payload = hand[w].payload
         /\ \A i \in 1 .. Len(sent) : sent'[i] = sent[i]
         /\ sent'[Len(sent) + 1] = packet
         /\ Len(sent) \in Nat /\ Len(sent') = Len(sent) + 1
         /\ \A i \in 1 .. Len(sent') : i \in 1 .. Len(sent) \/ i = Len(sent) + 1
         /\ pc'[w] = "receive"
  BY SendEffect
<1>4. /\ hand[First].payload = <<p>> /\ p \in Audible /\ ~echo[1].hasData
      /\ ~IsSent(p) /\ AllSentBut(p) /\ \A m \in Audible : m <= p
  BY <1>1, <1>2 DEF OrderInv, HandInOrder, StageInOrder, IsLoaded, Audible
<1>5. Audible' = Audible
  BY <1>1 DEF Audible
<1> HIDE DEF p
<1>6. ASSUME NEW i \in 1 .. Len(sent')
      PROVE  \E n \in Audible' :
               /\ sent'[i].payload = <<n>>
               /\ \A m \in Audible' :
                    m < n <=> \E k \in 1 .. i - 1 : sent'[k].payload = <<m>>
  <2>1. \A k \in 1 .. i - 1 : k \in 1 .. Len(sent) /\ sent'[k] = sent[k]
    BY <1>3
  <2>2. CASE i \in 1 .. Len(sent)
    <3>1. PICK n \in Audible :
             /\ sent[i].payload = <<n>>
             /\ \A m \in Audible : m < n <=> \E k \in 1 .. i - 1 : sent[k].payload = <<m>>
      BY <2>2 DEF OrderInv, SentInOrder
    <3>2. \A m : (\E k \in 1 .. i - 1 : sent'[k].payload = <<m>>)
                <=> \E k \in 1 .. i - 1 : sent[k].payload = <<m>>
      BY <2>1
    <3>3. sent'[i].payload = <<n>>
      BY <1>3, <2>2, <3>1
    <3> QED  BY <1>5, <3>1, <3>2, <3>3
  <2>3. CASE i = Len(sent) + 1
    <3>1. sent'[i].payload = <<p>>
      BY <1>2, <1>3, <1>4, <2>3
    <3>2. \A m \in Audible : m < p <=> IsSent(m)
      <4>1. p \in Int /\ \A m \in Audible : m \in Int
        BY <1>4, EchoShape, JitterConstants DEF Packet
      <4> QED  BY <1>4, <4>1 DEF AllSentBut
    <3>3. \A m : IsSent(m) <=> \E k \in 1 .. i - 1 : sent'[k].payload = <<m>>
      BY <1>3, <2>1, <2>3 DEF IsSent
    <3> QED  BY <1>4, <1>5, <3>1, <3>2, <3>3
  <2> QED  BY <1>3, <2>2, <2>3
<1>7. AllSentBut(Torn)'
  <2>1. \A m : IsSent(m) \/ m = p => IsSent(m)'
    BY <1>2, <1>3, <1>4 DEF IsSent
  <2> QED  BY <1>4, <1>5, <2>1 DEF AllSentBut
<1>8. SentInOrder' /\ HandInOrder' /\ StageInOrder'
  BY <1>1, <1>2, <1>3, <1>4, <1>6, <1>7 DEF SentInOrder, HandInOrder, StageInOrder, IsLoaded
<1> QED  BY <1>8 DEF OrderInv

\* Until a re-INVITE everything leaves in order, even when the call ends with a packet in
\* the worker's hand.
LEMMA OrderKeeps ==
  ASSUME MediaInv, MediaInv', EchoInv, OrderInv, [Next]_mediaVars
  PROVE  OrderInv'
<1>1. MediaTypes /\ pc \in [Worker -> Label] /\ Built \in Nat /\ First \in Worker
  BY EchoShape, BuiltIsNumber, MediaAssumption DEF MediaInv, MediaTypes
<1>2. ASSUME NEW w \in Worker, NEW from \in Sender,
             ReceiveOther(w, from) \/ \E n \in Packet : Receive(w, n, from)
      PROVE  OrderInv'
  <2>1. /\ UNCHANGED <<mode, types, pipeline, sent, echo, played, hand>>
        /\ pc'[First] = pc[First] \/ (pc[First] = "receive" /\ pc'[First] = "pop")
    BY <1>1, <1>2 DEF ReceiveOther, Receive, Push, GoTo, jitterVars, workVars
  <2>2. IsAlone => StageInOrder'
    BY <2>1 DEF OrderInv, StageInOrder, IsLoaded
  <2> QED  BY <2>1, <2>2, OrderStays
<1>3. ASSUME NEW w \in Worker, TakeDownlink(w)  PROVE OrderInv'
  <2>1. pc[w] = "take" /\ UNCHANGED <<mode, types>>
    BY <1>3 DEF TakeDownlink, sessionVars
  <2> QED  BY <2>1 DEF EchoInv, OrderInv, IsAlone, Built
<1>4. ASSUME NEW w \in Worker, NEW payloadType \in PayloadType, Reinvite(w, payloadType)
      PROVE  OrderInv'
  <2>1. Built' # 1
    BY <1>1, <1>4, ReinviteEffect DEF MediaTypes
  <2> QED  BY <2>1 DEF OrderInv, IsAlone
<1>5. CASE Terminate
  <2>1. UNCHANGED <<mode, types, sent, echo, played, hand, pc>> /\ pipeline' = 0
    BY <1>5 DEF Terminate, jitterVars, workVars
  <2> SUFFICES ASSUME IsAlone  PROVE OrderInv'
    BY <2>1 DEF OrderInv, IsAlone, Built
  <2>2. Audible' = Audible /\ \A m : IsSent(m)' <=> IsSent(m)
    BY <2>1 DEF Audible, IsSent
  <2>3. SentInOrder /\ HandInOrder /\ StageInOrder
    BY DEF OrderInv
  <2>4. SentInOrder'
    <3>1. ASSUME NEW i \in 1 .. Len(sent)
          PROVE  \E n \in Audible' :
                   /\ sent'[i].payload = <<n>>
                   /\ \A m \in Audible' : m < n <=> \E k \in 1 .. i - 1 : sent'[k].payload = <<m>>
      BY <2>1, <2>2, <2>3 DEF SentInOrder
    <3> QED  BY <2>1, <3>1 DEF SentInOrder
  <2>5. HandInOrder'
    BY <2>1, <2>2, <2>3 DEF HandInOrder, AllSentBut
  <2>6. StageInOrder'
    BY <2>1, <2>3 DEF StageInOrder, IsLoaded
  <2> QED  BY <2>4, <2>5, <2>6 DEF OrderInv
<1>6. CASE (\E s \in Stage, n \in 1 .. MaxChunk : ReadAudio(s, n)) \/ UNCHANGED mediaVars
  <2>1. UNCHANGED <<mode, types, pipeline, sent, echo, played, hand, pc>>
    BY <1>6 DEF ReadAudio, mediaVars, jitterVars, sessionVars, workVars
  <2>2. IsAlone => StageInOrder'
    BY <2>1 DEF OrderInv, StageInOrder, IsLoaded
  <2> QED  BY <2>1, <2>2, OrderStays
<1> QED
  BY <1>1, <1>2, <1>3, <1>4, <1>5, <1>6, AgainIsReinvite, PopFrameOrder, CopySessionOrder,
     WriteOrder, TakeEchoOrder, TakeNumberOrder, SendOrder DEF Next, WorkerStep

\* Until a re-INVITE an echo call sends its stream back frame by frame as it is played;
\* and after one, with any number of workers on any stage, a worker sends no frame twice.
THEOREM MediaEchoIsFaithful == Spec => []EchoIsFaithful
<1>1. MediaInv => MediaTypes
  BY DEF MediaInv
<1>2. MediaTypes /\ CountInv /\ EchoInv /\ OrderInv => EchoIsFaithful
  <2> SUFFICES ASSUME MediaTypes, CountInv, EchoInv, OrderInv, mode = "ECHO"
               PROVE  EchoIsFaithful
    BY DEF EchoIsFaithful
  <2>1. DOMAIN sent = 1 .. Len(sent) /\ Len(sent) \in Nat /\ Len(played) \in Nat
    BY DEF MediaTypes, WorkOK, JitterOK
  <2>2. Cardinality(InHand) \in Nat
    BY FS_CardinalityType DEF CountInv
  <2>3. Len(sent) <= Len(played)
    BY <2>1, <2>2 DEF CountInv
  <2>4. Built = 1 =>
          \A i \in DOMAIN sent : \E n \in Audible :
            /\ Echoes(sent[i], n)
            /\ \A m \in Audible : m < n <=> \E k \in 1 .. i - 1 : Echoes(sent[k], m)
    BY <2>1 DEF OrderInv, IsAlone, SentInOrder, Echoes
  <2>5. /\ \A i \in DOMAIN sent : \E n \in Audible \cup {Torn} : Echoes(sent[i], n)
        /\ \A i, j \in DOMAIN sent :
             i # j /\ sent[i].by = sent[j].by /\ sent[i].payload = sent[j].payload =>
               Echoes(sent[i], Torn)
    BY <2>1 DEF EchoInv, SentInv, Echoes
  <2> QED  BY <2>3, <2>4, <2>5 DEF EchoIsFaithful
<1> QED  BY <1>1, <1>2, CountStarts, CountKeeps, EchoStarts, EchoKeeps, OrderStarts, OrderKeeps,
            MediaAlways, PTL DEF Spec
=============================================================================
