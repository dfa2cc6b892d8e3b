---------------------------- MODULE RecorderProofs ----------------------------
(***************************************************************************)
(* RecorderStage, for every limit, size of a chunk and length of a call:   *)
(* no sample is lost, doubled or moved on its way through the queue, the   *)
(* batch and the mixer, and the destructor waits for what was queued.      *)
(***************************************************************************)
EXTENDS Recorder, SequenceTheorems, TLAPS

\* The samples of a chunk are consecutive.
InRow(c) == \A i \in DOMAIN c.samples : c.samples[i] = c.samples[1] + i - 1

RowInv ==
  /\ \A k \in DOMAIN batch : InRow(batch[k])
  /\ \A k \in DOMAIN queue : InRow(queue[k])

\* Who is where: the thread ends after the flag and on an empty queue, and the
\* destructor goes on after the thread.
LifeInv ==
  /\ running <=> owner = "none"
  /\ worker = "write" <=> batch # <<>>
  /\ worker = "done" => queue = <<>>
  /\ owner = "closed" => worker = "done"

RecorderInv == TypeOK /\ LifeInv /\ RowInv /\ LittleIsAhead /\ SamplesInOrder

\* The bounds are positive numbers.
LEMMA RecorderConstants ==
  Limit \in Nat \ {0} /\ MaxChunk \in Nat \ {0} /\ MaxSent \in Nat \ {0}
BY LimitAssumption

-----------------------------------------------------------------------------
(* Sequences in a row.                                                     *)

\* A number of the first or of the second of two intervals in a row is one of both,
\* and those of the first are less.
LEMMA IntervalsInRow ==
  ASSUME NEW a \in Nat, NEW b \in Nat, NEW c \in Nat, a <= b, b <= c
  PROVE  /\ \A v \in a + 1 .. b : v \in a + 1 .. c
         /\ \A v \in b + 1 .. c : v \in a + 1 .. c
         /\ \A v \in a + 1 .. b, w \in b + 1 .. c : v < w
OBVIOUS

\* The head and the tail of two sequences are those of the first.
LEMMA TailOfJoined ==
  ASSUME NEW S, NEW s \in Seq(S), NEW t \in Seq(S), s # <<>>
  PROVE  /\ s \o t \in Seq(S) /\ s \o t # <<>>
         /\ Head(s \o t) = Head(s)
         /\ Tail(s \o t) = Tail(s) \o t
<1> DEFINE st == s \o t
           r == Tail(s)
           rt == r \o t
<1>1. Len(s) \in Nat \ {0} /\ Len(t) \in Nat
  BY EmptySeq, LenProperties
<1>2. /\ st \in Seq(S) /\ Len(st) = Len(s) + Len(t)
      /\ \A i \in 1 .. Len(s) + Len(t) : st[i] = IF i <= Len(s) THEN s[i] ELSE t[i - Len(s)]
  BY ConcatProperties
<1>3. /\ r \in Seq(S) /\ Len(r) = Len(s) - 1 /\ \A i \in 1 .. Len(r) : r[i] = s[i + 1]
  BY HeadTailProperties
<1>4. /\ rt \in Seq(S) /\ Len(rt) = Len(r) + Len(t)
      /\ \A i \in 1 .. Len(r) + Len(t) : rt[i] = IF i <= Len(r) THEN r[i] ELSE t[i - Len(r)]
  BY <1>3, ConcatProperties
<1>5. st # <<>> /\ Head(st) = Head(s)
  <2>1. st # <<>>
    BY <1>1, <1>2
  <2>2. st[1] = s[1]
    BY <1>1, <1>2
  <2> QED  BY <1>2, <2>1, <2>2
<1>6. Tail(st) \in Seq(S) /\ Len(Tail(st)) = Len(st) - 1
      /\ \A i \in 1 .. Len(Tail(st)) : Tail(st)[i] = st[i + 1]
  BY <1>2, <1>5, HeadTailProperties
<1> HIDE DEF st, r, rt
<1>7. Len(Tail(st)) = Len(rt) /\ Len(rt) = Len(s) + Len(t) - 1
  BY <1>1, <1>2, <1>3, <1>4, <1>6
<1>8. ASSUME NEW i \in 1 .. Len(Tail(st))  PROVE Tail(st)[i] = rt[i]
  <2>1. Tail(st)[i] = st[i + 1] /\ i + 1 \in 1 .. Len(s) + Len(t)
    BY <1>1, <1>6, <1>7
  <2>2. CASE i <= Len(r)
    <3>1. st[i + 1] = s[i + 1] /\ rt[i] = r[i] /\ r[i] = s[i + 1]
      BY <1>1, <1>2, <1>3, <1>4, <1>7, <2>1, <2>2
    <3> QED  BY <2>1, <3>1
  <2>3. CASE i > Len(r)
    <3>1. (i + 1) - Len(s) = i - Len(r) /\ ~(i + 1 <= Len(s))
      BY <1>1, <1>3, <2>3
    <3>2. st[i + 1] = t[i - Len(r)]
      BY <1>2, <2>1, <3>1
    <3>3. rt[i] = t[i - Len(r)]
      BY <1>1, <1>3, <1>4, <1>7, <2>3
    <3> QED  BY <2>1, <3>2, <3>3
  <2> QED  BY <1>1, <1>3, <2>2, <2>3
<1>9. Tail(st) = rt
  BY <1>4, <1>6, <1>7, <1>8, SeqEqual
<1> QED  BY <1>2, <1>5, <1>9 DEF st, r, rt

\* Numbers that go on where others end.
LEMMA RowsJoined ==
  ASSUME NEW s \in Seq(Sample), NEW t \in Seq(Sample), NEW n \in Nat,
         Follows(s, n), Follows(t, n + Len(s))
  PROVE  /\ s \o t \in Seq(Sample) /\ n + Len(s \o t) = n + Len(s) + Len(t)
         /\ Follows(s \o t, n)
<1> DEFINE st == s \o t
<1>1. /\ Len(s) \in Nat /\ DOMAIN s = 1 .. Len(s)
      /\ Len(t) \in Nat /\ DOMAIN t = 1 .. Len(t)
  BY LenProperties
<1>2. /\ st \in Seq(Sample) /\ Len(st) = Len(s) + Len(t)
      /\ \A i \in 1 .. Len(s) + Len(t) : st[i] = IF i <= Len(s) THEN s[i] ELSE t[i - Len(s)]
  BY ConcatProperties
<1> HIDE DEF st
<1>3. ASSUME NEW i \in 1 .. Len(st)  PROVE st[i] = n + i
  <2>1. CASE i <= Len(s)
    <3>1. i \in DOMAIN s /\ st[i] = s[i]
      BY <1>1, <1>2, <2>1
    <3> QED  BY <3>1 DEF Follows
  <2>2. CASE i > Len(s)
    <3>1. i - Len(s) \in DOMAIN t /\ st[i] = t[i - Len(s)]
      BY <1>1, <1>2, <2>2
    <3>2. t[i - Len(s)] = n + Len(s) + (i - Len(s))
      BY <3>1 DEF Follows
    <3> QED  BY <1>1, <3>1, <3>2
  <2> QED  BY <1>1, <2>1, <2>2
<1>4. st \in [1 .. Len(st) -> Sample] /\ DOMAIN st = 1 .. Len(st)
  BY <1>2, LenProperties
<1> QED  BY <1>2, <1>3, <1>4 DEF st, Follows

-----------------------------------------------------------------------------
(* Frames.                                                                 *)

\* Holds, sample by sample.
LEMMA HoldsSamples ==
  ASSUME NEW f \in Seq(Frame), NEW d \in Direction, NEW a \in Nat, NEW b \in Nat
  PROVE  Holds(f, d, a, b) <=>
           /\ \A i \in 1 .. Len(f) : f[i][d] # 0 => f[i][d] \in a + 1 .. b
           /\ \A n \in a + 1 .. b : \E i \in 1 .. Len(f) : f[i][d] = n
           /\ \A i, j \in 1 .. Len(f) :
                f[i][d] # 0 /\ f[j][d] # 0 /\ i < j => f[i][d] < f[j][d]
<1> DEFINE written == {i \in DOMAIN f : f[i][d] # Missing}
<1>1. DOMAIN f = 1 .. Len(f) /\ Missing = 0
  BY DEF Missing
<1>2. \A n \in a + 1 .. b : n # 0
  OBVIOUS
<1>3. {f[i][d] : i \in written} = a + 1 .. b <=>
        /\ \A i \in 1 .. Len(f) : f[i][d] # 0 => f[i][d] \in a + 1 .. b
        /\ \A n \in a + 1 .. b : \E i \in 1 .. Len(f) : f[i][d] = n
  BY <1>1, <1>2
<1>4. \A i \in 1 .. Len(f) : i \in written <=> f[i][d] # 0
  BY <1>1
<1>5. \A i \in written : i \in 1 .. Len(f)
  BY <1>1
<1>6. (\A i, j \in written : i < j => f[i][d] < f[j][d]) <=>
        \A i, j \in 1 .. Len(f) : f[i][d] # 0 /\ f[j][d] # 0 /\ i < j => f[i][d] < f[j][d]
  BY <1>4, <1>5
<1> QED  BY <1>3, <1>6 DEF Holds

\* No frames hold nothing.
LEMMA HoldsNothing ==
  ASSUME NEW d \in Direction, NEW a \in Nat
  PROVE  Holds(<<>>, d, a, a)
<1>1. DOMAIN <<>> = {} /\ a + 1 .. a = {}
  OBVIOUS
<1> QED  BY <1>1 DEF Holds

\* Frames that number d in a row.
LEMMA HoldsRow ==
  ASSUME NEW f \in Seq(Frame), NEW d \in Direction, NEW n \in Nat,
         \A i \in 1 .. Len(f) : f[i][d] = n + i
  PROVE  Holds(f, d, n, n + Len(f))
<1>1. Len(f) \in Nat
  OBVIOUS
<1>2. \A i \in 1 .. Len(f) : f[i][d] \in n + 1 .. n + Len(f)
  BY <1>1
<1>3. ASSUME NEW m \in n + 1 .. n + Len(f)  PROVE \E i \in 1 .. Len(f) : f[i][d] = m
  <2>1. m - n \in 1 .. Len(f) /\ n + (m - n) = m
    BY <1>1
  <2>2. f[m - n][d] = n + (m - n)
    BY <2>1
  <2> QED  BY <2>1, <2>2
<1>4. \A i, j \in 1 .. Len(f) : i < j => f[i][d] < f[j][d]
  BY <1>1
<1>5. n + Len(f) \in Nat
  BY <1>1
<1> QED  BY <1>2, <1>3, <1>4, <1>5, HoldsSamples

\* Frames without d.
LEMMA HoldsMissing ==
  ASSUME NEW f \in Seq(Frame), NEW d \in Direction, NEW n \in Nat,
         \A i \in 1 .. Len(f) : f[i][d] = 0
  PROVE  Holds(f, d, n, n)
<1>1. n + 1 .. n = {}
  OBVIOUS
<1> QED  BY <1>1, HoldsSamples

\* Frames are written behind frames.
LEMMA HoldsJoined ==
  ASSUME NEW f \in Seq(Frame), NEW g \in Seq(Frame), NEW d \in Direction,
         NEW a \in Nat, NEW b \in Nat, NEW c \in Nat, a <= b, b <= c,
         Holds(f, d, a, b), Holds(g, d, b, c)
  PROVE  f \o g \in Seq(Frame) /\ Holds(f \o g, d, a, c)
<1> DEFINE h == f \o g
<1>1. /\ h \in Seq(Frame) /\ Len(h) = Len(f) + Len(g)
      /\ \A i \in 1 .. Len(f) : h[i] = f[i]
      /\ \A i \in 1 .. Len(g) : h[Len(f) + i] = g[i]
      /\ Len(f) \in Nat /\ Len(g) \in Nat
  OBVIOUS
<1>2. \A i \in 1 .. Len(h) : i \in 1 .. Len(f) \/ (i - Len(f) \in 1 .. Len(g) /\ h[i] = g[i - Len(f)])
  BY <1>1
<1>3. /\ \A i \in 1 .. Len(f) : f[i][d] # 0 => f[i][d] \in a + 1 .. b
      /\ \A n \in a + 1 .. b : \E i \in 1 .. Len(f) : f[i][d] = n
      /\ \A i, j \in 1 .. Len(f) : f[i][d] # 0 /\ f[j][d] # 0 /\ i < j => f[i][d] < f[j][d]
  BY HoldsSamples
<1>4. /\ \A i \in 1 .. Len(g) : g[i][d] # 0 => g[i][d] \in b + 1 .. c
      /\ \A n \in b + 1 .. c : \E i \in 1 .. Len(g) : g[i][d] = n
      /\ \A i, j \in 1 .. Len(g) : g[i][d] # 0 /\ g[j][d] # 0 /\ i < j => g[i][d] < g[j][d]
  BY HoldsSamples
<1> HIDE DEF h
<1>5. ASSUME NEW i \in 1 .. Len(h), h[i][d] # 0  PROVE h[i][d] \in a + 1 .. c
  <2>1. CASE i \in 1 .. Len(f)
    <3>1. h[i] = f[i]
      BY <1>1, <2>1
    <3>2. h[i][d] \in a + 1 .. b
      BY <1>3, <1>5, <2>1, <3>1, Zenon
    <3> QED  BY <3>2, IntervalsInRow
  <2>2. CASE i - Len(f) \in 1 .. Len(g) /\ h[i] = g[i - Len(f)]
    <3>1. h[i][d] \in b + 1 .. c
      BY <1>4, <1>5, <2>2, Zenon
    <3> QED  BY <3>1, IntervalsInRow, Zenon
  <2> QED  BY <1>2, <2>1, <2>2, Zenon
<1>6. ASSUME NEW n \in a + 1 .. c  PROVE \E i \in 1 .. Len(h) : h[i][d] = n
  <2>1. CASE n <= b
    <3>1. PICK i \in 1 .. Len(f) : f[i][d] = n
      BY <1>3, <2>1
    <3> QED  BY <1>1, <3>1
  <2>2. CASE n > b
    <3>1. PICK i \in 1 .. Len(g) : g[i][d] = n
      BY <1>4, <2>2
    <3>2. Len(f) + i \in 1 .. Len(h)
      BY <1>1
    <3> QED  BY <1>1, <3>1, <3>2
  <2> QED  BY <2>1, <2>2
<1>7. ASSUME NEW i \in 1 .. Len(h), NEW j \in 1 .. Len(h), h[i][d] # 0, h[j][d] # 0, i < j
      PROVE  h[i][d] < h[j][d]
  <2>1. CASE j \in 1 .. Len(f)
    <3>1. i \in 1 .. Len(f)
      BY <1>7, <2>1
    <3> QED  BY <1>1, <1>3, <1>7, <2>1, <3>1
  <2>2. CASE j - Len(f) \in 1 .. Len(g) /\ h[j] = g[j - Len(f)]
    <3>1. CASE i \in 1 .. Len(f)
      <4>1. h[i] = f[i]
        BY <1>1, <3>1
      <4>2. h[i][d] \in a + 1 .. b
        BY <1>3, <1>7, <3>1, <4>1, Zenon
      <4>3. h[j][d] \in b + 1 .. c
        BY <1>4, <1>7, <2>2, Zenon
      <4> QED  BY <4>2, <4>3, IntervalsInRow, Zenon
    <3>2. CASE i - Len(f) \in 1 .. Len(g) /\ h[i] = g[i - Len(f)]
      <4>1. i - Len(f) < j - Len(f)
        BY <1>1, <1>7
      <4>2. g[i - Len(f)][d] # 0 /\ g[j - Len(f)][d] # 0
        BY <1>7, <2>2, <3>2, Zenon
      <4>3. g[i - Len(f)][d] < g[j - Len(f)][d]
        BY <1>4, <2>2, <3>2, <4>1, <4>2, Zenon
      <4> QED  BY <2>2, <3>2, <4>3, Zenon
    <3> QED  BY <1>2, <3>1, <3>2, Zenon
  <2> QED  BY <1>2, <2>1, <2>2, Zenon
<1>8. Holds(h, d, a, c)
  BY <1>1, <1>5, <1>6, <1>7, HoldsSamples
<1> QED  BY <1>1, <1>8 DEF h

\* What Write adds to the file, behind what is there.
LEMMA HoldsWritten ==
  ASSUME NEW f \in Seq(Frame), NEW x \in Seq(Frame), NEW y \in Seq(Frame), NEW z \in Seq(Frame),
         NEW d \in Direction, NEW n \in Nat, NEW k \in Nat, NEW l \in Nat, NEW m \in Nat,
         n <= k, k <= l, l <= m,
         Holds(f, d, 0, n), Holds(x, d, n, k), Holds(y, d, k, l), Holds(z, d, l, m)
  PROVE  Holds(f \o x \o y \o z, d, 0, m)
<1> DEFINE f1 == f \o x
           f2 == f1 \o y
<1>1. f1 \in Seq(Frame) /\ Holds(f1, d, 0, k)
  BY HoldsJoined
<1> HIDE DEF f1
<1>2. f2 \in Seq(Frame) /\ Holds(f2, d, 0, l)
  BY <1>1, HoldsJoined
<1> HIDE DEF f2
<1>3. Holds(f2 \o z, d, 0, m)
  BY <1>2, HoldsJoined
<1> QED  BY <1>3 DEF f1, f2

-----------------------------------------------------------------------------
(* The mixer.                                                              *)

\* mixLen is the length of the shorter buffer.
LEMMA CommonLength ==
  ASSUME NEW b \in [Direction -> Seq(Sample)]
  PROVE  /\ Common(b) \in Nat
         /\ \A d \in Direction : Common(b) <= Len(b[d])
         /\ \E d \in Direction : Common(b) = Len(b[d])
<1> DEFINE S == {Len(b[d]) : d \in Direction}
<1>1. /\ Len(b["uplink"]) \in Nat /\ Len(b["downlink"]) \in Nat
      /\ S = {Len(b["uplink"]), Len(b["downlink"])}
  BY DEF Direction
<1>2. \E x \in S : \A y \in S : x <= y
  <2>1. CASE Len(b["uplink"]) <= Len(b["downlink"])
    BY <1>1, <2>1
  <2>2. CASE Len(b["downlink"]) <= Len(b["uplink"])
    BY <1>1, <2>2
  <2> QED  BY <1>1, <2>1, <2>2
<1>3. Common(b) \in S /\ \A y \in S : Common(b) <= y
  BY <1>2 DEF Common, Min
<1> QED  BY <1>1, <1>3

\* What is mixed of a direction is the beginning of its buffer.
LEMMA MixedHolds ==
  ASSUME NEW b \in [Direction -> Seq(Sample)]
  PROVE  /\ Mixed(b) \in Seq(Frame)
         /\ \A d \in Direction, n \in Nat :
              Follows(b[d], n) => Holds(Mixed(b), d, n, n + Common(b))
<1> DEFINE f == Mixed(b)
           c == Common(b)
<1>1. c \in Nat /\ \A d \in Direction : c <= Len(b[d])
  BY CommonLength
<1>2. \A d \in Direction : \A i \in 1 .. c : b[d][i] \in Sample
  <2> SUFFICES ASSUME NEW d \in Direction, NEW i \in 1 .. c  PROVE b[d][i] \in Sample
    OBVIOUS
  <2>1. b[d] \in Seq(Sample) /\ i \in 1 .. Len(b[d])
    BY <1>1
  <2> QED  BY <2>1, ElementOfSeq
<1>3. f = [i \in 1 .. c |-> [d \in Direction |-> b[d][i]]]
  BY DEF Mixed
<1> HIDE DEF c
<1>4. \A i \in 1 .. c : [d \in Direction |-> b[d][i]] \in Frame
  BY <1>2 DEF Frame
<1>5. f \in Seq(Frame) /\ Len(f) = c
  BY <1>1, <1>3, <1>4
<1>6. \A d \in Direction : \A i \in 1 .. c : f[i][d] = b[d][i]
  BY <1>3
<1>7. ASSUME NEW d \in Direction, NEW n \in Nat, Follows(b[d], n)
      PROVE  Holds(f, d, n, n + c)
  <2>1. \A i \in 1 .. c : f[i][d] = n + i
    <3> SUFFICES ASSUME NEW i \in 1 .. c  PROVE b[d][i] = n + i
      BY <1>6
    <3>1. i \in DOMAIN b[d]
      BY <1>1
    <3> QED  BY <1>7, <3>1 DEF Follows
  <2> HIDE DEF f
  <2> QED  BY <1>5, <2>1, HoldsRow
<1> QED  BY <1>5, <1>7 DEF c

\* The rest is what follows.
LEMMA UnmixedIsRest ==
  ASSUME NEW b \in [Direction -> Seq(Sample)]
  PROVE  /\ Unmixed(b) \in [Direction -> Seq(Sample)]
         /\ \E d \in Direction : Unmixed(b)[d] = <<>>
         /\ \A d \in Direction : Len(Unmixed(b)[d]) = Len(b[d]) - Common(b)
         /\ \A d \in Direction, n \in Nat :
              Follows(b[d], n) =>
                Follows(Unmixed(b)[d], n + Common(b))
<1> DEFINE c == Common(b)
<1>1. /\ c \in Nat /\ \A d \in Direction : c <= Len(b[d])
      /\ \E d \in Direction : c = Len(b[d])
  BY CommonLength
<1>2. \A d \in Direction : Unmixed(b)[d] = SubSeq(b[d], c + 1, Len(b[d]))
  BY DEF Unmixed
<1> HIDE DEF c
<1>3. ASSUME NEW d \in Direction
      PROVE  /\ Unmixed(b)[d] \in Seq(Sample)
             /\ Len(Unmixed(b)[d]) = Len(b[d]) - c
             /\ \A i \in 1 .. Len(b[d]) - c : Unmixed(b)[d][i] = b[d][c + i]
  <2>1. b[d] \in Seq(Sample) /\ Len(b[d]) \in Nat /\ c <= Len(b[d])
    BY <1>1
  <2>2. \A i \in c + 1 .. Len(b[d]) : b[d][i] \in Sample
    BY <1>1, <2>1, ElementOfSeq
  <2>3. /\ SubSeq(b[d], c + 1, Len(b[d])) \in Seq(Sample)
        /\ Len(SubSeq(b[d], c + 1, Len(b[d]))) = Len(b[d]) - c
        /\ \A i \in 1 .. Len(b[d]) - c : SubSeq(b[d], c + 1, Len(b[d]))[i] = b[d][c + i]
    BY <1>1, <2>1, <2>2
  <2> QED  BY <1>2, <2>3
<1>4. Unmixed(b) \in [Direction -> Seq(Sample)]
  <2>1. Unmixed(b) = [d \in Direction |-> Unmixed(b)[d]]
    BY DEF Unmixed
  <2> QED  BY <1>3, <2>1
<1>5. \E d \in Direction : Unmixed(b)[d] = <<>>
  <2>1. PICK d \in Direction : c = Len(b[d])
    BY <1>1
  <2>2. Unmixed(b)[d] \in Seq(Sample) /\ Len(Unmixed(b)[d]) = 0
    BY <1>1, <1>3, <2>1
  <2> QED  BY <2>2, EmptySeq
<1>6. ASSUME NEW d \in Direction, NEW n \in Nat, Follows(b[d], n)
      PROVE  Follows(Unmixed(b)[d], n + c)
  <2> DEFINE u == Unmixed(b)[d]
  <2>1. u \in Seq(Sample) /\ Len(u) = Len(b[d]) - c /\ DOMAIN u = 1 .. Len(b[d]) - c
    BY <1>3
  <2>2. \A i \in 1 .. Len(b[d]) - c : u[i] = n + c + i
    <3> SUFFICES ASSUME NEW i \in 1 .. Len(b[d]) - c  PROVE b[d][c + i] = n + (c + i)
      <4>1. ASSUME NEW i \in 1 .. Len(b[d]) - c  PROVE n + (c + i) = n + c + i
        BY <1>1
      <4>2. ASSUME NEW i \in 1 .. Len(b[d]) - c  PROVE u[i] = b[d][c + i]
        BY <1>3, <4>2, Zenon
      <4> QED  BY <4>1, <4>2, Zenon
    <3>1. c + i \in DOMAIN b[d]
      BY <1>1
    <3> QED  BY <1>6, <3>1, Zenon DEF Follows
  <2> QED  BY <2>1, <2>2 DEF Follows
<1> QED  BY <1>3, <1>4, <1>5, <1>6 DEF c

\* A direction that is written alone is written in full, and holds nothing of the other.
LEMMA AloneHolds ==
  ASSUME NEW b \in [Direction -> Seq(Sample)], NEW e \in Direction
  PROVE  /\ Alone(b, e) \in Seq(Frame)
         /\ \A d \in Direction \ {e}, n \in Nat : Holds(Alone(b, e), d, n, n)
         /\ \A n \in Nat : Len(b[e]) <= Limit => Holds(Alone(b, e), e, n, n)
         /\ \A n \in Nat :
              Len(b[e]) > Limit /\ Follows(b[e], n) =>
                Holds(Alone(b, e), e, n, n + Len(b[e]))
<1>1. CASE Len(b[e]) <= Limit
  <2>1. Alone(b, e) = <<>>
    BY <1>1 DEF Alone
  <2> QED  BY <1>1, <2>1, HoldsNothing, RecorderConstants
<1>2. CASE ~(Len(b[e]) <= Limit)
  <2> DEFINE f == Alone(b, e)
  <2>1. b[e] \in Seq(Sample) /\ Len(b[e]) \in Nat /\ DOMAIN b[e] = 1 .. Len(b[e])
    OBVIOUS
  <2>2. f = [i \in 1 .. Len(b[e]) |-> [d \in Direction |-> IF d = e THEN b[e][i] ELSE 0]]
    BY <1>2, <2>1 DEF Alone, Missing
  <2>3. \A i \in 1 .. Len(b[e]) : b[e][i] \in Sample
    BY <2>1, ElementOfSeq
  <2>4. \A i \in 1 .. Len(b[e]) :
          [d \in Direction |-> IF d = e THEN b[e][i] ELSE 0] \in Frame
    BY <2>3 DEF Frame, Missing
  <2>5. f \in Seq(Frame) /\ Len(f) = Len(b[e])
    BY <2>1, <2>2, <2>4
  <2>6. \A i \in 1 .. Len(f) : /\ f[i][e] = b[e][i]
                               /\ \A d \in Direction \ {e} : f[i][d] = 0
    BY <2>2, <2>5
  <2> HIDE DEF f
  <2>7. ASSUME NEW d \in Direction \ {e}, NEW n \in Nat  PROVE Holds(f, d, n, n)
    BY <2>5, <2>6, HoldsMissing
  <2>8. ASSUME NEW n \in Nat, Follows(b[e], n)
        PROVE  Holds(f, e, n, n + Len(b[e]))
    <3>1. \A i \in 1 .. Len(f) : f[i][e] = n + i
      BY <2>1, <2>5, <2>6, <2>8 DEF Follows
    <3> QED  BY <2>5, <3>1, HoldsRow
  <2> QED  BY <1>2, <2>5, <2>7, <2>8 DEF f
<1> QED  BY <1>1, <1>2

-----------------------------------------------------------------------------
(* Chunks.                                                                 *)

\* Sample number i of chunk k is one of d.
Queued(cs, d, k, i) ==
  k \in 1 .. Len(cs) /\ cs[k].direction = d /\ i \in 1 .. Len(cs[k].samples)

\* Carry, sample by sample.
LEMMA CarrySamples ==
  ASSUME NEW cs \in Seq(Chunk), NEW d \in Direction, NEW a \in Nat, NEW b \in Nat
  PROVE  Carry(cs, d, a, b) <=>
           /\ \A k, i \in Nat : Queued(cs, d, k, i) => cs[k].samples[i] \in a + 1 .. b
           /\ \A n \in a + 1 .. b : \E k, i \in Nat : Queued(cs, d, k, i) /\ cs[k].samples[i] = n
           /\ \A k, l, i, j \in Nat :
                Queued(cs, d, k, i) /\ Queued(cs, d, l, j) /\ (k < l \/ (k = l /\ i < j)) =>
                  cs[k].samples[i] < cs[l].samples[j]
<1> DEFINE queued == {k \in DOMAIN cs : cs[k].direction = d}
<1>1. DOMAIN cs = 1 .. Len(cs) /\ Len(cs) \in Nat
  OBVIOUS
<1>2. \A k \in 1 .. Len(cs) :
        cs[k].samples \in Seq(Sample) /\ DOMAIN cs[k].samples = 1 .. Len(cs[k].samples)
          /\ Len(cs[k].samples) \in Nat
  <2> SUFFICES ASSUME NEW k \in 1 .. Len(cs)  PROVE cs[k].samples \in Seq(Sample)
    OBVIOUS
  <2>1. cs[k] \in Chunk
    BY ElementOfSeq
  <2> QED  BY <2>1 DEF Chunk
<1>3. \A k, i \in Nat : Queued(cs, d, k, i) <=> k \in queued /\ i \in DOMAIN cs[k].samples
  BY <1>1, <1>2 DEF Queued
<1>4. \A k \in queued : k \in Nat /\ \A i \in DOMAIN cs[k].samples : i \in Nat
  BY <1>1, <1>2
<1>5. UNION {ToSet(cs[k].samples) : k \in queued} = a + 1 .. b <=>
        /\ \A k \in queued : \A i \in DOMAIN cs[k].samples : cs[k].samples[i] \in a + 1 .. b
        /\ \A n \in a + 1 .. b : \E k \in queued : \E i \in DOMAIN cs[k].samples :
             cs[k].samples[i] = n
  <2> DEFINE there == UNION {ToSet(cs[k].samples) : k \in queued}
             range == a + 1 .. b
  <2>1. \A n : n \in there <=> \E k \in queued : \E i \in DOMAIN cs[k].samples :
                                cs[k].samples[i] = n
    BY DEF ToSet
  <2> HIDE DEF there, range
  <2>2. there = range <=> (\A n \in there : n \in range) /\ (\A n \in range : n \in there)
    OBVIOUS
  <2>3. (\A n \in there : n \in range) <=>
          \A k \in queued : \A i \in DOMAIN cs[k].samples : cs[k].samples[i] \in range
    BY <2>1
  <2>4. (\A n \in range : n \in there) <=>
          \A n \in range : \E k \in queued : \E i \in DOMAIN cs[k].samples :
            cs[k].samples[i] = n
    BY <2>1
  <2> QED  BY <2>2, <2>3, <2>4 DEF there, range
<1> HIDE DEF queued
<1>6. Carry(cs, d, a, b) <=>
        /\ \A k \in queued : \A i \in DOMAIN cs[k].samples : cs[k].samples[i] \in a + 1 .. b
        /\ \A n \in a + 1 .. b : \E k \in queued : \E i \in DOMAIN cs[k].samples :
             cs[k].samples[i] = n
        /\ \A k, l \in queued : \A i \in DOMAIN cs[k].samples, j \in DOMAIN cs[l].samples :
             k < l \/ (k = l /\ i < j) => cs[k].samples[i] < cs[l].samples[j]
  BY <1>5 DEF Carry, queued
<1> QED  BY <1>3, <1>4, <1>6

\* A chunk is queued behind the others.
LEMMA CarryAppended ==
  ASSUME NEW cs \in Seq(Chunk), NEW c \in Chunk, NEW d \in Direction,
         NEW a \in Nat, NEW b \in Nat, a <= b, Carry(cs, d, a, b), NEW n \in Nat,
         IF c.direction = d THEN c.samples = [i \in 1 .. n |-> b + i] ELSE n = 0
  PROVE  Carry(Append(cs, c), d, a, b + n)
<1> DEFINE cc == Append(cs, c)
<1>1. /\ cc \in Seq(Chunk) /\ Len(cc) = Len(cs) + 1 /\ Len(cs) \in Nat
      /\ \A k \in 1 .. Len(cs) : cc[k] = cs[k]
      /\ cc[Len(cs) + 1] = c
  OBVIOUS
<1>2. c.samples \in Seq(Sample)
  BY DEF Chunk
<1>3. /\ c.direction = d => Len(c.samples) = n /\ \A i \in 1 .. n : c.samples[i] = b + i
      /\ c.direction # d => n = 0
  BY <1>2
<1> HIDE DEF cc
<1>4. ASSUME NEW k \in Nat, NEW i \in Nat
      PROVE  Queued(cc, d, k, i) <=>
               Queued(cs, d, k, i) \/ (k = Len(cs) + 1 /\ c.direction = d /\ i \in 1 .. n)
  <2>1. CASE k \in 1 .. Len(cs)
    <3>1. cc[k] = cs[k] /\ k \in 1 .. Len(cc) /\ k # Len(cs) + 1
      BY <1>1, <2>1
    <3> QED  BY <2>1, <3>1 DEF Queued
  <2>2. CASE k = Len(cs) + 1
    <3>1. cc[k] = c /\ k \in 1 .. Len(cc) /\ k \notin 1 .. Len(cs)
      BY <1>1, <2>2
    <3> QED  BY <1>3, <2>2, <3>1 DEF Queued
  <2>3. CASE k \notin 1 .. Len(cs) + 1
    BY <1>1, <2>3 DEF Queued
  <2> QED  BY <1>1, <2>1, <2>2, <2>3
<1>5. \A k, i \in Nat : Queued(cs, d, k, i) => k <= Len(cs) /\ cc[k] = cs[k]
  BY <1>1 DEF Queued
<1>6. /\ \A k, i \in Nat : Queued(cs, d, k, i) => cs[k].samples[i] \in a + 1 .. b
      /\ \A m \in a + 1 .. b : \E k, i \in Nat : Queued(cs, d, k, i) /\ cs[k].samples[i] = m
      /\ \A k, l, i, j \in Nat :
           Queued(cs, d, k, i) /\ Queued(cs, d, l, j) /\ (k < l \/ (k = l /\ i < j)) =>
             cs[k].samples[i] < cs[l].samples[j]
  BY CarrySamples
<1>7. ASSUME NEW k \in Nat, NEW i \in Nat, Queued(cc, d, k, i)
      PROVE  cc[k].samples[i] \in a + 1 .. b + n
  <2>1. CASE Queued(cs, d, k, i)
    <3>1. cs[k].samples[i] \in a + 1 .. b
      BY <1>6, <2>1
    <3> QED  BY <1>5, <2>1, <3>1
  <2>2. CASE k = Len(cs) + 1 /\ c.direction = d /\ i \in 1 .. n
    BY <1>1, <1>3, <2>2
  <2> QED  BY <1>4, <1>7, <2>1, <2>2
<1>8. ASSUME NEW m \in a + 1 .. b + n
      PROVE  \E k, i \in Nat : Queued(cc, d, k, i) /\ cc[k].samples[i] = m
  <2>1. CASE m <= b
    <3>1. m \in a + 1 .. b
      BY <2>1
    <3>2. PICK k \in Nat, i \in Nat : Queued(cs, d, k, i) /\ cs[k].samples[i] = m
      BY <1>6, <3>1
    <3> QED  BY <1>4, <1>5, <3>2
  <2>2. CASE m > b
    <3>1. Len(cs) + 1 \in Nat /\ m - b \in Nat /\ m - b \in 1 .. n /\ c.direction = d
      BY <1>1, <1>3, <2>2
    <3>2. c.samples[m - b] = b + (m - b) /\ b + (m - b) = m
      BY <1>3, <3>1
    <3> QED  BY <1>1, <1>4, <3>1, <3>2
  <2> QED  BY <2>1, <2>2
<1>9. ASSUME NEW k \in Nat, NEW l \in Nat, NEW i \in Nat, NEW j \in Nat,
             Queued(cc, d, k, i), Queued(cc, d, l, j), k < l \/ (k = l /\ i < j)
      PROVE  cc[k].samples[i] < cc[l].samples[j]
  <2>1. CASE Queued(cs, d, l, j)
    <3>1. Queued(cs, d, k, i)
      BY <1>1, <1>4, <1>5, <1>9, <2>1
    <3> QED  BY <1>5, <1>6, <1>9, <2>1, <3>1
  <2>2. CASE l = Len(cs) + 1 /\ c.direction = d /\ j \in 1 .. n
    <3>1. cc[l].samples[j] = b + j
      BY <1>1, <1>3, <2>2
    <3>2. CASE Queued(cs, d, k, i)
      <4>1. cc[k].samples[i] \in a + 1 .. b
        BY <1>5, <1>6, <3>2, Zenon
      <4>2. \A v \in a + 1 .. b : v < b + j
        BY <1>3, <2>2
      <4> QED  BY <3>1, <4>1, <4>2, Zenon
    <3>3. CASE k = Len(cs) + 1 /\ c.direction = d /\ i \in 1 .. n
      <4>1. cc[k].samples[i] = b + i /\ i < j
        BY <1>1, <1>3, <1>9, <2>2, <3>3
      <4> QED  BY <3>1, <4>1
    <3> QED  BY <1>4, <1>9, <3>2, <3>3
  <2> QED  BY <1>4, <1>9, <2>1, <2>2
<1>10. b + n \in Nat
  OBVIOUS
<1>11. Carry(cc, d, a, b + n)
  BY <1>1, <1>7, <1>8, <1>9, <1>10, CarrySamples
<1> QED  BY <1>11 DEF cc

\* The first chunk is taken: its samples are the next ones.
LEMMA CarryTaken ==
  ASSUME NEW cs \in Seq(Chunk), cs # <<>>, NEW d \in Direction,
         NEW a \in Nat, NEW b \in Nat, a <= b, Carry(cs, d, a, b), NEW c, c = Head(cs)
  PROVE  /\ c.direction # d => Carry(Tail(cs), d, a, b)
         /\ c.direction = d /\ InRow(c) =>
              /\ Follows(c.samples, a)
              /\ a + Len(c.samples) <= b
              /\ Carry(Tail(cs), d, a + Len(c.samples), b)
<1> DEFINE ct == Tail(cs)
           n == Len(c.samples)
<1>1. /\ ct \in Seq(Chunk) /\ Len(ct) = Len(cs) - 1 /\ Len(cs) \in Nat \ {0} /\ c = cs[1]
      /\ \A k \in 1 .. Len(ct) : ct[k] = cs[k + 1]
  OBVIOUS
<1>2. c \in Chunk
  BY <1>1, ElementOfSeq
<1>3. c.samples \in Seq(Sample) /\ n \in Nat /\ DOMAIN c.samples = 1 .. n
  BY <1>2 DEF Chunk
<1> HIDE DEF ct, n
<1>4. ASSUME NEW k \in Nat, NEW i \in Nat
      PROVE  /\ Queued(ct, d, k, i) => Queued(cs, d, k + 1, i) /\ ct[k] = cs[k + 1] /\ k >= 1
             /\ Queued(cs, d, k, i) /\ k > 1 =>
                  k - 1 \in Nat /\ Queued(ct, d, k - 1, i) /\ ct[k - 1] = cs[k]
             /\ Queued(cs, d, k, i) => k >= 1
  <2>1. Queued(ct, d, k, i) => Queued(cs, d, k + 1, i) /\ ct[k] = cs[k + 1] /\ k >= 1
    BY <1>1 DEF Queued
  <2>2. ASSUME Queued(cs, d, k, i), k > 1
        PROVE  k - 1 \in Nat /\ Queued(ct, d, k - 1, i) /\ ct[k - 1] = cs[k]
    <3>1. k - 1 \in 1 .. Len(ct) /\ (k - 1) + 1 = k
      BY <1>1, <2>2 DEF Queued
    <3>2. ct[k - 1] = cs[k]
      BY <1>1, <3>1
    <3> QED  BY <2>2, <3>1, <3>2 DEF Queued
  <2> QED  BY <2>1, <2>2 DEF Queued
<1>5. /\ \A k, i \in Nat : Queued(cs, d, k, i) => cs[k].samples[i] \in a + 1 .. b
      /\ \A m \in a + 1 .. b : \E k, i \in Nat : Queued(cs, d, k, i) /\ cs[k].samples[i] = m
      /\ \A k, l, i, j \in Nat :
           Queued(cs, d, k, i) /\ Queued(cs, d, l, j) /\ (k < l \/ (k = l /\ i < j)) =>
             cs[k].samples[i] < cs[l].samples[j]
  BY CarrySamples
<1>6. \A k, l, i, j \in Nat :
        Queued(ct, d, k, i) /\ Queued(ct, d, l, j) /\ (k < l \/ (k = l /\ i < j)) =>
          ct[k].samples[i] < ct[l].samples[j]
  <2> SUFFICES ASSUME NEW k \in Nat, NEW l \in Nat, NEW i \in Nat, NEW j \in Nat,
                      Queued(ct, d, k, i), Queued(ct, d, l, j), k < l \/ (k = l /\ i < j)
               PROVE  ct[k].samples[i] < ct[l].samples[j]
    OBVIOUS
  <2>1. /\ Queued(cs, d, k + 1, i) /\ ct[k] = cs[k + 1]
        /\ Queued(cs, d, l + 1, j) /\ ct[l] = cs[l + 1]
        /\ k + 1 \in Nat /\ l + 1 \in Nat
        /\ k + 1 < l + 1 \/ (k + 1 = l + 1 /\ i < j)
    BY <1>4
  <2>2. cs[k + 1].samples[i] < cs[l + 1].samples[j]
    BY <1>5, <2>1
  <2> QED  BY <2>1, <2>2
<1>7. ASSUME c.direction # d  PROVE Carry(ct, d, a, b)
  <2>1. ASSUME NEW k \in Nat, NEW i \in Nat, Queued(ct, d, k, i)
        PROVE  ct[k].samples[i] \in a + 1 .. b
    <3>1. Queued(cs, d, k + 1, i) /\ ct[k] = cs[k + 1] /\ k + 1 \in Nat
      BY <1>4, <2>1
    <3> QED  BY <1>5, <3>1, Zenon
  <2>2. ASSUME NEW m \in a + 1 .. b
        PROVE  \E k, i \in Nat : Queued(ct, d, k, i) /\ ct[k].samples[i] = m
    <3>1. PICK k \in Nat, i \in Nat : Queued(cs, d, k, i) /\ cs[k].samples[i] = m
      BY <1>5
    <3>2. k > 1
      BY <1>1, <1>7, <3>1 DEF Queued
    <3> QED  BY <1>4, <3>1, <3>2
  <2> QED  BY <1>1, <1>6, <2>1, <2>2, CarrySamples
<1>8. ASSUME c.direction = d, InRow(c)
      PROVE  /\ Follows(c.samples, a)
             /\ a + n <= b
             /\ Carry(ct, d, a + n, b)
  <2>1. \A i \in 1 .. n : Queued(cs, d, 1, i) /\ c.samples[i] = c.samples[1] + i - 1
    <3>1. 1 \in 1 .. Len(cs) /\ cs[1] = c
      BY <1>1
    <3> QED  BY <1>3, <1>8, <3>1 DEF Queued, InRow, n
  <2>2. \A i \in 1 .. n : c.samples[i] = a + i
    <3> SUFFICES ASSUME NEW i \in 1 .. n  PROVE c.samples[1] = a + 1
      BY <2>1
    <3>1. 1 \in 1 .. n /\ c.samples[1] \in a + 1 .. b
      BY <1>1, <1>3, <1>5, <2>1
    <3>2. PICK k \in Nat, j \in Nat : Queued(cs, d, k, j) /\ cs[k].samples[j] = a + 1
      <4>1. a + 1 \in a + 1 .. b
        BY <3>1
      <4> QED  BY <1>5, <4>1
    <3>3. CASE k = 1 /\ j = 1
      BY <1>1, <3>2, <3>3
    <3>4. CASE ~(k = 1 /\ j = 1)
      <4>1. 1 < k \/ (1 = k /\ 1 < j)
        BY <1>4, <3>2, <3>4 DEF Queued
      <4>2. cs[1].samples[1] < cs[k].samples[j]
        BY <1>5, <2>1, <3>1, <3>2, <4>1
      <4> QED  BY <1>1, <3>1, <3>2, <4>2
    <3> QED  BY <3>3, <3>4
  <2>3. Follows(c.samples, a)
    BY <1>3, <2>2 DEF Follows
  <2>4. a + n <= b
    <3>1. CASE n = 0
      BY <3>1
    <3>2. CASE n > 0
      <4>1. n \in 1 .. n
        BY <1>3, <3>2
      <4>2. cs[1].samples[n] \in a + 1 .. b
        BY <1>3, <1>5, <2>1, <4>1
      <4> QED  BY <1>1, <2>2, <4>1, <4>2
    <3> QED  BY <1>3, <3>1, <3>2
  <2>5. ASSUME NEW k \in Nat, NEW i \in Nat, Queued(ct, d, k, i)
        PROVE  ct[k].samples[i] \in a + n + 1 .. b
    <3>1. Queued(cs, d, k + 1, i) /\ ct[k] = cs[k + 1] /\ k + 1 \in Nat /\ 1 < k + 1
      BY <1>4, <2>5
    <3>2. ct[k].samples[i] \in a + 1 .. b
      BY <1>5, <3>1
    <3>3. CASE n = 0
      BY <3>2, <3>3
    <3>4. CASE n > 0
      <4>1. n \in 1 .. n
        BY <1>3, <3>4
      <4>2. cs[1].samples[n] < cs[k + 1].samples[i]
        BY <1>3, <1>5, <2>1, <3>1, <4>1
      <4>3. cs[1].samples[n] = a + n
        BY <1>1, <2>2, <4>1, Zenon
      <4>4. \A v \in a + 1 .. b : a + n < v => v \in a + n + 1 .. b
        BY <1>3
      <4> QED  BY <3>1, <3>2, <4>2, <4>3, <4>4, Zenon
    <3> QED  BY <1>3, <3>3, <3>4
  <2>6. ASSUME NEW m \in a + n + 1 .. b
        PROVE  \E k, i \in Nat : Queued(ct, d, k, i) /\ ct[k].samples[i] = m
    <3>1. PICK k \in Nat, i \in Nat : Queued(cs, d, k, i) /\ cs[k].samples[i] = m
      <4>1. m \in a + 1 .. b
        BY <1>3
      <4> QED  BY <1>5, <4>1
    <3>2. k # 1
      <4> SUFFICES ASSUME k = 1  PROVE FALSE
        OBVIOUS
      <4>1. i \in 1 .. n /\ c.samples[i] = m
        BY <1>1, <3>1 DEF Queued, n
      <4> QED  BY <1>3, <2>2, <4>1
    <3>3. k > 1
      BY <1>4, <3>1, <3>2
    <3> QED  BY <1>4, <3>1, <3>3
  <2>7. a + n \in Nat
    BY <1>3
  <2>8. Carry(ct, d, a + n, b)
    BY <1>1, <1>6, <2>5, <2>6, <2>7, CarrySamples
  <2> QED  BY <2>3, <2>4, <2>8
<1> QED  BY <1>7, <1>8 DEF ct, n

-----------------------------------------------------------------------------
(* The invariant.                                                          *)

LEMMA RecorderStarts == Init => RecorderInv
<1> SUFFICES ASSUME Init  PROVE RecorderInv
  OBVIOUS
<1>1. TypeOK
  BY RecorderConstants DEF Init, TypeOK
<1>2. LifeInv /\ RowInv
  BY DEF Init, LifeInv, RowInv
<1>3. LittleIsAhead
  BY RecorderConstants DEF Init, LittleIsAhead, Direction
<1>4. ASSUME NEW d \in Direction
      PROVE  /\ Holds(file, d, 0, 0)
             /\ Follows(ahead[d], 0)
             /\ Carry(batch \o queue, d, 0 + Len(ahead[d]), sent[d])
             /\ 0 \in 0 .. sent[d] - Len(ahead[d])
  <2>1. Holds(file, d, 0, 0)
    BY HoldsNothing DEF Init
  <2>2. ahead[d] = <<>> /\ sent[d] = 0 /\ batch \o queue = <<>> /\ Len(ahead[d]) = 0
    BY DEF Init
  <2>3. Follows(<<>>, 0)
    BY DEF Follows
  <2>4. Carry(<<>>, d, 0, 0)
    <3>1. DOMAIN <<>> = {} /\ 0 + 1 .. 0 = {}
      OBVIOUS
    <3> QED  BY <3>1 DEF Carry
  <2> QED  BY <2>1, <2>2, <2>3, <2>4
<1>5. SamplesInOrder
  BY <1>4 DEF SamplesInOrder
<1> QED  BY <1>1, <1>2, <1>3, <1>5 DEF RecorderInv

\* The buffers with the first chunk of the batch.
Received == [ahead EXCEPT ![Head(batch).direction] = @ \o Head(batch).samples]

\* Received is the numbers of each direction that follow those in the file.
LEMMA ReceivedIsNext ==
  ASSUME TypeOK, RowInv, batch # <<>>
  PROVE  /\ Head(batch) \in Chunk
         /\ Received \in [Direction -> Seq(Sample)]
         /\ Tail(batch) \in Seq(Chunk)
         /\ \A d \in Direction, n \in Nat :
              /\ n + Len(ahead[d]) <= sent[d]
              /\ Follows(ahead[d], n)
              /\ Carry(batch \o queue, d, n + Len(ahead[d]), sent[d])
              => /\ Follows(Received[d], n)
                 /\ n + Len(Received[d]) <= sent[d]
                 /\ Carry(Tail(batch) \o queue, d, n + Len(Received[d]), sent[d])
<1> DEFINE c == Head(batch)
           cs == batch \o queue
<1>1. batch \in Seq(Chunk) /\ queue \in Seq(Chunk) /\ ahead \in [Direction -> Seq(Sample)]
  BY DEF TypeOK
<1>2. c \in Chunk /\ Tail(batch) \in Seq(Chunk) /\ c = batch[1] /\ 1 \in DOMAIN batch
  BY <1>1
<1>3. c.direction \in Direction /\ c.samples \in Seq(Sample)
  BY <1>2 DEF Chunk
<1>4. InRow(c)
  BY <1>2 DEF RowInv
<1>5. /\ cs \in Seq(Chunk) /\ cs # <<>> /\ Head(cs) = c
      /\ Tail(cs) = Tail(batch) \o queue
  BY <1>1, TailOfJoined
<1>6. /\ Received \in [Direction -> Seq(Sample)]
      /\ Received[c.direction] = ahead[c.direction] \o c.samples
      /\ \A d \in Direction : d # c.direction => Received[d] = ahead[d]
  <2>1. Received = [ahead EXCEPT ![c.direction] = ahead[c.direction] \o c.samples]
    BY DEF Received
  <2>2. ahead[c.direction] \o c.samples \in Seq(Sample)
    BY <1>1, <1>3, ConcatProperties
  <2> HIDE DEF c
  <2> QED  BY <1>1, <1>3, <2>1, <2>2
<1> HIDE DEF c, cs
<1>7. ASSUME NEW d \in Direction, NEW n \in Nat,
             n + Len(ahead[d]) <= sent[d],
             Follows(ahead[d], n),
             Carry(cs, d, n + Len(ahead[d]), sent[d])
      PROVE  /\ Follows(Received[d], n)
             /\ n + Len(Received[d]) <= sent[d]
             /\ Carry(Tail(cs), d, n + Len(Received[d]), sent[d])
  <2> DEFINE a == n + Len(ahead[d])
  <2>1. /\ ahead[d] \in Seq(Sample) /\ Len(ahead[d]) \in Nat /\ sent[d] \in Nat /\ a \in Nat
    BY <1>1 DEF TypeOK
  <2>2. CASE c.direction # d
    <3>1. Received[d] = ahead[d]
      BY <1>6, <2>2
    <3>2. Carry(Tail(cs), d, a, sent[d])
      BY <1>5, <1>7, <2>1, <2>2, CarryTaken
    <3> QED  BY <1>7, <3>1, <3>2
  <2>3. CASE c.direction = d
    <3>1. /\ Follows(c.samples, a)
          /\ a + Len(c.samples) <= sent[d]
          /\ Carry(Tail(cs), d, a + Len(c.samples), sent[d])
      <4>1. a \in Nat /\ sent[d] \in Nat /\ a <= sent[d] /\ Carry(cs, d, a, sent[d]) /\ c = Head(cs)
        BY <1>5, <1>7, <2>1
      <4> HIDE DEF a
      <4> QED  BY <1>4, <1>5, <2>3, <4>1, CarryTaken
    <3>2. /\ Received[d] = ahead[d] \o c.samples
          /\ n + Len(Received[d]) = a + Len(c.samples)
          /\ Follows(Received[d], n)
      <4>1. Received[d] = ahead[d] \o c.samples
        BY <1>6, <2>3
      <4>2. Follows(c.samples, n + Len(ahead[d]))
        BY <3>1
      <4>3. /\ n + Len(ahead[d] \o c.samples) = n + Len(ahead[d]) + Len(c.samples)
            /\ Follows(ahead[d] \o c.samples, n)
        BY <1>3, <1>7, <2>1, <4>2, RowsJoined, Zenon
      <4> QED  BY <4>1, <4>3, Zenon
    <3> QED  BY <3>1, <3>2
  <2> QED  BY <2>2, <2>3
<1> QED  BY <1>2, <1>5, <1>6, <1>7 DEF c, cs

\* What Write does, with the names of its parts.
LEMMA WriteParts ==
  ASSUME Write
  PROVE  /\ batch # <<>> => Received = [ahead EXCEPT ![Head(batch).direction] = @ \o Head(batch).samples]
         /\ isOpen => /\ ahead' = Kept(Unmixed(Received))
                      /\ file' = file \o Mixed(Received) \o Alone(Unmixed(Received), "uplink")
                                   \o Alone(Unmixed(Received), "downlink")
         /\ ~isOpen => UNCHANGED <<ahead, file>>
         /\ batch' = Tail(batch) /\ worker = "write"
         /\ worker' = (IF Len(batch) = 1 THEN "wait" ELSE "write")
         /\ UNCHANGED <<isOpen, queue, running, owner, sent>>
BY DEF Write, Received, recording

\* The buffers that are left, and where their samples went.
LEMMA KeptIsRest ==
  ASSUME NEW b \in [Direction -> Seq(Sample)], \E d \in Direction : b[d] = <<>>
  PROVE  /\ Kept(b) \in [Direction -> Seq(Sample)]
         /\ \E d \in Direction : Kept(b)[d] = <<>>
         /\ \A d \in Direction : Len(Kept(b)[d]) <= Limit
         /\ \A d \in Direction : Kept(b)[d] = IF Len(b[d]) > Limit THEN <<>> ELSE b[d]
<1>1. /\ \A d \in Direction : Kept(b)[d] = IF Len(b[d]) > Limit THEN <<>> ELSE b[d]
      /\ Kept(b) = [d \in Direction |-> Kept(b)[d]]
  BY DEF Kept
<1>2. ASSUME NEW d \in Direction
      PROVE  Kept(b)[d] \in Seq(Sample) /\ Len(Kept(b)[d]) <= Limit
  <2>1. b[d] \in Seq(Sample) /\ Len(b[d]) \in Nat /\ <<>> \in Seq(Sample) /\ Len(<<>>) = 0
    OBVIOUS
  <2>2. CASE Len(b[d]) > Limit
    <3>1. Kept(b)[d] = <<>>
      BY <1>1, <2>2
    <3> QED  BY <2>1, <3>1, RecorderConstants
  <2>3. CASE ~(Len(b[d]) > Limit)
    <3>1. Kept(b)[d] = b[d]
      BY <1>1, <2>3
    <3> QED  BY <2>1, <2>3, <3>1, RecorderConstants
  <2> QED  BY <2>2, <2>3
<1>3. Kept(b) \in [Direction -> Seq(Sample)]
  BY <1>1, <1>2
<1>4. \E d \in Direction : Kept(b)[d] = <<>>
  BY <1>1
<1> QED  BY <1>1, <1>2, <1>3, <1>4

\* What one turn of the loop does to the numbers of a direction.
LEMMA WriteMoves ==
  ASSUME NEW b \in [Direction -> Seq(Sample)], NEW f \in Seq(Frame),
         NEW u, u = Unmixed(b), NEW x, x = Mixed(b),
         NEW y, y = Alone(u, "uplink"), NEW z, z = Alone(u, "downlink")
  PROVE  /\ f \o x \o y \o z \in Seq(Frame)
         /\ \A d \in Direction, n \in Nat :
              Follows(b[d], n) /\ Holds(f, d, 0, n) =>
                \E m \in Nat : /\ m + Len(Kept(u)[d]) = n + Len(b[d])
                               /\ Follows(Kept(u)[d], m)
                               /\ Holds(f \o x \o y \o z, d, 0, m)
<1>1. /\ u \in [Direction -> Seq(Sample)] /\ \E d \in Direction : u[d] = <<>>
      /\ \A d \in Direction : Len(u[d]) = Len(b[d]) - Common(b)
      /\ \A d \in Direction, n \in Nat : Follows(b[d], n) => Follows(u[d], n + Common(b))
  BY UnmixedIsRest
<1>2. /\ x \in Seq(Frame)
      /\ \A d \in Direction, n \in Nat : Follows(b[d], n) => Holds(x, d, n, n + Common(b))
  BY MixedHolds
<1>3. Common(b) \in Nat /\ \A d \in Direction : Common(b) <= Len(b[d]) /\ Len(b[d]) \in Nat
  BY CommonLength
<1>4. /\ "uplink" \in Direction /\ "downlink" \in Direction
      /\ \A d \in Direction : d = "uplink" \/ d = "downlink"
  BY DEF Direction
<1>5. y \in Seq(Frame) /\ z \in Seq(Frame)
  BY <1>1, <1>4, AloneHolds
<1>6. f \o x \o y \o z \in Seq(Frame)
  <2>1. f \o x \in Seq(Frame)
    BY <1>2, ConcatProperties
  <2>2. f \o x \o y \in Seq(Frame)
    BY <1>5, <2>1, ConcatProperties
  <2> QED  BY <1>5, <2>2, ConcatProperties
<1>7. ASSUME NEW d \in Direction, NEW n \in Nat, Follows(b[d], n), Holds(f, d, 0, n)
      PROVE  \E m \in Nat : /\ m + Len(Kept(u)[d]) = n + Len(b[d])
                            /\ Follows(Kept(u)[d], m)
                            /\ Holds(f \o x \o y \o z, d, 0, m)
  <2> DEFINE k == n + Common(b)
             m == IF Len(u[d]) > Limit THEN k + Len(u[d]) ELSE k
  <2>1. k \in Nat /\ n <= k /\ u[d] \in Seq(Sample) /\ Len(u[d]) \in Nat
    BY <1>1, <1>3
  <2>2. m \in Nat /\ k <= m
    BY <2>1
  <2>3. Holds(x, d, n, k)
    BY <1>2, <1>7
  <2>4. Follows(u[d], k)
    BY <1>1, <1>7
  <2>5. Holds(Alone(u, d), d, k, m)
    <3> HIDE DEF k
    <3>1. CASE Len(u[d]) > Limit
      BY <1>1, <2>1, <2>4, <3>1, AloneHolds
    <3>2. CASE ~(Len(u[d]) > Limit)
      <4>1. Len(u[d]) <= Limit
        BY <2>1, <3>2, RecorderConstants
      <4> QED  BY <1>1, <2>1, <3>2, <4>1, AloneHolds
    <3> QED  BY <3>1, <3>2
  <2>6. \A e \in Direction \ {d}, i \in Nat : Holds(Alone(u, e), d, i, i)
    BY <1>1, AloneHolds
  <2>7. /\ m + Len(Kept(u)[d]) = n + Len(b[d])
        /\ Follows(Kept(u)[d], m)
    <3>1. Kept(u)[d] = IF Len(u[d]) > Limit THEN <<>> ELSE u[d]
      BY <1>1, KeptIsRest
    <3>2. k + Len(u[d]) = n + Len(b[d])
      BY <1>1, <1>3
    <3>3. CASE Len(u[d]) > Limit
      <4>1. Kept(u)[d] = <<>> /\ m = k + Len(u[d]) /\ Len(<<>>) = 0
        BY <3>1, <3>3
      <4>2. Follows(<<>>, m)
        BY DEF Follows
      <4> HIDE DEF k, m
      <4> QED  BY <2>1, <2>2, <3>2, <4>1, <4>2
    <3>4. CASE ~(Len(u[d]) > Limit)
      <4>1. Kept(u)[d] = u[d] /\ m = k
        BY <3>1, <3>4
      <4> HIDE DEF k, m
      <4> QED  BY <2>4, <3>2, <4>1
    <3> QED  BY <3>3, <3>4
  <2> HIDE DEF k, m
  <2>8. /\ x \in Seq(Frame) /\ y \in Seq(Frame) /\ z \in Seq(Frame)
        /\ k \in Nat /\ m \in Nat /\ n <= k /\ k <= k /\ k <= m /\ m <= m
        /\ Holds(f, d, 0, n) /\ Holds(x, d, n, k)
    BY <1>2, <1>5, <1>7, <2>1, <2>2, <2>3
  <2>9. Holds(f \o x \o y \o z, d, 0, m)
    <3>1. CASE d = "uplink"
      <4>1. Holds(y, d, k, m)
        BY <2>5, <3>1
      <4>2. Holds(z, d, m, m)
        BY <1>4, <2>2, <2>6, <3>1
      <4> QED  BY <2>8, <4>1, <4>2, HoldsWritten, Zenon
    <3>2. CASE d = "downlink"
      <4>1. Holds(y, d, k, k)
        BY <1>4, <2>1, <2>6, <3>2
      <4>2. Holds(z, d, k, m)
        BY <2>5, <3>2
      <4> QED  BY <2>8, <4>1, <4>2, HoldsWritten, Zenon
    <3> QED  BY <1>4, <3>1, <3>2
  <2> QED  BY <2>2, <2>7, <2>9
<1> QED  BY <1>6, <1>7

\* The same, of the buffers as they are written.
LEMMA WriteContinues ==
  ASSUME NEW b \in [Direction -> Seq(Sample)], NEW f \in Seq(Frame),
         NEW d \in Direction, NEW n \in Nat, Follows(b[d], n), Holds(f, d, 0, n)
  PROVE  \E m \in Nat :
           /\ m + Len(Kept(Unmixed(b))[d]) = n + Len(b[d])
           /\ Follows(Kept(Unmixed(b))[d], m)
           /\ Holds(f \o Mixed(b) \o Alone(Unmixed(b), "uplink")
                      \o Alone(Unmixed(b), "downlink"), d, 0, m)
<1> DEFINE u == Unmixed(b)
           x == Mixed(b)
           y == Alone(u, "uplink")
           z == Alone(u, "downlink")
<1>1. u = Unmixed(b) /\ x = Mixed(b) /\ y = Alone(u, "uplink") /\ z = Alone(u, "downlink")
  OBVIOUS
<1>2. \E m \in Nat : /\ m + Len(Kept(u)[d]) = n + Len(b[d])
                      /\ Follows(Kept(u)[d], m)
                      /\ Holds(f \o x \o y \o z, d, 0, m)
  <2> HIDE DEF u, x, y, z
  <2>1. \A e \in Direction, k \in Nat :
          Follows(b[e], k) /\ Holds(f, e, 0, k) =>
            \E m \in Nat : /\ m + Len(Kept(u)[e]) = k + Len(b[e])
                           /\ Follows(Kept(u)[e], m)
                           /\ Holds(f \o x \o y \o z, e, 0, m)
    BY <1>1, WriteMoves
  <2> QED  BY <2>1, Zenon
<1> QED  BY <1>2

\* Types, and where thread and destructor stand.
LEMMA TypesKept == TypeOK /\ LifeInv /\ LittleIsAhead /\ RowInv /\ [Next]_vars => TypeOK'
<1> SUFFICES ASSUME TypeOK, LifeInv, LittleIsAhead, RowInv, [Next]_vars  PROVE TypeOK'
  OBVIOUS
<1>1. ASSUME NEW d \in Direction, NEW n \in 1 .. MaxChunk, Process(d, n)  PROVE TypeOK'
  <2> DEFINE c == [direction |-> d, samples |-> [i \in 1 .. n |-> sent[d] + i]]
  <2>1. sent[d] \in Nat /\ n \in Nat /\ sent[d] + n <= MaxSent /\ MaxSent \in Nat
    BY <1>1, RecorderConstants DEF Process, TypeOK
  <2>2. \A i \in 1 .. n : sent[d] + i \in Sample
    BY <2>1 DEF Sample
  <2>3. [i \in 1 .. n |-> sent[d] + i] \in Seq(Sample)
    BY <2>1, <2>2
  <2>4. c \in Chunk
    BY <2>3 DEF Chunk
  <2>5. queue' = Append(queue, c)
    BY <1>1 DEF Process
  <2> HIDE DEF c
  <2>6. queue' \in Seq(Chunk)
    BY <2>4, <2>5 DEF TypeOK
  <2>7. sent' \in [Direction -> 0 .. MaxSent]
    <3>1. sent' = [sent EXCEPT ![d] = sent[d] + n] /\ sent[d] + n \in 0 .. MaxSent
      BY <1>1, <2>1 DEF Process
    <3> QED  BY <3>1 DEF TypeOK
  <2>8. /\ worker' \in {"wait", "asleep", "write", "done"}
        /\ worker' = "done" => ~running'
    BY <1>1 DEF Process, Wake, TypeOK
  <2> QED  BY <1>1, <2>6, <2>7, <2>8 DEF Process, recording, TypeOK
<1>2. ASSUME Take  PROVE TypeOK'
  <2>1. worker' \in {"wait", "asleep", "write", "done"} /\ (worker' = "done" => ~running')
    BY <1>2 DEF Take
  <2>2. batch' = queue /\ queue' = <<>> /\ UNCHANGED <<isOpen, running, recording, owner, sent>>
    BY <1>2 DEF Take
  <2>3. batch' \in Seq(Chunk) /\ queue' \in Seq(Chunk)
    BY <2>2 DEF TypeOK
  <2> QED  BY <2>1, <2>2, <2>3 DEF TypeOK, recording
<1>3. ASSUME Write  PROVE TypeOK'
  <2>1. batch # <<>>
    BY <1>3 DEF Write, LifeInv
  <2>2. Received \in [Direction -> Seq(Sample)] /\ Tail(batch) \in Seq(Chunk)
    BY <2>1, ReceivedIsNext
  <2>3. ahead' \in [Direction -> Seq(Sample)] /\ file' \in Seq(Frame)
    <3>1. CASE isOpen
      <4> DEFINE u == Unmixed(Received)
      <4>1. u \in [Direction -> Seq(Sample)] /\ \E d \in Direction : u[d] = <<>>
        BY <2>2, UnmixedIsRest
      <4>2. ahead' \in [Direction -> Seq(Sample)]
        <5>1. Kept(u) \in [Direction -> Seq(Sample)]
          BY <4>1, KeptIsRest
        <5> QED  BY <1>3, <3>1, <5>1, WriteParts
      <4>3. file' \in Seq(Frame)
        <5>1. file \in Seq(Frame)
          BY DEF TypeOK
        <5>2. file \o Mixed(Received) \o Alone(u, "uplink") \o Alone(u, "downlink") \in Seq(Frame)
          BY <2>2, <5>1, WriteMoves
        <5> QED  BY <1>3, <3>1, <5>2, WriteParts
      <4> QED  BY <4>2, <4>3
    <3>2. CASE ~isOpen
      BY <1>3, <3>2, WriteParts DEF TypeOK
    <3> QED  BY <3>1, <3>2
  <2>4. worker' \in {"wait", "write"}
    BY <1>3, WriteParts
  <2> QED  BY <1>3, <2>2, <2>3, <2>4, WriteParts DEF TypeOK
<1>4. ASSUME WakeSpuriously \/ Stop \/ Destroy  PROVE TypeOK'
  <2>1. UNCHANGED <<isOpen, queue, batch, ahead, file, sent>>
    BY <1>4 DEF WakeSpuriously, Stop, Destroy, Notify, Join, thread, recording
  <2>2. /\ worker' \in {"wait", "asleep", "write", "done"}
        /\ owner' \in {"none", "notify", "join", "closed"}
    BY <1>4 DEF WakeSpuriously, Stop, Destroy, Notify, Join, Wake, thread, TypeOK
  <2>3. worker' = "done" => worker = "done"
    BY <1>4 DEF WakeSpuriously, Stop, Destroy, Notify, Join, Wake, thread
  <2>4. running' = running \/ running' = FALSE
    BY <1>4, Zenon DEF WakeSpuriously, Stop, Destroy, Notify, Join
  <2>5. running \in BOOLEAN /\ (worker = "done" => ~running)
    BY Zenon DEF TypeOK
  <2>6. running' \in BOOLEAN
    BY <2>4, <2>5, Zenon
  <2>7. worker' = "done" => ~running'
    BY <2>3, <2>4, <2>5, Zenon
  <2> QED  BY <2>1, <2>2, <2>6, <2>7 DEF TypeOK
<1>5. ASSUME UNCHANGED vars  PROVE TypeOK'
  BY <1>5 DEF vars, TypeOK
<1> QED  BY <1>1, <1>2, <1>3, <1>4, <1>5 DEF Next

LEMMA LifeKept == TypeOK /\ LifeInv /\ [Next]_vars => LifeInv'
<1> SUFFICES ASSUME TypeOK, LifeInv, [Next]_vars  PROVE LifeInv'
  OBVIOUS
<1>1. ASSUME NEW d \in Direction, NEW n \in 1 .. MaxChunk, Process(d, n)  PROVE LifeInv'
  <2>1. worker # "done" /\ worker' # "done"
    BY <1>1 DEF Process, Wake, LifeInv, TypeOK
  <2> QED  BY <1>1, <2>1 DEF Process, Wake, LifeInv
<1>2. ASSUME Take  PROVE LifeInv'
  <2>1. /\ worker' = "write" <=> queue # <<>>
        /\ worker = "wait" /\ owner # "closed"
    BY <1>2 DEF Take, LifeInv
  <2> QED  BY <1>2, <2>1 DEF Take, LifeInv
<1>3. ASSUME Write  PROVE LifeInv'
  <2>1. batch \in Seq(Chunk) /\ batch # <<>> /\ Len(batch) \in Nat
    <3>1. batch \in Seq(Chunk)
      BY DEF TypeOK
    <3>2. batch # <<>>
      BY <1>3 DEF Write, LifeInv
    <3> QED  BY <3>1, <3>2, LenProperties
  <2>2. Tail(batch) \in Seq(Chunk) /\ Len(Tail(batch)) = Len(batch) - 1
    BY <2>1, HeadTailProperties
  <2>3. Tail(batch) = <<>> <=> Len(batch) = 1
    BY <2>1, <2>2
  <2>4. worker' = "write" <=> batch' # <<>>
    BY <1>3, <2>3, WriteParts
  <2> QED  BY <1>3, <2>4, WriteParts DEF LifeInv
<1>4. ASSUME WakeSpuriously \/ Stop \/ Destroy  PROVE LifeInv'
  BY <1>4 DEF WakeSpuriously, Stop, Destroy, Notify, Join, Wake, thread, recording, LifeInv
<1>5. ASSUME UNCHANGED vars  PROVE LifeInv'
  BY <1>5 DEF vars, LifeInv
<1> QED  BY <1>1, <1>2, <1>3, <1>4, <1>5 DEF Next

\* What is queued is in a row.
LEMMA RowKept == TypeOK /\ LifeInv /\ RowInv /\ [Next]_vars => RowInv'
<1> SUFFICES ASSUME TypeOK, LifeInv, RowInv, [Next]_vars  PROVE RowInv'
  OBVIOUS
<1>1. ASSUME NEW d \in Direction, NEW n \in 1 .. MaxChunk, Process(d, n)  PROVE RowInv'
  <2> DEFINE c == [direction |-> d, samples |-> [i \in 1 .. n |-> sent[d] + i]]
  <2>1. InRow(c)
    <3>1. sent[d] \in Nat /\ DOMAIN c.samples = 1 .. n /\ n \in Nat
      BY DEF TypeOK
    <3>2. \A i \in 1 .. n : c.samples[i] = sent[d] + i /\ 1 \in 1 .. n
      OBVIOUS
    <3> QED  BY <3>1, <3>2 DEF InRow
  <2>2. queue' = Append(queue, c) /\ batch' = batch
    BY <1>1 DEF Process
  <2> HIDE DEF c
  <2>3. \A k \in DOMAIN queue' : queue'[k] = c \/ (k \in DOMAIN queue /\ queue'[k] = queue[k])
    BY <2>2 DEF TypeOK
  <2> QED  BY <2>1, <2>2, <2>3 DEF RowInv
<1>2. ASSUME Take  PROVE RowInv'
  BY <1>2 DEF Take, RowInv
<1>3. ASSUME Write  PROVE RowInv'
  <2>1. batch \in Seq(Chunk) /\ batch # <<>> /\ Len(batch) \in Nat /\ DOMAIN batch = 1 .. Len(batch)
    <3>1. batch \in Seq(Chunk)
      BY DEF TypeOK
    <3>2. batch # <<>>
      BY <1>3 DEF Write, LifeInv
    <3> QED  BY <3>1, <3>2, LenProperties
  <2>2. /\ Tail(batch) \in Seq(Chunk) /\ Len(Tail(batch)) = Len(batch) - 1
        /\ \A i \in 1 .. Len(Tail(batch)) : Tail(batch)[i] = batch[i + 1]
    BY <2>1, HeadTailProperties
  <2>3. \A i \in DOMAIN Tail(batch) : i + 1 \in DOMAIN batch /\ Tail(batch)[i] = batch[i + 1]
    BY <2>1, <2>2
  <2>4. batch' = Tail(batch) /\ queue' = queue
    BY <1>3, WriteParts
  <2> QED  BY <2>3, <2>4 DEF RowInv
<1>4. ASSUME WakeSpuriously \/ Stop \/ Destroy \/ UNCHANGED vars  PROVE RowInv'
  BY <1>4 DEF WakeSpuriously, Stop, Destroy, Notify, Join, thread, vars, RowInv
<1> QED  BY <1>1, <1>2, <1>3, <1>4 DEF Next

\* What is left in the mixer.
LEMMA LittleKept == TypeOK /\ LifeInv /\ RowInv /\ LittleIsAhead /\ [Next]_vars => LittleIsAhead'
<1> SUFFICES ASSUME TypeOK, LifeInv, RowInv, LittleIsAhead, [Next]_vars  PROVE LittleIsAhead'
  OBVIOUS
<1>1. CASE Write /\ isOpen
  <2> DEFINE u == Unmixed(Received)
  <2>1. Received \in [Direction -> Seq(Sample)]
    BY <1>1, ReceivedIsNext DEF Write, LifeInv
  <2>2. u \in [Direction -> Seq(Sample)] /\ \E d \in Direction : u[d] = <<>>
    BY <2>1, UnmixedIsRest
  <2> HIDE DEF u
  <2>3. (\E d \in Direction : Kept(u)[d] = <<>>) /\ \A d \in Direction : Len(Kept(u)[d]) <= Limit
    BY <2>2, KeptIsRest
  <2>4. ahead' = Kept(u)
    BY <1>1, WriteParts DEF u
  <2> QED  BY <2>3, <2>4 DEF LittleIsAhead
<1>2. CASE UNCHANGED ahead
  BY <1>2 DEF LittleIsAhead
<1>3. (Write /\ isOpen) \/ UNCHANGED ahead
  BY WriteParts DEF Next, Process, Take, WakeSpuriously, Stop, Destroy, Notify, Join, recording, vars
<1> QED  BY <1>1, <1>2, <1>3

\* What is appended to the last of two sequences is appended to both.
LEMMA ConcatAppended ==
  ASSUME NEW s \in Seq(Chunk), NEW t \in Seq(Chunk), NEW c \in Chunk
  PROVE  s \o Append(t, c) = Append(s \o t, c)
<1> DEFINE one == <<c>>
<1>1. one \in Seq(Chunk)
  OBVIOUS
<1>2. s \o t \in Seq(Chunk)
  OBVIOUS
<1>3. Append(t, c) = t \o one
  BY AppendIsConcat
<1>4. Append(s \o t, c) = (s \o t) \o one
  BY <1>2, AppendIsConcat
<1> HIDE DEF one
<1>5. (s \o t) \o one = s \o (t \o one)
  BY <1>1, ConcatAssociative
<1> QED  BY <1>3, <1>4, <1>5, Zenon

\* Where the samples are.
LEMMA OrderKept ==
  TypeOK /\ LifeInv /\ RowInv /\ LittleIsAhead /\ SamplesInOrder /\ [Next]_vars => SamplesInOrder'
<1> SUFFICES ASSUME TypeOK, LifeInv, RowInv, LittleIsAhead, SamplesInOrder, [Next]_vars, isOpen'
             PROVE  \A d \in Direction : \E n \in 0 .. sent'[d] - Len(ahead'[d]) :
                      /\ Holds(file', d, 0, n)
                      /\ Follows(ahead'[d], n)
                      /\ Carry(batch' \o queue', d, n + Len(ahead'[d]), sent'[d])
  BY DEF SamplesInOrder
<1>1. isOpen
  BY DEF Next, Process, Take, WakeSpuriously, Write, Stop, Destroy, Notify, Join, vars
<1>2. /\ batch \in Seq(Chunk) /\ queue \in Seq(Chunk) /\ batch \o queue \in Seq(Chunk)
      /\ ahead \in [Direction -> Seq(Sample)] /\ file \in Seq(Frame)
      /\ \A e \in Direction : sent[e] \in Nat /\ Len(ahead[e]) \in Nat
  BY DEF TypeOK
<1> TAKE d \in Direction
<1>3. PICK n \in 0 .. sent[d] - Len(ahead[d]) :
        /\ Holds(file, d, 0, n)
        /\ Follows(ahead[d], n)
        /\ Carry(batch \o queue, d, n + Len(ahead[d]), sent[d])
  BY <1>1 DEF SamplesInOrder
<1>4. n \in Nat /\ n + Len(ahead[d]) \in Nat /\ n + Len(ahead[d]) <= sent[d]
  BY <1>2, <1>3
<1>5. ASSUME NEW e \in Direction, NEW m \in 1 .. MaxChunk, Process(e, m)
      PROVE  \E k \in 0 .. sent'[d] - Len(ahead'[d]) :
               /\ Holds(file', d, 0, k)
               /\ Follows(ahead'[d], k)
               /\ Carry(batch' \o queue', d, k + Len(ahead'[d]), sent'[d])
  <2> DEFINE c == [direction |-> e, samples |-> [i \in 1 .. m |-> sent[e] + i]]
             more == IF e = d THEN m ELSE 0
  <2>1. c \in Chunk
    <3>1. sent[e] \in Nat /\ m \in Nat /\ sent[e] + m <= MaxSent /\ MaxSent \in Nat
      BY <1>2, <1>5, RecorderConstants DEF Process
    <3>2. \A i \in 1 .. m : sent[e] + i \in Sample
      BY <3>1 DEF Sample
    <3>3. [i \in 1 .. m |-> sent[e] + i] \in Seq(Sample)
      BY <3>1, <3>2
    <3> QED  BY <3>3 DEF Chunk
  <2>2. more \in Nat /\ sent'[d] = sent[d] + more
    BY <1>2, <1>5 DEF Process, TypeOK
  <2>3. queue' = Append(queue, c) /\ batch' = batch /\ UNCHANGED <<ahead, file>>
    BY <1>5 DEF Process, recording
  <2>4. IF c.direction = d THEN c.samples = [i \in 1 .. more |-> sent[d] + i] ELSE more = 0
    OBVIOUS
  <2> HIDE DEF c, more
  <2>5. batch' \o queue' = Append(batch \o queue, c)
    <3>1. batch \o Append(queue, c) = Append(batch \o queue, c)
      BY <1>2, <2>1, ConcatAppended
    <3> QED  BY <2>3, <3>1, Zenon
  <2>6. Carry(Append(batch \o queue, c), d, n + Len(ahead[d]), sent[d] + more)
    BY <1>2, <1>3, <1>4, <2>1, <2>2, <2>4, CarryAppended
  <2>7. Carry(batch' \o queue', d, n + Len(ahead'[d]), sent'[d])
    BY <2>2, <2>3, <2>5, <2>6, Zenon
  <2>8. n \in 0 .. sent'[d] - Len(ahead'[d])
    BY <1>2, <1>4, <2>2, <2>3
  <2> QED  BY <1>3, <2>3, <2>7, <2>8
<1>6. ASSUME Take
      PROVE  \E k \in 0 .. sent'[d] - Len(ahead'[d]) :
               /\ Holds(file', d, 0, k)
               /\ Follows(ahead'[d], k)
               /\ Carry(batch' \o queue', d, k + Len(ahead'[d]), sent'[d])
  <2>1. batch = <<>> /\ batch' = queue /\ queue' = <<>> /\ UNCHANGED <<ahead, file, sent>>
    BY <1>6 DEF Take, LifeInv, recording
  <2>2. batch' \o queue' = batch \o queue
    <3>1. queue \o <<>> = queue /\ <<>> \o queue = queue
      BY <1>2, ConcatEmptySeq
    <3> QED  BY <2>1, <3>1, Zenon
  <2> QED  BY <1>3, <2>1, <2>2, Zenon
<1>7. ASSUME Write
      PROVE  \E k \in 0 .. sent'[d] - Len(ahead'[d]) :
               /\ Holds(file', d, 0, k)
               /\ Follows(ahead'[d], k)
               /\ Carry(batch' \o queue', d, k + Len(ahead'[d]), sent'[d])
  <2> DEFINE u == Unmixed(Received)
             x == Mixed(Received)
             y == Alone(u, "uplink")
             z == Alone(u, "downlink")
             f == file \o x \o y \o z
  <2>1. batch # <<>>
    BY <1>7 DEF Write, LifeInv
  <2>2. /\ Received \in [Direction -> Seq(Sample)]
        /\ Follows(Received[d], n)
        /\ n + Len(Received[d]) <= sent[d]
        /\ Carry(Tail(batch) \o queue, d, n + Len(Received[d]), sent[d])
    BY <1>3, <1>4, <2>1, ReceivedIsNext
  <2>3. PICK k \in Nat : /\ k + Len(Kept(u)[d]) = n + Len(Received[d])
                         /\ Follows(Kept(u)[d], k)
                         /\ Holds(f, d, 0, k)
    BY <1>2, <1>3, <1>4, <2>2, WriteContinues, Zenon
  <2>4. /\ ahead' = Kept(u) /\ file' = f
        /\ batch' = Tail(batch) /\ queue' = queue /\ sent' = sent
    BY <1>1, <1>7, WriteParts
  <2>5. Kept(u)[d] \in Seq(Sample)
    BY <2>2, UnmixedIsRest, KeptIsRest
  <2> HIDE DEF u, x, y, z, f
  <2>6. k \in 0 .. sent'[d] - Len(ahead'[d])
    <3>1. k + Len(Kept(u)[d]) <= sent[d] /\ Len(Kept(u)[d]) \in Nat
      BY <2>2, <2>3, <2>5, LenProperties
    <3> QED  BY <1>2, <2>4, <3>1
  <2>7. Carry(batch' \o queue', d, k + Len(ahead'[d]), sent'[d])
    BY <2>2, <2>3, <2>4, Zenon
  <2> QED  BY <2>3, <2>4, <2>6, <2>7, Zenon
<1>8. ASSUME WakeSpuriously \/ Stop \/ Destroy \/ UNCHANGED vars
      PROVE  \E k \in 0 .. sent'[d] - Len(ahead'[d]) :
               /\ Holds(file', d, 0, k)
               /\ Follows(ahead'[d], k)
               /\ Carry(batch' \o queue', d, k + Len(ahead'[d]), sent'[d])
  <2>1. UNCHANGED <<batch, queue, ahead, file, sent>>
    BY <1>8 DEF WakeSpuriously, Stop, Destroy, Notify, Join, thread, recording, vars
  <2> QED  BY <1>3, <2>1, Zenon
<1> QED  BY <1>5, <1>6, <1>7, <1>8 DEF Next

LEMMA RecorderKeeps == RecorderInv /\ [Next]_vars => RecorderInv'
BY TypesKept, LifeKept, RowKept, LittleKept, OrderKept DEF RecorderInv

\* A recorder whose thread has ended has mixed all that was queued.
LEMMA NothingWaits ==
  ASSUME RecorderInv, owner = "closed", isOpen
  PROVE  ClosedFileIsComplete
<1>1. batch = <<>> /\ queue = <<>>
  BY DEF RecorderInv, LifeInv
<1>2. batch \o queue = <<>>
  BY <1>1
<1>3. ASSUME NEW d \in Direction, NEW n \in 1 .. sent[d] - Limit
      PROVE  \E i \in DOMAIN file : file[i][d] = n
  <2>1. PICK k \in 0 .. sent[d] - Len(ahead[d]) :
          /\ Holds(file, d, 0, k)
          /\ Carry(batch \o queue, d, k + Len(ahead[d]), sent[d])
    BY DEF RecorderInv, SamplesInOrder
  <2>2. /\ sent[d] \in Nat /\ ahead[d] \in Seq(Sample) /\ Len(ahead[d]) \in Nat
        /\ Len(ahead[d]) <= Limit /\ file \in Seq(Frame)
    BY DEF RecorderInv, TypeOK, LittleIsAhead
  <2>3. k + Len(ahead[d]) + 1 .. sent[d] = {}
    BY <1>2, <2>1 DEF Carry
  <2>4. n \in 1 .. k
    <3> DEFINE l == Len(ahead[d])
               m == sent[d]
    <3>1. k \in 0 .. m - l /\ k + l + 1 .. m = {}
      BY <2>1, <2>3
    <3>2. m \in Nat /\ l \in Nat /\ l <= Limit /\ Limit \in Nat /\ n \in 1 .. m - Limit
      BY <2>2, RecorderConstants
    <3> HIDE DEF l, m
    <3>3. m <= k + l
      <4>1. m \in k + l + 1 .. m \/ m <= k + l
        BY <3>1, <3>2
      <4> QED  BY <3>1, <4>1
    <3> QED  BY <3>1, <3>2, <3>3
  <2>5. n \in 0 + 1 .. k /\ k \in Nat
    BY <2>1, <2>4
  <2>6. \E i \in 1 .. Len(file) : file[i][d] = n
    BY <2>1, <2>2, <2>5, HoldsSamples
  <2> QED  BY <2>2, <2>6
<1> QED  BY <1>3 DEF ClosedFileIsComplete

\* The variables of a recorder keep their types.
THEOREM RecorderTypes == Spec => []TypeOK
<1>1. RecorderInv => TypeOK
  BY DEF RecorderInv
<1> QED  BY RecorderStarts, RecorderKeeps, <1>1, PTL DEF Spec

\* However the directions drift and whatever the threads do, every sample that
\* processUplink and processDownlink queued is in one place, and in order.
THEOREM RecordingIsInOrder == Spec => []SamplesInOrder
<1>1. RecorderInv => SamplesInOrder
  BY DEF RecorderInv
<1> QED  BY RecorderStarts, RecorderKeeps, <1>1, PTL DEF Spec

\* After each chunk the mixer of workerLoop keeps samples of one direction at most, and
\* no more than its limit.
THEOREM MixerKeepsLittle == Spec => []LittleIsAhead
<1>1. RecorderInv => LittleIsAhead
  BY DEF RecorderInv
<1> QED  BY RecorderStarts, RecorderKeeps, <1>1, PTL DEF Spec

\* ~RecorderStage does not close the file before all that was queued is in it or, up to
\* the limit, left in the mixer.
THEOREM FileIsComplete == Spec => []ClosedFileIsComplete
<1>1. RecorderInv => ClosedFileIsComplete
  BY NothingWaits DEF ClosedFileIsComplete
<1> QED  BY RecorderStarts, RecorderKeeps, <1>1, PTL DEF Spec
=============================================================================
