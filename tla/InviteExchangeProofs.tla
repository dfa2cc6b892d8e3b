------------------------- MODULE InviteExchangeProofs -------------------------
(***************************************************************************)
(* One request from the wire to the answer, for every datagram of typed    *)
(* lines: what the parser reads of it, what the response repeats of it,    *)
(* what is answered to its offer, and what the client reads of the answer, *)
(* for every set of media lines and rtpmap lines, every list of preferred  *)
(* codecs and every offer.                                                 *)
(*                                                                         *)
(* The loops of the parser are folds over any number of lines.  What they  *)
(* compute is proved by the least line at which it would be wrong.         *)
(***************************************************************************)
EXTENDS InviteExchange, SequenceTheorems, WellFoundedInduction, TLAPS

\* rtpmap lines about payload type pt, and audio lines.
Maps(pt) == {i \in DOMAIN read : read[i].kind = "rtpmap" /\ read[i].map.payloadType = pt}
Audio == {i \in DOMAIN read : read[i].kind = "m" /\ read[i].media.type = "audio"}

ReadTypes ==
  /\ offer \in Seq(Line)
  /\ read \in Seq(Line)
  /\ session = [connectionIp |-> session.connectionIp, media |-> session.media,
                rtpMap |-> session.rtpMap]
  /\ session.media \in Seq(Media)
  /\ session.rtpMap \in [PayloadType -> STRING \cup {Unset}]

\* The session has the name of the last rtpmap line of a number.
MapInv ==
  \A pt \in PayloadType :
    \/ Maps(pt) = {} /\ session.rtpMap[pt] = Unset
    \/ \E i \in Maps(pt) : /\ \A j \in Maps(pt) : j <= i
                           /\ session.rtpMap[pt] = read[i].map.name

\* The first audio line of the session is the first that was read.
AudioInv ==
  \/ Audio = {} /\ AudioLines(session) = {}
  \/ \E i \in Audio, k \in AudioLines(session) :
       /\ \A j \in Audio : i <= j
       /\ \A l \in AudioLines(session) : k <= l
       /\ session.media[k] = read[i].media

OfferInv == ReadTypes /\ MapInv /\ AudioInv /\ AnswerIsBestOffered

-----------------------------------------------------------------------------
(* Least and greatest numbers, and the numbers up to one.                  *)

\* A set of numbers that is not empty has a least one.
LEMMA LeastExists ==
  ASSUME NEW S \in SUBSET Nat, S # {}
  PROVE  \E n \in S : \A m \in S : n <= m
<1> DEFINE Less == {p \in Nat \X Nat : p[1] < p[2]}
<1>1. IsWellFoundedOn(Less, Nat)
  BY NatLessThanWellFounded DEF OpToRel
<1> HIDE DEF Less
<1>2. PICK n \in S : \A m \in S : ~(<<m, n>> \in Less)
  BY <1>1, WFMin
<1>3. ASSUME NEW m \in S, m < n  PROVE FALSE
  <2>1. <<m, n>> \in Less
    BY <1>3 DEF Less
  <2> QED  BY <1>2, <2>1
<1> QED  BY <1>3

\* Min is the number that is least.
LEMMA MinIs ==
  ASSUME NEW S \in SUBSET Nat, NEW n \in S, \A m \in S : n <= m
  PROVE  Min(S) = n
<1>1. \A k \in S : (\A m \in S : k <= m) => k = n
  OBVIOUS
<1> QED  BY <1>1 DEF Min

\* Max is the number that is greatest.
LEMMA MaxIs ==
  ASSUME NEW S \in SUBSET Nat, NEW n \in S, \A m \in S : m <= n
  PROVE  Max(S) = n
<1>1. \A k \in S : (\A m \in S : k >= m) => k = n
  OBVIOUS
<1> QED  BY <1>1 DEF Max

\* Min is in the set, if there is anything in it.
LEMMA MinIsLeast ==
  ASSUME NEW S \in SUBSET Nat, S # {}
  PROVE  Min(S) \in S /\ \A m \in S : Min(S) <= m
BY LeastExists, MinIs

\* Max is in the set, if it has anything and is bounded.
LEMMA MaxIsIn ==
  ASSUME NEW k \in Nat, NEW s \in SUBSET (1 .. k), s # {}
  PROVE  Max(s) \in s /\ Max(s) \in 1 .. k
<1> DEFINE Up == {m \in Nat : \A i \in s : i <= m}
<1>1. k \in Up
  OBVIOUS
<1>2. PICK m \in Up : \A j \in Up : m <= j
  BY <1>1, LeastExists
<1>3. m \in s
  <2>1. SUFFICES ASSUME m \notin s  PROVE FALSE
    OBVIOUS
  <2>2. \A i \in s : i \in 1 .. k /\ i < m
    BY <1>2, <2>1
  <2>3. m - 1 \in Nat /\ \A i \in s : i <= m - 1
    <3>1. PICK j \in s : TRUE
      OBVIOUS
    <3>2. m \in Nat /\ 1 <= j /\ j < m
      BY <2>2, <3>1
    <3> QED  BY <2>2, <3>2
  <2> QED  BY <1>2, <2>3
<1>4. Max(s) = m
  BY <1>2, <1>3, MaxIs
<1> QED  BY <1>3, <1>4

\* A set that has 0 and with each number the next has all of them up to n.
LEMMA UpTo ==
  ASSUME NEW n \in Nat, NEW S, 0 \in S, \A k \in 0 .. n : k \in S /\ k < n => k + 1 \in S
  PROVE  \A k \in 0 .. n : k \in S
<1> DEFINE Missing == {k \in 0 .. n : k \notin S}
<1>1. SUFFICES ASSUME Missing # {}  PROVE FALSE
  OBVIOUS
<1>2. PICK m \in Missing : \A k \in Missing : m <= k
  <2>1. Missing \in SUBSET Nat
    OBVIOUS
  <2> QED  BY <1>1, <2>1, LeastExists
<1>3. m # 0 /\ m - 1 \in 0 .. n /\ m - 1 \notin Missing
  BY <1>2
<1>4. (m - 1) + 1 \in S
  BY <1>3
<1> QED  BY <1>2, <1>4

-----------------------------------------------------------------------------
(* What a session and what the peer mean by a number.                      *)

\* rtpmap first, static numbers otherwise.
LEMMA NameIs ==
  ASSUME NEW s, NEW pt \in PayloadType
  PROVE  /\ s.rtpMap[pt] # Unset => NameOf(s, pt) = s.rtpMap[pt]
         /\ s.rtpMap[pt] = Unset /\ pt = 0 => NameOf(s, pt) = "PCMU"
         /\ s.rtpMap[pt] = Unset /\ pt = 8 => NameOf(s, pt) = "PCMA"
         /\ s.rtpMap[pt] = Unset /\ pt # 0 /\ pt # 8 => NameOf(s, pt) = Unset
<1>1. pt \in Int
  BY OfferAssumption
<1>2. CASE s.rtpMap[pt] # Unset
  BY <1>2 DEF NameOf
<1>3. CASE s.rtpMap[pt] = Unset /\ pt = 0
  BY <1>3 DEF NameOf
<1>4. CASE s.rtpMap[pt] = Unset /\ pt = 8
  BY <1>4 DEF NameOf
<1>5. CASE s.rtpMap[pt] = Unset /\ pt # 0 /\ pt # 8
  BY <1>5 DEF NameOf
<1> QED  BY <1>1, <1>2, <1>3, <1>4, <1>5

\* The session names a number as the peer does.
LEMMA NamesAreMeant ==
  ASSUME ReadTypes, MapInv, NEW pt \in PayloadType
  PROVE  NameOf(session, pt) = Meaning(pt)
<1>1. CASE Maps(pt) = {} /\ session.rtpMap[pt] = Unset
  <2>1. Meaning(pt) = CASE pt = 0 -> "PCMU" [] pt = 8 -> "PCMA" [] OTHER -> Unset
    BY <1>1 DEF Meaning, Maps
  <2>2. CASE pt = 0
    BY <1>1, <2>1, <2>2, NameIs
  <2>3. CASE pt = 8
    BY <1>1, <2>1, <2>3, NameIs
  <2>4. CASE pt # 0 /\ pt # 8
    BY <1>1, <2>1, <2>4, NameIs
  <2> QED  BY <2>2, <2>3, <2>4
<1>2. ASSUME NEW i \in Maps(pt), \A j \in Maps(pt) : j <= i,
             session.rtpMap[pt] = read[i].map.name
      PROVE  NameOf(session, pt) = Meaning(pt)
  <2>1. Maps(pt) \in SUBSET Nat
    BY DEF Maps, ReadTypes
  <2>2. Max(Maps(pt)) = i
    BY <1>2, <2>1, MaxIs
  <2>3. Meaning(pt) = read[i].map.name
    BY <1>2, <2>2 DEF Meaning, Maps
  <2>4. session.rtpMap[pt] # Unset
    <3>1. read[i] \in Line /\ read[i].kind = "rtpmap"
      BY <1>2 DEF Maps, ReadTypes
    <3>2. read[i].map \in RtpMap
      BY <3>1 DEF Line
    <3> QED  BY <1>2, <3>2, OfferAssumption
  <2> QED  BY <1>2, <2>3, <2>4, NameIs
<1> QED  BY <1>1, <1>2 DEF MapInv

\* The first audio line of the session is what the peer offers.
LEMMA OfferedAre ==
  ASSUME ReadTypes, AudioInv
  PROVE  /\ AudioLines(session) = {} => OfferedTypes = {}
         /\ AudioLines(session) # {} =>
              LET pts == session.media[Min(AudioLines(session))].payloadTypes
              IN  pts \in Seq(PayloadType) /\ OfferedTypes = ToSet(pts)
<1>1. CASE Audio = {} /\ AudioLines(session) = {}
  BY <1>1 DEF OfferedTypes, Audio
<1>2. ASSUME NEW i \in Audio, NEW k \in AudioLines(session),
             \A j \in Audio : i <= j, \A l \in AudioLines(session) : k <= l,
             session.media[k] = read[i].media
      PROVE  LET pts == session.media[Min(AudioLines(session))].payloadTypes
             IN  pts \in Seq(PayloadType) /\ OfferedTypes = ToSet(pts)
  <2>1. Audio \in SUBSET Nat /\ AudioLines(session) \in SUBSET Nat
    BY DEF Audio, AudioLines, ReadTypes
  <2>2. Min(Audio) = i /\ Min(AudioLines(session)) = k
    BY <1>2, <2>1, MinIs
  <2>3. OfferedTypes = ToSet(read[i].media.payloadTypes)
    BY <1>2, <2>2 DEF OfferedTypes, Audio
  <2>4. session.media[k] \in Media
    BY DEF AudioLines, ReadTypes
  <2> QED  BY <1>2, <2>2, <2>3, <2>4, OfferAssumption
<1> QED  BY <1>1, <1>2 DEF AudioInv

\* The preferences that the peer offers.
Wanted == {k \in DOMAIN Preference : \E pt \in OfferedTypes : Meaning(pt) = Preference[k]}

\* The loops end at the first preference that is offered, or find nothing if none is.
LEMMA BestIsFound ==
  ASSUME ReadTypes, MapInv, AudioInv, NEW c, c = Found(session)
  PROVE  /\ c = NoCodec => Wanted = {}
         /\ c # NoCodec => /\ c.payloadType \in OfferedTypes
                           /\ Wanted # {}
                           /\ c.name = Preference[Min(Wanted)]
                           /\ Meaning(c.payloadType) = c.name
<1>1. CASE AudioLines(session) = {}
  <2>1. c = NoCodec
    BY <1>1 DEF Found
  <2>2. Wanted = {}
    BY <1>1, OfferedAre DEF Wanted
  <2> QED  BY <2>1, <2>2
<1>2. CASE AudioLines(session) # {}
  <2> DEFINE pts == session.media[Min(AudioLines(session))].payloadTypes
             Offered(name) == {i \in DOMAIN pts : NameOf(session, pts[i]) = name}
             prefs == {k \in DOMAIN Preference : Offered(Preference[k]) # {}}
  <2>1. c = IF prefs = {} THEN NoCodec
            ELSE [payloadType |-> pts[Min(Offered(Preference[Min(prefs)]))],
                  name |-> Preference[Min(prefs)]]
    BY <1>2 DEF Found
  <2>2. pts \in Seq(PayloadType) /\ OfferedTypes = ToSet(pts)
    BY <1>2, OfferedAre
  <2> HIDE DEF pts
  <2>3. \A i \in DOMAIN pts : pts[i] \in PayloadType /\ NameOf(session, pts[i]) = Meaning(pts[i])
    BY <2>2, NamesAreMeant
  <2>4. OfferedTypes = {pts[i] : i \in DOMAIN pts}
    BY <2>2 DEF ToSet
  <2>5. prefs = Wanted
    BY <2>3, <2>4 DEF Wanted
  <2>6. CASE Wanted = {}
    BY <2>1, <2>5, <2>6
  <2>7. CASE Wanted # {}
    <3> DEFINE name == Preference[Min(Wanted)]
               n == Min(Offered(name))
    <3>1. Min(Wanted) \in Wanted
      <4>1. Wanted \in SUBSET Nat
        BY OfferAssumption DEF Wanted
      <4> QED  BY <2>7, <4>1, MinIsLeast
    <3>2. Offered(name) # {} /\ name \in STRING
      <4>1. Min(Wanted) \in prefs
        BY <2>5, <3>1
      <4> QED  BY <4>1, OfferAssumption
    <3>3. n \in Offered(name)
      <4>1. Offered(name) \in SUBSET Nat
        BY <2>2
      <4> HIDE DEF Offered
      <4> QED  BY <3>2, <4>1, MinIsLeast
    <3>4. c = [payloadType |-> pts[n], name |-> name]
      BY <2>1, <2>5, <2>7
    <3>5. n \in DOMAIN pts /\ NameOf(session, pts[n]) = name
      BY <3>3
    <3>6. c # NoCodec
      <4>1. name # Unset
        BY <3>2, OfferAssumption
      <4> HIDE DEF name, n
      <4> QED  BY <3>4, <4>1 DEF NoCodec
    <3>7. pts[n] \in OfferedTypes /\ Meaning(pts[n]) = name
      BY <2>3, <2>4, <3>5
    <3> QED  BY <2>7, <3>4, <3>6, <3>7
  <2> QED  BY <2>6, <2>7
<1> QED  BY <1>1, <1>2

\* Nothing was on offer, or the best of it under the number that stands for nothing.
NoneOrSentinel ==
  Wanted = {} \/ (Nothing \in OfferedTypes /\ Meaning(Nothing) = Preference[Min(Wanted)])

\* Negotiate picks what is found, unless its number is taken for nothing.
LEMMA BestIsPicked ==
  ASSUME ReadTypes, MapInv, AudioInv, NEW c, c = Negotiate(session)
  PROVE  /\ c = NoCodec => NoneOrSentinel
         /\ c # NoCodec => /\ c.payloadType \in OfferedTypes
                           /\ Wanted # {}
                           /\ c.name = Preference[Min(Wanted)]
                           /\ Meaning(c.payloadType) = c.name
<1>1. PICK f : f = Found(session)
  OBVIOUS
<1>2. /\ f = NoCodec => Wanted = {}
      /\ f # NoCodec => /\ f.payloadType \in OfferedTypes
                        /\ Wanted # {}
                        /\ f.name = Preference[Min(Wanted)]
                        /\ Meaning(f.payloadType) = f.name
  BY <1>1, BestIsFound
<1>3. c = IF f.payloadType = Nothing THEN NoCodec ELSE f
  BY <1>1, Zenon DEF Negotiate
<1>4. CASE f = NoCodec
  BY <1>2, <1>3, <1>4, Zenon DEF NoneOrSentinel
<1>5. CASE f # NoCodec /\ f.payloadType = Nothing
  BY <1>2, <1>3, <1>5, Zenon DEF NoneOrSentinel
<1>6. CASE f # NoCodec /\ f.payloadType # Nothing
  BY <1>2, <1>3, <1>6, Zenon
<1> QED  BY <1>4, <1>5, <1>6

-----------------------------------------------------------------------------
(* The steps of the negotiation.                                           *)

\* One line changes one part of the session.
LEMMA AfterLineIs ==
  ASSUME NEW s, NEW l \in Line
  PROVE  /\ l.kind \in {"c", "m", "rtpmap"}
         /\ l.kind = "c" => AfterLine(s, l) = [s EXCEPT !.connectionIp = l.address]
         /\ l.kind = "m" => /\ l.media \in Media
                            /\ AfterLine(s, l) = [s EXCEPT !.media = Append(@, l.media)]
         /\ l.kind = "rtpmap" =>
              /\ l.map \in RtpMap
              /\ AfterLine(s, l) = [s EXCEPT !.rtpMap[l.map.payloadType] = l.map.name]
<1>1. CASE l.kind = "c"
  BY <1>1 DEF AfterLine
<1>2. CASE l.kind = "m"
  <2>1. l.media \in Media
    BY <1>2 DEF Line
  <2> QED  BY <1>2, <2>1 DEF AfterLine
<1>3. CASE l.kind = "rtpmap"
  <2>1. l.map \in RtpMap
    BY <1>3 DEF Line
  <2> QED  BY <1>3, <2>1 DEF AfterLine
<1>4. l.kind \in {"c", "m", "rtpmap"}
  BY DEF Line
<1> QED  BY <1>1, <1>2, <1>3, <1>4

\* What ParseLine does to the lines read and to the session.
LEMMA LineIsRead ==
  ASSUME ReadTypes, ParseLine
  PROVE  \E l \in Line :
           /\ read' = Append(read, l) /\ Len(read) \in Nat
           /\ DOMAIN read = 1 .. Len(read) /\ DOMAIN read' = 1 .. Len(read) + 1
           /\ \A i \in 1 .. Len(read) : read'[i] = read[i]
           /\ read'[Len(read) + 1] = l
           /\ session' = AfterLine(session, l)
           /\ offer' \in Seq(Line) /\ read' \in Seq(Line)
<1>1. offer \in Seq(Line) /\ offer # <<>> /\ read \in Seq(Line)
  BY DEF ReadTypes, ParseLine
<1>2. Head(offer) \in Line /\ Tail(offer) \in Seq(Line)
  BY <1>1
<1> DEFINE l == Head(offer)
<1>3. read' = Append(read, l) /\ session' = AfterLine(session, l) /\ offer' = Tail(offer)
  BY DEF ParseLine
<1> HIDE DEF l
<1>4. l \in Line
  BY <1>2 DEF l
<1> QED  BY <1>1, <1>2, <1>3, <1>4

\* A line keeps the types.
LEMMA TypesKept ==
  ASSUME ReadTypes, ParseLine
  PROVE  ReadTypes'
<1>1. PICK l \in Line : /\ session' = AfterLine(session, l)
                       /\ offer' \in Seq(Line) /\ read' \in Seq(Line)
  BY LineIsRead
<1>2. CASE l.kind = "c"
  <2>1. session' = [session EXCEPT !.connectionIp = l.address]
    BY <1>1, <1>2, AfterLineIs
  <2> QED  BY <1>1, <2>1 DEF ReadTypes
<1>3. CASE l.kind = "m"
  <2>1. session' = [session EXCEPT !.media = Append(@, l.media)] /\ l.media \in Media
    BY <1>1, <1>3, AfterLineIs
  <2>2. session = [connectionIp |-> session.connectionIp, media |-> session.media,
                   rtpMap |-> session.rtpMap]
    BY DEF ReadTypes
  <2>3. /\ session'.media = Append(session.media, l.media)
        /\ session'.rtpMap = session.rtpMap
        /\ session' = [connectionIp |-> session'.connectionIp, media |-> session'.media,
                       rtpMap |-> session'.rtpMap]
    BY <2>1, <2>2
  <2>4. session'.media \in Seq(Media)
    <3>1. session.media \in Seq(Media)
      BY DEF ReadTypes
    <3> QED  BY <2>1, <2>3, <3>1
  <2> QED  BY <1>1, <2>3, <2>4 DEF ReadTypes
<1>4. CASE l.kind = "rtpmap"
  <2>1. /\ session' = [session EXCEPT !.rtpMap[l.map.payloadType] = l.map.name]
        /\ l.map.payloadType \in PayloadType /\ l.map.name \in STRING
    BY <1>1, <1>4, AfterLineIs, OfferAssumption
  <2>2. session = [connectionIp |-> session.connectionIp, media |-> session.media,
                   rtpMap |-> session.rtpMap]
    BY DEF ReadTypes
  <2>3. /\ session'.media = session.media
        /\ session'.rtpMap = [session.rtpMap EXCEPT ![l.map.payloadType] = l.map.name]
        /\ session' = [connectionIp |-> session'.connectionIp, media |-> session'.media,
                       rtpMap |-> session'.rtpMap]
    BY <2>1, <2>2
  <2>4. session'.rtpMap \in [PayloadType -> STRING \cup {Unset}]
    BY <2>1, <2>3 DEF ReadTypes
  <2> QED  BY <1>1, <2>3, <2>4 DEF ReadTypes
<1> QED  BY <1>2, <1>3, <1>4, AfterLineIs

\* A later rtpmap line of a number takes the place of the earlier ones.
LEMMA MapKept ==
  ASSUME ReadTypes, MapInv, ParseLine
  PROVE  MapInv'
<1>1. PICK l \in Line :
        /\ read' = Append(read, l) /\ Len(read) \in Nat
        /\ DOMAIN read = 1 .. Len(read) /\ DOMAIN read' = 1 .. Len(read) + 1
        /\ \A i \in 1 .. Len(read) : read'[i] = read[i]
        /\ read'[Len(read) + 1] = l
        /\ session' = AfterLine(session, l)
  BY LineIsRead
<1> DEFINE n == Len(read) + 1
<1>2. SUFFICES ASSUME NEW pt \in PayloadType
      PROVE  \/ Maps(pt)' = {} /\ session'.rtpMap[pt] = Unset
             \/ \E i \in Maps(pt)' : /\ \A j \in Maps(pt)' : j <= i
                                     /\ session'.rtpMap[pt] = read'[i].map.name
  BY DEF MapInv
<1>3. /\ \A i \in 1 .. Len(read) : i \in Maps(pt)' <=> i \in Maps(pt)
      /\ n \in Maps(pt)' <=> l.kind = "rtpmap" /\ l.map.payloadType = pt
      /\ \A i \in Maps(pt)' : i \in 1 .. Len(read) \/ i = n
      /\ \A i \in Maps(pt) : i \in 1 .. Len(read)
  BY <1>1 DEF Maps
<1>4. CASE l.kind = "rtpmap" /\ l.map.payloadType = pt
  <2>1. session'.rtpMap[pt] = l.map.name
    <3>1. session' = [session EXCEPT !.rtpMap[l.map.payloadType] = l.map.name]
      BY <1>1, <1>4, AfterLineIs
    <3> QED  BY <1>4, <3>1 DEF ReadTypes
  <2>2. n \in Maps(pt)' /\ \A j \in Maps(pt)' : j <= n
    BY <1>1, <1>3, <1>4
  <2> QED  BY <1>1, <2>1, <2>2
<1>5. CASE ~(l.kind = "rtpmap" /\ l.map.payloadType = pt)
  <2>1. session'.rtpMap[pt] = session.rtpMap[pt]
    <3>1. CASE l.kind = "c"
      BY <1>1, <3>1, AfterLineIs DEF ReadTypes
    <3>2. CASE l.kind = "m"
      BY <1>1, <3>2, AfterLineIs DEF ReadTypes
    <3>3. CASE l.kind = "rtpmap"
      <4>1. session' = [session EXCEPT !.rtpMap[l.map.payloadType] = l.map.name]
        BY <1>1, <3>3, AfterLineIs
      <4> QED  BY <1>5, <3>3, <4>1 DEF ReadTypes
    <3> QED  BY <3>1, <3>2, <3>3, AfterLineIs
  <2>2. Maps(pt)' = Maps(pt)
    BY <1>3, <1>5
  <2>3. \A i \in Maps(pt) : read'[i] = read[i]
    BY <1>1, <1>3
  <2> QED  BY <2>1, <2>2, <2>3 DEF MapInv
<1> QED  BY <1>4, <1>5

\* Later audio lines leave the first one first.
LEMMA AudioKept ==
  ASSUME ReadTypes, AudioInv, ParseLine
  PROVE  AudioInv'
<1>1. PICK l \in Line :
        /\ read' = Append(read, l) /\ Len(read) \in Nat
        /\ DOMAIN read = 1 .. Len(read) /\ DOMAIN read' = 1 .. Len(read) + 1
        /\ \A i \in 1 .. Len(read) : read'[i] = read[i]
        /\ read'[Len(read) + 1] = l
        /\ session' = AfterLine(session, l)
  BY LineIsRead
<1> DEFINE n == Len(read) + 1
<1>2. /\ \A i \in 1 .. Len(read) : i \in Audio' <=> i \in Audio
      /\ n \in Audio' <=> l.kind = "m" /\ l.media.type = "audio"
      /\ \A i \in Audio' : i \in 1 .. Len(read) \/ i = n
      /\ \A i \in Audio : i \in 1 .. Len(read)
  BY <1>1 DEF Audio
<1>3. CASE l.kind = "m"
  <2> DEFINE m == Len(session.media) + 1
  <2>1. /\ session'.media = Append(session.media, l.media) /\ session.media \in Seq(Media)
        /\ l.media \in Media
    BY <1>1, <1>3, AfterLineIs DEF ReadTypes
  <2>2. /\ Len(session.media) \in Nat /\ DOMAIN session.media = 1 .. Len(session.media)
        /\ DOMAIN session'.media = 1 .. m
        /\ \A k \in 1 .. Len(session.media) : session'.media[k] = session.media[k]
        /\ session'.media[m] = l.media
    BY <2>1
  <2>3. /\ \A k \in 1 .. Len(session.media) :
             k \in AudioLines(session)' <=> k \in AudioLines(session)
        /\ m \in AudioLines(session)' <=> l.media.type = "audio"
        /\ \A k \in AudioLines(session)' : k \in 1 .. Len(session.media) \/ k = m
        /\ \A k \in AudioLines(session) : k \in 1 .. Len(session.media)
    BY <2>2 DEF AudioLines
  <2>4. CASE Audio = {} /\ AudioLines(session) = {}
    <3>1. CASE l.media.type = "audio"
      <4>1. /\ n \in Audio' /\ m \in AudioLines(session)'
            /\ \A i \in Audio' : i = n
            /\ \A k \in AudioLines(session)' : k = m
        BY <1>2, <1>3, <2>3, <2>4, <3>1
      <4>2. session'.media[m] = read'[n].media /\ n <= n /\ m <= m
        BY <1>1, <2>2
      <4> QED  BY <4>1, <4>2 DEF AudioInv
    <3>2. CASE l.media.type # "audio"
      <4>1. Audio' = {} /\ AudioLines(session)' = {}
        BY <1>2, <2>3, <2>4, <3>2
      <4> QED  BY <4>1 DEF AudioInv
    <3> QED  BY <3>1, <3>2
  <2>5. ASSUME NEW i \in Audio, NEW k \in AudioLines(session),
               \A j \in Audio : i <= j, \A h \in AudioLines(session) : k <= h,
               session.media[k] = read[i].media
        PROVE  AudioInv'
    <3>1. i \in Audio' /\ k \in AudioLines(session)'
      BY <1>2, <2>3
    <3>2. \A j \in Audio' : i <= j
      BY <1>1, <1>2, <2>5
    <3>3. \A h \in AudioLines(session)' : k <= h
      BY <2>2, <2>3, <2>5
    <3>4. session'.media[k] = read'[i].media
      BY <1>1, <1>2, <2>2, <2>3, <2>5
    <3> QED  BY <3>1, <3>2, <3>3, <3>4 DEF AudioInv
  <2> QED  BY <2>4, <2>5 DEF AudioInv
<1>4. CASE l.kind # "m"
  <2>1. session'.media = session.media
    <3>1. CASE l.kind = "c"
      BY <1>1, <3>1, AfterLineIs DEF ReadTypes
    <3>2. CASE l.kind = "rtpmap"
      BY <1>1, <3>2, AfterLineIs DEF ReadTypes
    <3> QED  BY <1>4, <3>1, <3>2, AfterLineIs
  <2>2. AudioLines(session)' = AudioLines(session) /\ Audio' = Audio
    BY <1>2, <1>4, <2>1 DEF AudioLines
  <2>3. \A i \in Audio : read'[i] = read[i]
    BY <1>1, <1>2
  <2> QED  BY <2>1, <2>2, <2>3 DEF AudioInv
<1> QED  BY <1>3, <1>4

\* Each step of the negotiation keeps the invariant.
LEMMA NegotiationKeeps ==
  ASSUME OfferInv, [Next]_vars
  PROVE  OfferInv'
<1>1. CASE ParseLine
  <2>1. step' = "parse"
    BY <1>1 DEF ParseLine
  <2> QED  BY <1>1, <2>1, TypesKept, MapKept, AudioKept DEF OfferInv, AnswerIsBestOffered
<1>2. CASE ParseEnds
  <2>1. UNCHANGED <<offer, read, session>> /\ step' = "answer"
    BY <1>2 DEF ParseEnds
  <2> QED  BY <2>1 DEF OfferInv, ReadTypes, MapInv, Maps, AudioInv, Audio, AudioLines,
                       AnswerIsBestOffered
<1>3. CASE Answer
  <2>1. UNCHANGED <<offer, read, session>> /\ codec' = Negotiate(session)
    BY <1>3 DEF Answer
  <2>2. (step' = "accepted" => codec' # NoCodec) /\ (step' = "refused" => codec' = NoCodec)
    BY <1>3 DEF Answer
  <2>3. ReadTypes' /\ MapInv' /\ AudioInv'
    BY <2>1 DEF OfferInv, ReadTypes, MapInv, Maps, AudioInv, Audio, AudioLines
  <2>4. AnswerIsBestOffered'
    <3>1. /\ codec' = NoCodec => NoneOrSentinel
          /\ codec' # NoCodec => /\ codec'.payloadType \in OfferedTypes
                                 /\ Wanted # {}
                                 /\ codec'.name = Preference[Min(Wanted)]
                                 /\ Meaning(codec'.payloadType) = codec'.name
      BY <2>1, BestIsPicked DEF OfferInv
    <3>2. OfferedTypes' = OfferedTypes /\ Wanted' = Wanted
          /\ Meaning(codec.payloadType)' = Meaning(codec'.payloadType)
          /\ Meaning(Nothing)' = Meaning(Nothing)
      BY <2>1 DEF OfferedTypes, Wanted, Meaning
    <3> QED  BY <2>2, <3>1, <3>2 DEF AnswerIsBestOffered, Wanted, NoneOrSentinel
  <2> QED  BY <2>3, <2>4 DEF OfferInv
<1>4. CASE UNCHANGED vars
  <2>1. UNCHANGED <<offer, read, session, step, codec>>
    BY <1>4 DEF vars
  <2>2. ReadTypes' /\ MapInv' /\ AudioInv'
    BY <2>1 DEF OfferInv, ReadTypes, MapInv, Maps, AudioInv, Audio, AudioLines
  <2>3. OfferedTypes' = OfferedTypes /\ Wanted' = Wanted
        /\ Meaning(codec.payloadType)' = Meaning(codec.payloadType)
        /\ Meaning(Nothing)' = Meaning(Nothing)
    BY <2>1 DEF OfferedTypes, Wanted, Meaning
  <2>4. AnswerIsBestOffered'
    BY <2>1, <2>3 DEF OfferInv, AnswerIsBestOffered, Wanted
  <2> QED  BY <2>2, <2>4 DEF OfferInv
<1> QED  BY <1>1, <1>2, <1>3, <1>4 DEF Next

\* Nothing has been read and nothing is known.
LEMMA NothingIsKnown == NothingRead /\ offer \in Seq(Line) => OfferInv
<1> SUFFICES ASSUME NothingRead, offer \in Seq(Line)  PROVE OfferInv
  OBVIOUS
<1>1. ReadTypes
  BY DEF NothingRead, ReadTypes
<1>2. MapInv
  BY DEF NothingRead, MapInv, Maps
<1>3. AudioInv
  BY DEF NothingRead, AudioInv, Audio, AudioLines
<1>4. AnswerIsBestOffered
  BY DEF NothingRead, AnswerIsBestOffered
<1> QED  BY <1>1, <1>2, <1>3, <1>4 DEF OfferInv

-----------------------------------------------------------------------------
(* Folds and concatenations, one step after the other.                     *)

\* A step for each of n positions, and its folds over the sets of positions, from the
\* least up.
IsNext(next, State, n) == next \in [State \X (1 .. n) -> State]
IsFold(f, State, base, next, n) ==
  /\ f \in [SUBSET (1 .. n) -> State]
  /\ \A s \in SUBSET (1 .. n) :
       f[s] = IF s = {} THEN base ELSE next[<<f[s \ {Max(s)}], Max(s)>>]

\* What MapThenFoldSet chooses exists, if a step of the fold stays in a set of states.
LEMMA FoldExists ==
  ASSUME NEW State, NEW base \in State, NEW n \in Nat, NEW next, IsNext(next, State, n)
  PROVE  \E f : IsFold(f, State, base, next, n)
<1> USE DEF IsNext
<1> DEFINE Folds(f, k) ==
             \A s \in SUBSET (1 .. k) :
               f[s] = IF s = {} THEN base ELSE next[<<f[s \ {Max(s)}], Max(s)>>]
           Good == {k \in 0 .. n : \E f \in [SUBSET (1 .. k) -> State] : Folds(f, k)}
<1>1. 0 \in Good
  <2> DEFINE f == [s \in SUBSET (1 .. 0) |-> base]
  <2>1. 1 .. 0 = {}
    OBVIOUS
  <2>2. f \in [SUBSET (1 .. 0) -> State]
    OBVIOUS
  <2>3. ASSUME NEW s \in SUBSET (1 .. 0)  PROVE s = {} /\ f[s] = base
    BY <2>1
  <2>4. Folds(f, 0)
    BY <2>3
  <2> HIDE DEF f, Folds
  <2>5. \E h \in [SUBSET (1 .. 0) -> State] : Folds(h, 0)
    BY <2>2, <2>4, Zenon
  <2>6. 0 \in 0 .. n
    OBVIOUS
  <2> QED  BY <2>5, <2>6, Zenon
<1>2. ASSUME NEW k \in 0 .. n, k \in Good, k < n  PROVE k + 1 \in Good
  <2>1. PICK f \in [SUBSET (1 .. k) -> State] : Folds(f, k)
    BY <1>2
  <2> DEFINE g == [s \in SUBSET (1 .. k + 1) |->
                     IF k + 1 \in s THEN next[<<f[s \ {k + 1}], k + 1>>] ELSE f[s]]
  <2>2. ASSUME NEW s \in SUBSET (1 .. k + 1)
        PROVE  /\ k + 1 \in s => Max(s) = k + 1 /\ s \ {k + 1} \in SUBSET (1 .. k)
               /\ k + 1 \notin s => s \in SUBSET (1 .. k)
    <3>1. k + 1 \in s => Max(s) = k + 1
      BY MaxIs
    <3> QED  BY <3>1
  <2>3. ASSUME NEW s \in SUBSET (1 .. k), s # {}
        PROVE  Max(s) \in 1 .. k /\ s \ {Max(s)} \in SUBSET (1 .. k)
    <3>1. k \in Nat
      BY <1>2
    <3>2. Max(s) \in s /\ Max(s) \in 1 .. k
      BY <2>3, <3>1, MaxIsIn
    <3> QED  BY <3>2
  <2>4. g \in [SUBSET (1 .. k + 1) -> State]
    <3>1. ASSUME NEW s \in SUBSET (1 .. k + 1)
          PROVE  (IF k + 1 \in s THEN next[<<f[s \ {k + 1}], k + 1>>] ELSE f[s]) \in State
      BY <1>2, <2>2
    <3> QED  BY <3>1
  <2>5. Folds(g, k + 1)
    <3> TAKE s \in SUBSET (1 .. k + 1)
    <3>1. CASE k + 1 \in s
      <4>1. g[s \ {k + 1}] = f[s \ {k + 1}]
        BY <3>1
      <4>2. g[s] = next[<<f[s \ {k + 1}], k + 1>>]
        BY <3>1
      <4>3. s # {} /\ Max(s) = k + 1
        BY <3>1, <2>2
      <4> HIDE DEF g
      <4> QED  BY <4>1, <4>2, <4>3
    <3>2. CASE k + 1 \notin s /\ s # {}
      <4>1. s \in SUBSET (1 .. k) /\ Max(s) \in 1 .. k /\ s \ {Max(s)} \in SUBSET (1 .. k)
        BY <2>2, <2>3, <3>2
      <4>2. g[s] = f[s]
        BY <3>2
      <4>3. g[s \ {Max(s)}] = f[s \ {Max(s)}]
        BY <3>2
      <4>4. f[s] = next[<<f[s \ {Max(s)}], Max(s)>>]
        BY <2>1, <3>2, <4>1
      <4> HIDE DEF g
      <4> QED  BY <3>2, <4>2, <4>3, <4>4
    <3>3. CASE s = {}
      <4>1. g[s] = f[s] /\ f[s] = base
        BY <2>1, <3>3
      <4> QED  BY <3>3, <4>1
    <3> QED  BY <3>1, <3>2, <3>3
  <2> HIDE DEF g, Folds
  <2> QED  BY <1>2, <2>4, <2>5
<1> HIDE DEF Good
<1>3. n \in Good
  BY <1>1, <1>2, UpTo
<1> QED  BY <1>3 DEF Good, IsFold

\* So there is a sequence of states that begins anywhere and goes on step by step.
IsHistory(h, State, base, next, n) ==
  /\ h \in [0 .. n -> State]
  /\ h[0] = base
  /\ \A k \in 1 .. n : h[k] = next[<<h[k - 1], k>>]

\* A step for each of n positions can be taken n times.
LEMMA HistoryExists ==
  ASSUME NEW State, NEW base \in State, NEW n \in Nat, NEW next, IsNext(next, State, n)
  PROVE  \E h : IsHistory(h, State, base, next, n)
<1>0. PICK f : IsFold(f, State, base, next, n)
  BY FoldExists
<1>1. /\ f \in [SUBSET (1 .. n) -> State]
      /\ \A s \in SUBSET (1 .. n) :
           f[s] = IF s = {} THEN base ELSE next[<<f[s \ {Max(s)}], Max(s)>>]
  BY <1>0 DEF IsFold
<1> DEFINE h == [k \in 0 .. n |-> f[1 .. k]]
<1>2. h \in [0 .. n -> State]
  <2>1. ASSUME NEW k \in 0 .. n  PROVE f[1 .. k] \in State
    <3>1. 1 .. k \in SUBSET (1 .. n)
      OBVIOUS
    <3> QED  BY <1>1, <3>1
  <2> QED  BY <2>1
<1>3. h[0] = base
  <2>1. 1 .. 0 = {} /\ {} \in SUBSET (1 .. n) /\ 0 \in 0 .. n
    OBVIOUS
  <2>2. f[{}] = base
    BY <1>1, <2>1
  <2>3. h[0] = f[1 .. 0]
    BY <2>1
  <2> QED  BY <2>1, <2>2, <2>3
<1>4. ASSUME NEW k \in 1 .. n  PROVE h[k] = next[<<h[k - 1], k>>]
  <2>1. /\ 1 .. k \in SUBSET (1 .. n) /\ 1 .. k # {}
        /\ (1 .. k) \ {k} = 1 .. k - 1
    OBVIOUS
  <2>2. Max(1 .. k) = k
    BY MaxIs
  <2>3. h[k] = f[1 .. k] /\ h[k - 1] = f[1 .. k - 1]
    OBVIOUS
  <2> QED  BY <1>1, <2>1, <2>2, <2>3
<1> HIDE DEF h
<1> QED  BY <1>2, <1>3, <1>4 DEF IsHistory

\* FlattenSeq is where the concatenations of the first sequences end.
LEMMA FlattenSteps ==
  ASSUME NEW X, NEW seqs \in Seq(Seq(X))
  PROVE  \E h \in [0 .. Len(seqs) -> Seq(X)] :
           /\ h[0] = <<>>
           /\ \A k \in 1 .. Len(seqs) : h[k] = h[k - 1] \o seqs[k]
           /\ FlattenSeq(seqs) = h[Len(seqs)]
<1> DEFINE n == Len(seqs)
           next == [a \in Seq(X) \X (1 .. n) |-> a[1] \o seqs[a[2]]]
<1>1. n \in Nat /\ \A k \in 1 .. n : seqs[k] \in Seq(X)
  OBVIOUS
<1>2. next \in [Seq(X) \X (1 .. n) -> Seq(X)]
  <2>1. ASSUME NEW a \in Seq(X) \X (1 .. n)  PROVE a[1] \o seqs[a[2]] \in Seq(X)
    <3>1. a[1] \in Seq(X) /\ seqs[a[2]] \in Seq(X)
      BY <1>1
    <3> HIDE DEF n
    <3> QED  BY <3>1, ConcatProperties
  <2> QED  BY <2>1
<1>3. <<>> \in Seq(X)
  OBVIOUS
<1> HIDE DEF next, n
<1>8. PICK h : IsHistory(h, Seq(X), <<>>, next, n)
  BY <1>1, <1>2, <1>3, HistoryExists DEF IsNext
<1>4. /\ h \in [0 .. n -> Seq(X)] /\ h[0] = <<>>
      /\ \A k \in 1 .. n : h[k] = next[<<h[k - 1], k>>]
  BY <1>8 DEF IsHistory
<1>5. ASSUME NEW k \in 1 .. n  PROVE h[k] = h[k - 1] \o seqs[k]
  <2>1. <<h[k - 1], k>> \in Seq(X) \X (1 .. n)
    BY <1>1, <1>4
  <2>2. next[<<h[k - 1], k>>] = h[k - 1] \o seqs[k]
    BY <2>1 DEF next
  <2> QED  BY <1>4, <2>2
<1>6. CASE n = 0
  <2>1. seqs = <<>>
    BY <1>6 DEF n
  <2>2. FlattenSeq(seqs) = seqs
    BY <1>6 DEF FlattenSeq, n
  <2> QED  BY <1>4, <1>5, <1>6, <2>1, <2>2 DEF n
<1>7. CASE n # 0
  <2> DEFINE G(g) == [i \in 1 .. n |-> IF i = 1 THEN seqs[i] ELSE g[i - 1] \o seqs[i]]
             f == [i \in 1 .. n |-> h[i]]
             flat == CHOOSE g : g = G(g)
  <2>1. FlattenSeq(seqs) = flat[n]
    BY <1>7 DEF FlattenSeq, n
  <2>2. f = G(f)
    <3>1. ASSUME NEW i \in 1 .. n
          PROVE  f[i] = IF i = 1 THEN seqs[i] ELSE f[i - 1] \o seqs[i]
      <4>1. CASE i = 1
        <5>1. f[i] = h[i] /\ h[i] = h[i - 1] \o seqs[i]
          BY <1>5
        <5>2. h[i - 1] = <<>>
          BY <1>4, <4>1
        <5>3. <<>> \o seqs[i] = seqs[i]
          BY <1>1, ConcatEmptySeq
        <5> QED  BY <4>1, <5>1, <5>2, <5>3
      <4>2. CASE i # 1
        <5>1. f[i] = h[i] /\ f[i - 1] = h[i - 1]
          BY <1>1, <4>2
        <5> QED  BY <1>5, <4>2, <5>1
      <4> QED  BY <4>1, <4>2
    <3>2. f = [i \in 1 .. n |-> f[i]]
      OBVIOUS
    <3> HIDE DEF f
    <3> QED  BY <3>1, <3>2
  <2> HIDE DEF G
  <2>3. flat = G(flat)
    BY <2>2
  <2> HIDE DEF flat
  <2>4. ASSUME NEW i \in 1 .. n
        PROVE  flat[i] = IF i = 1 THEN seqs[i] ELSE flat[i - 1] \o seqs[i]
    BY <2>3 DEF G
  <2> DEFINE Same == {k \in 0 .. n : k = 0 \/ flat[k] = h[k]}
  <2>5. ASSUME NEW k \in 0 .. n, k \in Same, k < n  PROVE k + 1 \in Same
    <3>1. k + 1 \in 1 .. n /\ k + 1 \in 0 .. n
      BY <1>1, <2>5
    <3>0. (k + 1) - 1 = k
      BY <2>5
    <3>2. CASE k = 0
      <4>1. flat[k + 1] = seqs[k + 1]
        BY <2>4, <3>1, <3>2
      <4>2. h[k + 1] = h[k] \o seqs[k + 1]
        BY <1>5, <3>0, <3>1, Zenon
      <4>3. h[k] = <<>> /\ <<>> \o seqs[k + 1] = seqs[k + 1]
        BY <1>1, <1>4, <3>1, <3>2, ConcatEmptySeq
      <4>4. flat[k + 1] = h[k + 1]
        BY <4>1, <4>2, <4>3, Zenon
      <4> QED  BY <3>1, <4>4
    <3>3. CASE k # 0
      <4>1. flat[k] = h[k]
        BY <2>5, <3>3
      <4>2. h[k + 1] = h[k] \o seqs[k + 1]
        BY <1>5, <3>0, <3>1, Zenon
      <4>3. k + 1 # 1
        BY <2>5, <3>3
      <4>4. flat[k + 1] = flat[k] \o seqs[k + 1]
        BY <2>4, <3>0, <3>1, <4>3, Zenon
      <4>5. flat[k + 1] = h[k + 1]
        BY <4>1, <4>2, <4>4, Zenon
      <4> QED  BY <3>1, <4>5
    <3> QED  BY <3>2, <3>3
  <2>6. 0 \in Same
    BY <1>1
  <2> HIDE DEF Same
  <2>7. n \in Same
    <3>1. \A k \in 0 .. n : k \in Same
      BY <1>1, <2>5, <2>6, UpTo
    <3> QED  BY <1>1, <3>1
  <2>8. flat[n] = h[n]
    BY <1>7, <2>7 DEF Same
  <2>9. FlattenSeq(seqs) = h[n]
    BY <2>1, <2>8
  <2> QED  BY <1>4, <1>5, <2>9 DEF n
<1> QED  BY <1>6, <1>7

-----------------------------------------------------------------------------
(* SipParser::parse, line by line.                                         *)

\* The states of the parser.
Parsing == [headers : [HeaderName -> Seq(Seq(Part))], lastName : HeaderName, contentLength : Int]
Unparsed == [headers |-> NoHeaders, lastName |-> "", contentLength |-> 0]

\* The parser goes from p to q over the lines.
Reads(p, lines, q) ==
  \E h \in [0 .. Len(lines) -> Parsing] :
    /\ h[0] = p
    /\ \A k \in 1 .. Len(lines) : h[k] = ReadLine(h[k - 1], lines[k])
    /\ h[Len(lines)] = q

\* The three kinds of header lines.
LEMMA HeadLineIs ==
  ASSUME NEW line \in HeadLine
  PROVE  \/ line.kind = "header" /\ line.name \in HeaderName /\ line.value \in Seq(Part)
         \/ line.kind = "fold" /\ line.value \in Seq(Part)
         \/ line.kind = "noise"
<1>1. \A l \in [kind : {"header"}, name : HeaderName, value : Seq(Part)] :
        l.kind = "header" /\ l.name \in HeaderName /\ l.value \in Seq(Part)
  OBVIOUS
<1>2. \A l \in [kind : {"fold"}, value : Seq(Part)] : l.kind = "fold" /\ l.value \in Seq(Part)
  OBVIOUS
<1>3. \A l \in [kind : {"noise"}] : l.kind = "noise"
  OBVIOUS
<1> QED  BY <1>1, <1>2, <1>3, Zenon DEF HeadLine

\* The fields of a parser's state.
LEMMA ParsingIs ==
  ASSUME NEW p \in Parsing
  PROVE  /\ p = [headers |-> p.headers, lastName |-> p.lastName, contentLength |-> p.contentLength]
         /\ p.headers \in [HeaderName -> Seq(Seq(Part))]
         /\ p.lastName \in HeaderName /\ p.contentLength \in Int
BY DEF Parsing

\* The three kinds of lines.
LEMMA ReadHeader ==
  ASSUME NEW p \in Parsing, NEW line \in HeadLine, line.kind = "header"
  PROVE  /\ line.name \in HeaderName
         /\ line.value \in Seq(Part)
         /\ ReadLine(p, line) =
              [headers |-> [p.headers EXCEPT ![line.name] = Append(@, line.value)],
               lastName |-> line.name,
               contentLength |-> IF line.name = "content-length" THEN NumberIn(line.value)
                                 ELSE p.contentLength]
<1>1. line.name \in HeaderName /\ line.value \in Seq(Part)
  BY HeadLineIs
<1> QED  BY <1>1 DEF ReadLine, AddHeader

\* A line more of the first of the values.
Continued(values, text) == [values EXCEPT ![1] = @ \o text]

\* A folded line goes to the first value of the last name.
LEMMA ReadFold ==
  ASSUME NEW p \in Parsing, NEW line \in HeadLine, line.kind = "fold", p.lastName # ""
  PROVE  /\ line.value \in Seq(Part)
         /\ ReadLine(p, line) =
              [p EXCEPT !.headers =
                 [@ EXCEPT ![p.lastName] = Continued(p.headers[p.lastName], line.value)]]
<1>1. line.value \in Seq(Part)
  BY HeadLineIs
<1>2. ReadLine(p, line) = [p EXCEPT !.headers[p.lastName][1] = @ \o line.value]
  BY DEF ReadLine
<1> QED  BY <1>1, <1>2, Zenon DEF Continued

\* Noise, and a folded line before any header, change nothing.
LEMMA ReadOther ==
  ASSUME NEW p, NEW line, line.kind # "header", line.kind = "fold" => p.lastName = ""
  PROVE  ReadLine(p, line) = p
BY DEF ReadLine

\* A length is a number, whatever the value.
LEMMA NumberType ==
  ASSUME NEW value \in Seq(Part)
  PROVE  NumberIn(value) \in Int
<1>1. \A q \in Part : q.param = "number" => q.val \in Int
  BY DEF Part
<1>2. value # <<>> => Head(value) \in Part
  OBVIOUS
<1> QED  BY <1>1, <1>2 DEF NumberIn

\* A line leaves the parser in one of its states.
LEMMA ReadLineType ==
  ASSUME NEW p \in Parsing, NEW line \in HeadLine
  PROVE  ReadLine(p, line) \in Parsing
<1>0. /\ p.headers \in [HeaderName -> Seq(Seq(Part))]
      /\ p.lastName \in HeaderName /\ p.contentLength \in Int
  BY ParsingIs
<1>1. CASE line.kind = "header"
  <2>1. line.name \in HeaderName /\ line.value \in Seq(Part)
    BY <1>1, ReadHeader
  <2>2. Append(p.headers[line.name], line.value) \in Seq(Seq(Part))
    BY <1>0, <2>1
  <2>3. [p.headers EXCEPT ![line.name] = Append(@, line.value)] \in [HeaderName -> Seq(Seq(Part))]
    BY <1>0, <2>2
  <2>4. (IF line.name = "content-length" THEN NumberIn(line.value) ELSE p.contentLength) \in Int
    BY <1>0, <2>1, NumberType
  <2>5. ReadLine(p, line) =
              [headers |-> [p.headers EXCEPT ![line.name] = Append(@, line.value)],
               lastName |-> line.name,
               contentLength |-> IF line.name = "content-length" THEN NumberIn(line.value)
                                 ELSE p.contentLength]
    BY <1>1, ReadHeader
  <2> QED  BY <2>1, <2>3, <2>4, <2>5 DEF Parsing
<1>2. CASE line.kind = "fold" /\ p.lastName # ""
  <2>1. line.value \in Seq(Part)
    BY <1>2, ReadFold
  <2> DEFINE vs == p.headers[p.lastName]
             ws == Continued(vs, line.value)
  <2>2. vs \in Seq(Seq(Part))
    BY <1>0
  <2> HIDE DEF vs
  <2>3. ws \in Seq(Seq(Part))
    <3>0. DOMAIN vs = 1 .. Len(vs)
      BY <2>2
    <3>1. DOMAIN ws = 1 .. Len(vs) /\ Len(vs) \in Nat
      BY <2>2 DEF Continued
    <3>2. ASSUME NEW i \in 1 .. Len(vs)  PROVE ws[i] \in Seq(Part)
      <4>1. vs[i] \in Seq(Part)
        BY <2>2
      <4>2. i = 1 => ws[i] = vs[i] \o line.value
        BY <3>0, Zenon DEF Continued
      <4>3. i # 1 => ws[i] = vs[i]
        BY <2>2 DEF Continued
      <4>4. vs[i] \o line.value \in Seq(Part)
        BY <2>1, <4>1, ConcatProperties
      <4> QED  BY <4>1, <4>2, <4>3, <4>4
    <3>3. ws = [i \in 1 .. Len(vs) |-> ws[i]]
      BY <2>2, <3>1 DEF Continued
    <3> HIDE DEF ws
    <3>4. [i \in 1 .. Len(vs) |-> ws[i]] \in [1 .. Len(vs) -> Seq(Part)]
      BY <3>2
    <3> QED  BY <3>1, <3>3, <3>4, SeqDef
  <2> HIDE DEF ws
  <2> DEFINE hs == [p.headers EXCEPT ![p.lastName] = ws]
  <2>4. hs \in [HeaderName -> Seq(Seq(Part))]
    BY <1>0, <2>3
  <2>5. ReadLine(p, line) = [p EXCEPT !.headers = hs]
    BY <1>2, ReadFold, Zenon DEF ws, vs
  <2> HIDE DEF hs
  <2> QED  BY <2>4, <2>5 DEF Parsing
<1>3. CASE line.kind # "header" /\ (line.kind = "fold" => p.lastName = "")
  BY <1>3, ReadOther
<1> QED  BY <1>1, <1>2, <1>3

\* The parser gets through any lines ...
LEMMA ReadExists ==
  ASSUME NEW p \in Parsing, NEW lines \in Seq(HeadLine)
  PROVE  \E q \in Parsing : Reads(p, lines, q)
<1> DEFINE n == Len(lines)
           next == [a \in Parsing \X (1 .. n) |-> ReadLine(a[1], lines[a[2]])]
<1>1. n \in Nat /\ \A k \in 1 .. n : lines[k] \in HeadLine
  OBVIOUS
<1> HIDE DEF n
<1>2. IsNext(next, Parsing, n)
  BY <1>1, ReadLineType DEF IsNext
<1>3. PICK h : IsHistory(h, Parsing, p, next, n)
  <2> HIDE DEF next
  <2> QED  BY <1>1, <1>2, HistoryExists
<1>4. ASSUME NEW k \in 1 .. n  PROVE h[k] = ReadLine(h[k - 1], lines[k])
  <2>1. <<h[k - 1], k>> \in Parsing \X (1 .. n)
    BY <1>1, <1>3 DEF IsHistory
  <2>2. next[<<h[k - 1], k>>] = ReadLine(h[k - 1], lines[k])
    BY <2>1
  <2> HIDE DEF next
  <2> QED  BY <1>3, <2>2 DEF IsHistory
<1>5. h \in [0 .. n -> Parsing] /\ h[0] = p /\ h[n] \in Parsing
  BY <1>1, <1>3 DEF IsHistory
<1> QED  BY <1>4, <1>5 DEF Reads, n

\* ... and where it gets is what the fold is.
LEMMA FoldIsRead ==
  ASSUME NEW p \in Parsing, NEW lines \in Seq(HeadLine), NEW q, Reads(p, lines, q)
  PROVE  FoldLeft(ReadLine, p, lines) = q
<1> DEFINE n == Len(lines)
           next == [a \in Parsing \X (1 .. n) |-> ReadLine(a[1], lines[a[2]])]
           G(g) == [s \in SUBSET (DOMAIN lines) |->
                      IF s = {} THEN p ELSE ReadLine(g[s \ {Max(s)}], lines[Max(s)])]
           fold == CHOOSE g : g = G(g)
<1>1. n \in Nat /\ DOMAIN lines = 1 .. n /\ \A k \in 1 .. n : lines[k] \in HeadLine
  OBVIOUS
<1>2. FoldLeft(ReadLine, p, lines) = fold[1 .. n]
  BY <1>1 DEF FoldLeft, MapThenFoldSet
<1> HIDE DEF n
<1>3. IsNext(next, Parsing, n)
  BY <1>1, ReadLineType DEF IsNext
<1>4. PICK f : IsFold(f, Parsing, p, next, n)
  <2> HIDE DEF next
  <2> QED  BY <1>1, <1>3, FoldExists
<1>5. ASSUME NEW s \in SUBSET (1 .. n), s # {}
      PROVE  f[s] = ReadLine(f[s \ {Max(s)}], lines[Max(s)])
  <2>1. Max(s) \in 1 .. n
    BY <1>1, <1>5, MaxIsIn
  <2>2. <<f[s \ {Max(s)}], Max(s)>> \in Parsing \X (1 .. n)
    BY <1>4, <2>1 DEF IsFold
  <2>3. next[<<f[s \ {Max(s)}], Max(s)>>] = ReadLine(f[s \ {Max(s)}], lines[Max(s)])
    BY <2>2
  <2> HIDE DEF next
  <2> QED  BY <1>4, <1>5, <2>3 DEF IsFold
<1>6. f = G(f)
  <2>1. f = [s \in SUBSET (1 .. n) |-> f[s]] /\ f[{}] = p
    BY <1>4 DEF IsFold
  <2> QED  BY <1>1, <1>5, <2>1
<1>7. fold = G(fold)
  <2> HIDE DEF G
  <2> QED  BY <1>6
<1> HIDE DEF fold
<1>8. ASSUME NEW s \in SUBSET (1 .. n)
      PROVE  fold[s] = IF s = {} THEN p ELSE ReadLine(fold[s \ {Max(s)}], lines[Max(s)])
  BY <1>1, <1>7
<1>9. PICK h \in [0 .. n -> Parsing] :
        h[0] = p /\ (\A k \in 1 .. n : h[k] = ReadLine(h[k - 1], lines[k])) /\ h[n] = q
  BY DEF Reads, n
<1> DEFINE Same == {k \in 0 .. n : fold[1 .. k] = h[k]}
<1>10. 0 \in Same
  <2>1. 1 .. 0 = {} /\ {} \in SUBSET (1 .. n) /\ 0 \in 0 .. n
    BY <1>1
  <2>2. fold[{}] = p
    BY <1>8, <2>1
  <2> QED  BY <1>9, <2>1, <2>2
<1>11. ASSUME NEW k \in 0 .. n, k \in Same, k < n  PROVE k + 1 \in Same
  <2>1. /\ 1 .. k + 1 \in SUBSET (1 .. n) /\ 1 .. k + 1 # {}
        /\ (1 .. k + 1) \ {k + 1} = 1 .. k
        /\ k + 1 \in 1 .. n /\ k + 1 \in 0 .. n /\ (k + 1) - 1 = k
    BY <1>1, <1>11
  <2>2. Max(1 .. k + 1) = k + 1
    BY <1>1, MaxIs
  <2>3. fold[1 .. k + 1] = ReadLine(fold[1 .. k], lines[k + 1])
    BY <1>8, <2>1, <2>2
  <2>4. h[k + 1] = ReadLine(h[k], lines[k + 1])
    BY <1>9, <2>1
  <2> QED  BY <1>11, <2>1, <2>3, <2>4
<1> HIDE DEF Same
<1>12. \A k \in 0 .. n : k \in Same
  BY <1>1, <1>10, <1>11, UpTo
<1>13. fold[1 .. n] = h[n]
  BY <1>1, <1>12 DEF Same
<1> QED  BY <1>2, <1>9, <1>13

\* Each name stands in the order of names once.
LEMMA NameOrderIs ==
  /\ Len(NameOrder) = 10 /\ DOMAIN NameOrder = 1 .. 10
  /\ \A i \in 1 .. 10 : NameOrder[i] \in HeaderName
  /\ \A name \in HeaderName : \E i \in 1 .. 10 : NameOrder[i] = name
  /\ \A i, j \in 1 .. 10 : NameOrder[i] = NameOrder[j] => i = j
<1>1. Len(NameOrder) = 10 /\ DOMAIN NameOrder = 1 .. 10
  BY DEF NameOrder
<1>2. HeaderName = {NameOrder[i] : i \in 1 .. 10}
  BY <1>1, Zenon DEF HeaderName, ToSet
<1>3. /\ NameOrder[1] = "" /\ NameOrder[2] = "call-id" /\ NameOrder[3] = "contact"
      /\ NameOrder[4] = "content-length" /\ NameOrder[5] = "content-type"
      /\ NameOrder[6] = "cseq" /\ NameOrder[7] = "from" /\ NameOrder[8] = "to"
      /\ NameOrder[9] = "user-agent" /\ NameOrder[10] = "via"
  BY DEF NameOrder
<1>4. \A i \in 1 .. 10 : i = 1 \/ i = 2 \/ i = 3 \/ i = 4 \/ i = 5 \/ i = 6 \/ i = 7
                         \/ i = 8 \/ i = 9 \/ i = 10
  OBVIOUS
<1>5. \A i, j \in 1 .. 10 : NameOrder[i] = NameOrder[j] => i = j
  <2> TAKE i, j \in 1 .. 10
  <2>1. NameOrder[i] # NameOrder[j] \/ i = j
    BY <1>3, <1>4, ZenonT(40)
  <2> QED  BY <2>1
<1> QED  BY <1>1, <1>2, <1>5

\* The parser begins with no headers.
LEMMA UnparsedIs == Unparsed \in Parsing /\ \A name \in HeaderName : Unparsed.headers[name] = <<>>
<1>1. "" \in HeaderName
  <2>1. NameOrder[1] = "" /\ 1 \in 1 .. 10
    BY DEF NameOrder
  <2> QED  BY <2>1, NameOrderIs
<1>2. NoHeaders \in [HeaderName -> Seq(Seq(Part))]
  BY DEF NoHeaders
<1>3. \A name \in HeaderName : NoHeaders[name] = <<>>
  BY DEF NoHeaders
<1>4. Unparsed.headers = NoHeaders
  BY DEF Unparsed
<1>5. Unparsed \in Parsing
  <2> DEFINE A == [HeaderName -> Seq(Seq(Part))]
  <2>1. NoHeaders \in A
    BY <1>2
  <2> HIDE DEF A
  <2>2. \A h \in A, e \in HeaderName : [headers |-> h, lastName |-> e, contentLength |-> 0]
                   \in [headers : A, lastName : HeaderName, contentLength : Int]
    OBVIOUS
  <2>3. Unparsed \in [headers : A, lastName : HeaderName, contentLength : Int]
    BY <1>1, <2>1, <2>2, Zenon DEF Unparsed
  <2> QED  BY <2>3, Zenon DEF Parsing, A
<1> QED  BY <1>3, <1>4, <1>5, Zenon

\* What parse returns has the headers and the length that were read.
LEMMA ParseIs ==
  ASSUME NEW d, d.lines \in Seq(HeadLine), NEW p, Reads(Unparsed, d.lines, p),
         NEW m, m = Parse(d)
  PROVE  /\ d.first.kind \in {"request", "response"} =>
              m.headers = p.headers /\ m.body = Body(d.body, p.contentLength)
         /\ d.first.kind = "request" =>
              m.isRequest = TRUE /\ m.method = d.first.method /\ m.statusCode = 0
         /\ d.first.kind = "response" =>
              m.isRequest = FALSE /\ m.statusCode = d.first.code
         /\ d.first.kind = "malformed" => m = NoMessage
<1>1. FoldLeft(ReadLine, Unparsed, d.lines) = p
  BY UnparsedIs, FoldIsRead
<1> DEFINE Message(isRequest, method, statusCode) ==
             [isRequest |-> isRequest, method |-> method, statusCode |-> statusCode,
              headers |-> p.headers, body |-> Body(d.body, p.contentLength)]
<1>2. m = CASE d.first.kind = "request" -> Message(TRUE, d.first.method, 0)
            [] d.first.kind = "response" -> Message(FALSE, "", d.first.code)
            [] d.first.kind = "malformed" -> NoMessage
  BY <1>1, Zenon DEF Parse, Unparsed
<1> HIDE DEF Message
<1>4. CASE d.first.kind = "request"
  <2>1. m = Message(TRUE, d.first.method, 0)
    BY <1>2, <1>4
  <2>2. /\ m.isRequest = TRUE /\ m.method = d.first.method /\ m.statusCode = 0
        /\ m.headers = p.headers /\ m.body = Body(d.body, p.contentLength)
    BY <2>1 DEF Message
  <2>3. d.first.kind # "response" /\ d.first.kind # "malformed"
    BY <1>4
  <2> QED  BY <2>2, <2>3, Zenon
<1>5. CASE d.first.kind = "response"
  <2>0. m = Message(FALSE, "", d.first.code)
    BY <1>2, <1>5
  <2>1. PICK none : m = Message(FALSE, none, d.first.code)
    BY <2>0, Zenon
  <2>2. /\ m.isRequest = FALSE /\ m.statusCode = d.first.code
        /\ m.headers = p.headers /\ m.body = Body(d.body, p.contentLength)
    BY <2>1 DEF Message
  <2>3. d.first.kind # "request" /\ d.first.kind # "malformed"
    BY <1>5
  <2> QED  BY <2>2, <2>3, Zenon
<1>6. CASE d.first.kind = "malformed"
  BY <1>2, <1>6
<1> QED  BY <1>4, <1>5, <1>6

\* The body of a datagram is cut off where Content-Length says.
LEMMA BodyIs ==
  ASSUME NEW L, NEW lines \in Seq(L), NEW n \in Int
  PROVE  /\ Body(lines, n) \in Seq(L)
         /\ IsPrefix(Body(lines, n), lines)
         /\ n = Len(lines) => Body(lines, n) = lines
<1> DEFINE k == IF n < Len(lines) THEN n ELSE Len(lines)
<1>1. Body(lines, n) = SubSeq(lines, 1, k) /\ k \in Int /\ k <= Len(lines) /\ Len(lines) \in Nat
  BY DEF Body
<1> HIDE DEF k
<1>2. CASE k < 1
  <2>1. Body(lines, n) = <<>> /\ SubSeq(lines, 1, 0) = <<>> /\ Len(<<>>) = 0
    BY <1>1, <1>2, SubSeqEmpty
  <2>2. SubSeq(<<>>, 1, 0) = <<>>
    BY SubSeqEmpty
  <2>3. IsPrefix(<<>>, lines)
    BY <1>1, <2>1, <2>2 DEF IsPrefix
  <2>4. n = Len(lines) => lines = <<>>
    BY <1>1, <1>2 DEF k
  <2> QED  BY <2>1, <2>3, <2>4
<1>3. CASE k >= 1
  <2>1. k \in 1 .. Len(lines)
    BY <1>1, <1>3
  <2> DEFINE b == SubSeq(lines, 1, k)
  <2>2. b \in Seq(L) /\ Len(b) = k
    BY <1>1, <2>1
  <2>3. SubSeq(b, 1, Len(b)) = b
    BY <2>2, SubSeqFull
  <2>4. IsPrefix(b, lines)
    BY <1>1, <2>2, <2>3 DEF IsPrefix
  <2>5. n = Len(lines) => b = lines
    BY <1>1, SubSeqFull DEF k
  <2> QED  BY <1>1, <2>2, <2>4, <2>5
<1> QED  BY <1>1, <1>2, <1>3

\* Only a Content-Length line sets the length.
LEMMA ReadLength ==
  ASSUME NEW p \in Parsing, NEW line \in HeadLine
  PROVE  ReadLine(p, line).contentLength =
           IF line.kind = "header" /\ line.name = "content-length"
             THEN NumberIn(line.value) ELSE p.contentLength
<1>1. CASE line.kind = "header"
  <2> DEFINE hs == [p.headers EXCEPT ![line.name] = Append(@, line.value)]
             c == IF line.name = "content-length" THEN NumberIn(line.value) ELSE p.contentLength
             r == ReadLine(p, line)
  <2>1. r = [headers |-> hs, lastName |-> line.name, contentLength |-> c]
    BY <1>1, ReadHeader, Zenon
  <2> HIDE DEF hs, c, r
  <2>2. r.contentLength = c
    BY <2>1
  <2> QED  BY <1>1, <2>2, Zenon DEF r, c
<1>2. CASE line.kind = "fold" /\ p.lastName # ""
  <2> DEFINE hs == [p.headers EXCEPT ![p.lastName] = Continued(p.headers[p.lastName], line.value)]
  <2>1. ReadLine(p, line) = [p EXCEPT !.headers = hs]
    BY <1>2, ReadFold, Zenon
  <2> HIDE DEF hs
  <2>2. [p EXCEPT !.headers = hs].contentLength = p.contentLength
    BY DEF Parsing
  <2>3. line.kind # "header"
    BY <1>2
  <2> QED  BY <2>1, <2>2, <2>3, Zenon
<1>3. CASE line.kind # "header" /\ (line.kind = "fold" => p.lastName = "")
  BY <1>3, ReadOther, Zenon
<1> QED  BY <1>1, <1>2, <1>3

\* A number is read as it was written.
LEMMA NumberInNumber ==
  ASSUME NEW n \in Nat
  PROVE  NumberIn(Number(n)) = n
<1> DEFINE part == [param |-> "number", val |-> n]
<1>1. part.param = "number" /\ part.val = n
  OBVIOUS
<1>2. Number(n) = <<part>>
  BY DEF Number
<1> HIDE DEF part
<1>3. <<part>> # <<>> /\ Head(<<part>>) = part
  OBVIOUS
<1> QED  BY <1>1, <1>2, <1>3, Zenon DEF NumberIn

\* A Content-Length is read wherever it stands, and no other line sets the length.
LEMMA LengthIsRead ==
  ASSUME datagram \in Datagram(Line), LengthIsRight, NEW p, Reads(Unparsed, datagram.lines, p)
  PROVE  p.contentLength = Len(datagram.body)
<1> DEFINE n == Len(datagram.lines)
<1>1. /\ n \in Nat /\ \A k \in 1 .. n : datagram.lines[k] \in HeadLine
      /\ DOMAIN datagram.lines = 1 .. n /\ Len(datagram.body) \in Nat
  BY DEF Datagram
<1>2. PICK h : /\ h \in [0 .. n -> Parsing] /\ h[0] = Unparsed /\ h[n] = p
               /\ \A k \in 1 .. n : h[k] = ReadLine(h[k - 1], datagram.lines[k])
  BY Zenon DEF Reads
<1> HIDE DEF n
<1>3. PICK i : /\ i \in 1 .. n /\ HeaderAt(i, "content-length")
               /\ datagram.lines[i].value = Number(Len(datagram.body))
               /\ \A j \in 1 .. n : HeaderAt(j, "content-length") => j = i
  BY <1>1 DEF LengthIsRight
<1> DEFINE Good == {k \in 0 .. n : h[k].contentLength = IF k < i THEN 0 ELSE Len(datagram.body)}
<1>4. 0 \in Good
  <2>1. Unparsed.contentLength = 0
    BY DEF Unparsed
  <2>2. 0 \in 0 .. n /\ 0 < i
    BY <1>1, <1>3
  <2> QED  BY <1>2, <2>1, <2>2
<1>5. ASSUME NEW k \in 0 .. n, k \in Good, k < n  PROVE k + 1 \in Good
  <2>1. k + 1 \in 1 .. n /\ k + 1 \in 0 .. n /\ (k + 1) - 1 = k
    BY <1>1, <1>5
  <2> DEFINE line == datagram.lines[k + 1]
  <2>2. h[k + 1] = ReadLine(h[k], line) /\ h[k] \in Parsing /\ line \in HeadLine
    BY <1>1, <1>2, <1>5, <2>1
  <2>3. h[k + 1].contentLength = IF line.kind = "header" /\ line.name = "content-length"
                                   THEN NumberIn(line.value) ELSE h[k].contentLength
    <3> HIDE DEF line
    <3> QED  BY <2>2, ReadLength, Zenon
  <2>4. (line.kind = "header" /\ line.name = "content-length") <=> HeaderAt(k + 1, "content-length")
    BY DEF HeaderAt
  <2>5. CASE k + 1 = i
    <3>1. h[k + 1].contentLength = Len(datagram.body)
      BY <1>1, <1>3, <2>3, <2>4, <2>5, NumberInNumber
    <3>2. ~(k + 1 < i)
      BY <2>1, <2>5
    <3> QED  BY <2>1, <3>1, <3>2
  <2>6. CASE k + 1 # i
    <3>1. h[k + 1].contentLength = h[k].contentLength
      BY <1>3, <2>1, <2>3, <2>4, <2>6, Zenon
    <3>2. k + 1 < i <=> k < i
      BY <1>3, <1>5, <2>6
    <3> QED  BY <1>5, <2>1, <3>1, <3>2
  <2> QED  BY <2>5, <2>6
<1> HIDE DEF Good
<1>6. n \in Good
  <2>1. \A k \in 0 .. n : k \in Good
    BY <1>1, <1>4, <1>5, UpTo
  <2> QED  BY <1>1, <2>1
<1>7. ~(n < i)
  BY <1>1, <1>3
<1> QED  BY <1>2, <1>6, <1>7 DEF Good

-----------------------------------------------------------------------------
(* SipMessage::toString, read again.                                       *)

\* What is read of lines and then of more lines is read of them all.
LEMMA ReadsJoin ==
  ASSUME NEW p, NEW q, NEW r, NEW s \in Seq(HeadLine), NEW t \in Seq(HeadLine),
         Reads(p, s, q), Reads(q, t, r)
  PROVE  Reads(p, s \o t, r)
<1> DEFINE m == Len(s)
           n == Len(t)
<1>1. PICK g \in [0 .. m -> Parsing] :
        g[0] = p /\ (\A k \in 1 .. m : g[k] = ReadLine(g[k - 1], s[k])) /\ g[m] = q
  BY DEF Reads
<1>2. PICK h \in [0 .. n -> Parsing] :
        h[0] = q /\ (\A k \in 1 .. n : h[k] = ReadLine(h[k - 1], t[k])) /\ h[n] = r
  BY DEF Reads
<1> DEFINE f == [k \in 0 .. m + n |-> IF k <= m THEN g[k] ELSE h[k - m]]
<1>3. /\ m \in Nat /\ n \in Nat
      /\ Len(s \o t) = m + n
      /\ \A k \in 1 .. m + n : (s \o t)[k] = IF k <= m THEN s[k] ELSE t[k - m]
  BY ConcatProperties
<1> HIDE DEF m, n
<1>4. f \in [0 .. m + n -> Parsing]
  <2>1. ASSUME NEW k \in 0 .. m + n  PROVE (IF k <= m THEN g[k] ELSE h[k - m]) \in Parsing
    BY <1>3
  <2> QED  BY <2>1
<1>5. f[0] = p /\ f[m + n] = r
  <2>1. f[0] = g[0]
    BY <1>3
  <2>2. n = 0 => f[m + n] = g[m]
    BY <1>3
  <2>3. n # 0 => f[m + n] = h[n]
    BY <1>3
  <2> QED  BY <1>1, <1>2, <2>1, <2>2, <2>3
<1>6. ASSUME NEW k \in 1 .. m + n  PROVE f[k] = ReadLine(f[k - 1], (s \o t)[k])
  <2>1. CASE k <= m
    <3>1. f[k] = g[k] /\ f[k - 1] = g[k - 1] /\ k \in 1 .. m
      BY <1>3, <2>1
    <3>2. (s \o t)[k] = s[k]
      BY <1>3, <2>1
    <3> HIDE DEF f
    <3> QED  BY <1>1, <3>1, <3>2, Zenon
  <2>2. CASE k > m
    <3>1. k - m \in 1 .. n /\ f[k] = h[k - m] /\ (k - m) - 1 = (k - 1) - m
      BY <1>3, <2>2
    <3>2. f[k - 1] = h[(k - m) - 1]
      <4>1. CASE k - 1 = m
        BY <1>1, <1>2, <1>3, <4>1
      <4>2. CASE k - 1 > m
        BY <1>3, <3>1, <4>2
      <4> QED  BY <1>3, <2>2, <4>1, <4>2
    <3>3. (s \o t)[k] = t[k - m]
      BY <1>3, <2>2
    <3> HIDE DEF f
    <3> QED  BY <1>2, <3>1, <3>2, <3>3, Zenon
  <2> QED  BY <1>3, <2>1, <2>2, SMTT(30)
<1> HIDE DEF f
<1> QED  BY <1>3, <1>4, <1>5, <1>6 DEF Reads

\* A function on 1 .. n is a sequence.
LEMMA SeqOfFunction ==
  ASSUME NEW S, NEW n \in Nat, NEW f \in [1 .. n -> S]
  PROVE  f \in Seq(S) /\ Len(f) = n
<1>1. f \in Seq(S)
  BY SeqDef
<1>2. 1 .. n = 1 .. Len(f) /\ Len(f) \in Nat
  BY <1>1
<1>3. n <= Len(f) /\ Len(f) <= n
  <2>1. n \in 1 .. n \/ n = 0
    OBVIOUS
  <2>2. Len(f) \in 1 .. Len(f) \/ Len(f) = 0
    BY <1>2
  <2> QED  BY <1>2, <2>1, <2>2
<1> QED  BY <1>1, <1>2, <1>3

\* The lines that toString writes of one header.
Lines(name, values) == [j \in DOMAIN values |-> HeaderLine(name, values[j])]

\* They are header lines, one for each value.
LEMMA LinesType ==
  ASSUME NEW name \in HeaderName, NEW values \in Seq(Seq(Part))
  PROVE  /\ Lines(name, values) \in Seq(HeadLine)
         /\ Len(Lines(name, values)) = Len(values)
<1>1. ASSUME NEW j \in DOMAIN values  PROVE HeaderLine(name, values[j]) \in HeadLine
  <2>1. values[j] \in Seq(Part)
    OBVIOUS
  <2> QED  BY <2>1 DEF HeaderLine, HeadLine
<1>2. DOMAIN values = 1 .. Len(values) /\ Len(values) \in Nat
  OBVIOUS
<1>3. Lines(name, values) \in [1 .. Len(values) -> HeadLine]
  BY <1>1, <1>2 DEF Lines
<1> QED  BY <1>2, <1>3, SeqOfFunction

\* The values of a header are read one after the other.
LEMMA ReadsLines ==
  ASSUME NEW p \in Parsing, NEW name \in HeaderName, NEW values \in Seq(Seq(Part)),
         name = "content-length" => values = <<>>
  PROVE  \E q \in Parsing :
           /\ Reads(p, Lines(name, values), q)
           /\ q.headers = [p.headers EXCEPT ![name] = @ \o values]
           /\ q.contentLength = p.contentLength
<1> DEFINE n == Len(values)
           lines == Lines(name, values)
           vs == p.headers[name]
           To(k) == vs \o SubSeq(values, 1, k)
           Hd(k) == [p.headers EXCEPT ![name] = To(k)]
           h == [k \in 0 .. n |->
                   [headers |-> Hd(k),
                    lastName |-> IF k = 0 THEN p.lastName ELSE name,
                    contentLength |-> p.contentLength]]
<1>0. /\ p = [headers |-> p.headers, lastName |-> p.lastName, contentLength |-> p.contentLength]
      /\ p.headers \in [HeaderName -> Seq(Seq(Part))]
      /\ p.lastName \in HeaderName /\ p.contentLength \in Int
  BY ParsingIs
<1>1. n \in Nat /\ lines \in Seq(HeadLine) /\ Len(lines) = n
  BY LinesType
<1>2. vs \in Seq(Seq(Part))
  BY <1>0
<1>3. ASSUME NEW k \in 0 .. n  PROVE To(k) \in Seq(Seq(Part))
  <2>1. SubSeq(values, 1, k) \in Seq(Seq(Part))
    OBVIOUS
  <2> HIDE DEF vs
  <2> QED  BY <1>2, <2>1, ConcatProperties
<1>4. To(0) = vs /\ To(n) = vs \o values
  <2>1. SubSeq(values, 1, 0) = <<>> /\ SubSeq(values, 1, n) = values
    BY SubSeqFull, SubSeqEmpty
  <2>2. vs \o <<>> = vs
    BY <1>2, ConcatEmptySeq
  <2> QED  BY <2>1, <2>2, Zenon
<1>5. ASSUME NEW k \in 1 .. n  PROVE To(k) = Append(To(k - 1), values[k])
  <2>1. /\ SubSeq(values, 1, k) = Append(SubSeq(values, 1, k - 1), values[k])
        /\ SubSeq(values, 1, k - 1) \in Seq(Seq(Part))
        /\ values[k] \in Seq(Part)
    OBVIOUS
  <2> HIDE DEF vs
  <2>2. vs \o Append(SubSeq(values, 1, k - 1), values[k]) = Append(vs \o SubSeq(values, 1, k - 1), values[k])
    BY <1>2, <2>1
  <2> QED  BY <2>1, <2>2, Zenon
<1> HIDE DEF To, vs
<1>6. h \in [0 .. n -> Parsing]
  <2>1. ASSUME NEW k \in 0 .. n
        PROVE  [headers |-> Hd(k),
                lastName |-> IF k = 0 THEN p.lastName ELSE name,
                contentLength |-> p.contentLength] \in Parsing
    <3>1. Hd(k) \in [HeaderName -> Seq(Seq(Part))]
      BY <1>0, <1>3
    <3> HIDE DEF Hd
    <3> QED  BY <1>0, <3>1 DEF Parsing
  <2> HIDE DEF n
  <2> QED  BY <2>1
<1>7. h[0] = p
  <2>1. Hd(0) = p.headers
    BY <1>0, <1>4 DEF vs
  <2> HIDE DEF Hd, n
  <2>2. 0 \in 0 .. n
    BY <1>1
  <2>3. h[0] = [headers |-> Hd(0), lastName |-> p.lastName, contentLength |-> p.contentLength]
    BY <2>2
  <2> QED  BY <1>0, <2>1, <2>3, Zenon
<1>8. ASSUME NEW k \in 1 .. n  PROVE h[k] = ReadLine(h[k - 1], lines[k])
  <2> DEFINE H == [p.headers EXCEPT ![name] = To(k - 1)]
             line == HeaderLine(name, values[k])
  <2>1. lines[k] = line /\ line \in HeadLine
    <3>1. k \in DOMAIN values
      OBVIOUS
    <3>2. lines[k] = line
      BY <3>1 DEF Lines
    <3>3. lines[k] \in HeadLine
      BY <1>1
    <3> QED  BY <3>2, <3>3
  <2>2. line.kind = "header" /\ line.name = name /\ line.value = values[k]
    BY DEF HeaderLine
  <2>3. name # "content-length"
    <3>1. values # <<>>
      OBVIOUS
    <3> QED  BY <3>1
  <2>4. k - 1 \in 0 .. n
    OBVIOUS
  <2>5. h[k - 1] \in Parsing
    BY <1>6, <2>4
  <2>6. h[k - 1].headers = H /\ h[k - 1].contentLength = p.contentLength
    BY <2>4
  <2>7. h[k] = [headers |-> Hd(k), lastName |-> name, contentLength |-> p.contentLength]
    <3> HIDE DEF n, Hd
    <3>1. k \in 0 .. n /\ k # 0
      BY <1>1
    <3> QED  BY <3>1
  <2> HIDE DEF h, line
  <2>8. ReadLine(h[k - 1], line) =
          [headers |-> [H EXCEPT ![name] = Append(@, values[k])], lastName |-> name,
           contentLength |-> p.contentLength]
    BY <2>1, <2>2, <2>3, <2>5, <2>6, ReadHeader
  <2>9. [H EXCEPT ![name] = Append(@, values[k])] = Hd(k)
    BY <1>0, <1>5
  <2> QED  BY <2>1, <2>7, <2>8, <2>9
<1>9. /\ h[n] \in Parsing
      /\ h[n].headers = [p.headers EXCEPT ![name] = vs \o values]
      /\ h[n].contentLength = p.contentLength
  <2> HIDE DEF n
  <2>1. n \in 0 .. n
    BY <1>1
  <2>2. h[n].headers = Hd(n) /\ h[n].contentLength = p.contentLength /\ h[n] \in Parsing
    <3> HIDE DEF Hd
    <3> QED  BY <1>6, <2>1
  <2>3. Hd(n) = [p.headers EXCEPT ![name] = vs \o values]
    BY <1>4
  <2> QED  BY <2>2, <2>3, Zenon
<1> HIDE DEF h, lines
<1>10. Reads(p, lines, h[n])
  <2> HIDE DEF n
  <2> QED  BY <1>1, <1>6, <1>7, <1>8 DEF Reads
<1> QED  BY <1>9, <1>10 DEF vs, lines

\* Headers of which toString adds the Content-Length.
WritableHeaders == {h \in [HeaderName -> Seq(Seq(Part))] : h["content-length"] = <<>>}
HeaderBlock(headers) ==
  FlattenSeq([i \in DOMAIN NameOrder |-> Lines(NameOrder[i], headers[NameOrder[i]])])

\* The headers of a message, as toString writes them, are read as they were.
LEMMA HeadersAreRead ==
  ASSUME NEW headers \in WritableHeaders, NEW block, block = HeaderBlock(headers)
  PROVE  /\ block \in Seq(HeadLine)
         /\ \E q \in Parsing : /\ Reads(Unparsed, block, q)
                               /\ q.headers = headers /\ q.contentLength = 0
<1> DEFINE blocks == [i \in 1 .. 10 |-> Lines(NameOrder[i], headers[NameOrder[i]])]
<1>0. headers \in [HeaderName -> Seq(Seq(Part))] /\ headers["content-length"] = <<>>
  BY DEF WritableHeaders
<1>1. ASSUME NEW i \in 1 .. 10
      PROVE  /\ NameOrder[i] \in HeaderName /\ headers[NameOrder[i]] \in Seq(Seq(Part))
             /\ blocks[i] = Lines(NameOrder[i], headers[NameOrder[i]])
             /\ blocks[i] \in Seq(HeadLine)
  BY <1>0, NameOrderIs, LinesType
<1>2. blocks \in Seq(Seq(HeadLine)) /\ Len(blocks) = 10
  <2>1. blocks \in [1 .. 10 -> Seq(HeadLine)]
    BY <1>1
  <2> HIDE DEF blocks
  <2>2. 10 \in Nat
    OBVIOUS
  <2> QED  BY <2>1, <2>2, SeqOfFunction, ZenonT(40)
<1>3. block = FlattenSeq(blocks)
  BY NameOrderIs, Zenon DEF HeaderBlock
<1> HIDE DEF blocks
<1>4. PICK g :
        /\ g \in [0 .. 10 -> Seq(HeadLine)]
        /\ g[0] = <<>>
        /\ \A k \in 1 .. 10 : g[k] = g[k - 1] \o blocks[k]
        /\ block = g[10]
  <2>1. \E g \in [0 .. Len(blocks) -> Seq(HeadLine)] :
           /\ g[0] = <<>>
           /\ \A k \in 1 .. Len(blocks) : g[k] = g[k - 1] \o blocks[k]
           /\ FlattenSeq(blocks) = g[Len(blocks)]
    BY <1>2, FlattenSteps
  <2> QED  BY <1>2, <1>3, <2>1, Zenon
<1> DEFINE IsUpTo(q, k) ==
             /\ Reads(Unparsed, g[k], q)
             /\ q.contentLength = 0
             /\ \A i \in 1 .. 10 :
                  q.headers[NameOrder[i]] = IF i <= k THEN headers[NameOrder[i]] ELSE <<>>
           Good == {k \in 0 .. 10 : \E q \in Parsing : IsUpTo(q, k)}
<1>5. 0 \in Good
  <2>1. Unparsed \in Parsing /\ \A name \in HeaderName : Unparsed.headers[name] = <<>>
    BY UnparsedIs
  <2>2. Reads(Unparsed, <<>>, Unparsed)
    <3> DEFINE h == [k \in 0 .. 0 |-> Unparsed]
    <3>1. h \in [0 .. 0 -> Parsing] /\ h[0] = Unparsed
      BY <2>1
    <3>2. Len(<<>>) = 0 /\ 1 .. 0 = {}
      OBVIOUS
    <3> HIDE DEF h
    <3> QED  BY <3>1, <3>2 DEF Reads
  <2>3. Unparsed.contentLength = 0
    BY DEF Unparsed
  <2>4. IsUpTo(Unparsed, 0)
    <3>0. \A i \in 1 .. 10 : ~(i <= 0)
      OBVIOUS
    <3>1. \A i \in 1 .. 10 : ~(i <= 0) /\ NameOrder[i] \in HeaderName
      BY <1>1, <3>0
    <3> QED  BY <1>4, <2>1, <2>2, <2>3, <3>1
  <2> HIDE DEF IsUpTo
  <2>5. 0 \in 0 .. 10
    OBVIOUS
  <2> QED  BY <2>1, <2>4, <2>5, Zenon
<1>6. ASSUME NEW k \in 0 .. 10, k \in Good, k < 10  PROVE k + 1 \in Good
  <2>1. PICK p : p \in Parsing /\ IsUpTo(p, k)
    BY <1>6
  <2>2. k + 1 \in 1 .. 10 /\ k + 1 \in 0 .. 10 /\ (k + 1) - 1 = k /\ ~(k + 1 <= k)
    <3> HIDE DEF Good
    <3> QED  BY <1>6
  <2> DEFINE name == NameOrder[k + 1]
  <2>3. name \in HeaderName /\ headers[name] \in Seq(Seq(Part)) /\ blocks[k + 1] = Lines(name, headers[name])
    BY <1>1, <2>2
  <2>4. name = "content-length" => headers[name] = <<>>
    BY <1>0
  <2>5. p.headers[name] = <<>>
    BY <2>1, <2>2
  <2>6. PICK q :
           /\ q \in Parsing
           /\ Reads(p, blocks[k + 1], q)
           /\ q.headers = [p.headers EXCEPT ![name] = @ \o headers[name]]
           /\ q.contentLength = p.contentLength
    <3> HIDE DEF name
    <3>1. \E q \in Parsing :
             /\ Reads(p, Lines(name, headers[name]), q)
             /\ q.headers = [p.headers EXCEPT ![name] = @ \o headers[name]]
             /\ q.contentLength = p.contentLength
      BY <2>1, <2>3, <2>4, ReadsLines
    <3> QED  BY <2>3, <3>1, Zenon
  <2>7. Reads(Unparsed, g[k + 1], q)
    <3>1. g[k] \in Seq(HeadLine) /\ blocks[k + 1] \in Seq(HeadLine)
      BY <1>1, <2>2, <1>4
    <3>2. Reads(Unparsed, g[k], p)
      BY <2>1
    <3>3. Reads(Unparsed, g[k] \o blocks[k + 1], q)
      BY <2>6, <3>1, <3>2, ReadsJoin
    <3>4. g[k + 1] = g[k] \o blocks[k + 1]
      BY <1>4, <2>2, Zenon
    <3> QED  BY <3>3, <3>4, Zenon
  <2>8. <<>> \o headers[name] = headers[name]
    BY <2>3, ConcatEmptySeq
  <2>9. ASSUME NEW i \in 1 .. 10
        PROVE  q.headers[NameOrder[i]] = IF i <= k + 1 THEN headers[NameOrder[i]] ELSE <<>>
    <3>1. NameOrder[i] \in HeaderName /\ p.headers \in [HeaderName -> Seq(Seq(Part))]
      BY <1>1, <2>1, ParsingIs
    <3>2. CASE i = k + 1
      <4>1. q.headers[name] = p.headers[name] \o headers[name]
        BY <2>3, <2>6, <3>1
      <4>2. q.headers[name] = headers[name]
        BY <2>5, <2>8, <4>1, Zenon
      <4> QED  BY <2>2, <3>2, <4>2
    <3>3. CASE i # k + 1
      <4>1. NameOrder[i] # name
        BY <2>2, <3>3, NameOrderIs
      <4>2. q.headers[NameOrder[i]] = p.headers[NameOrder[i]]
        <5> HIDE DEF name
        <5> QED  BY <2>6, <3>1, <4>1, Zenon
      <4>3. p.headers[NameOrder[i]] = IF i <= k THEN headers[NameOrder[i]] ELSE <<>>
        BY <2>1
      <4>4. i <= k <=> i <= k + 1
        BY <1>6, <3>3
      <4> QED  BY <4>2, <4>3, <4>4, Zenon
    <3> QED  BY <3>2, <3>3
  <2>10. q.contentLength = 0
    BY <2>1, <2>6
  <2>11. IsUpTo(q, k + 1)
    BY <2>7, <2>9, <2>10
  <2> HIDE DEF IsUpTo
  <2> QED  BY <2>2, <2>6, <2>11
<1>7. 10 \in Good
  <2> HIDE DEF Good
  <2>1. \A k \in 0 .. 10 : k \in Good
    BY <1>5, <1>6, UpTo
  <2> QED  BY <2>1
<1>8. PICK q : q \in Parsing /\ IsUpTo(q, 10)
  BY <1>7
<1>9. q.headers = headers
  <2>1. \A i \in 1 .. 10 : i <= 10
    OBVIOUS
  <2>2. \A i \in 1 .. 10 : q.headers[NameOrder[i]] = headers[NameOrder[i]]
    BY <1>8, <2>1
  <2>3. \A name \in HeaderName : q.headers[name] = headers[name]
    <3>1. \A name \in HeaderName : \E i \in 1 .. 10 : NameOrder[i] = name
      BY NameOrderIs
    <3> QED  BY <2>2, <3>1, Zenon
  <2>4. q.headers \in [HeaderName -> Seq(Seq(Part))]
    BY <1>8, ParsingIs
  <2> QED  BY <1>0, <2>3, <2>4
<1>10. /\ Reads(Unparsed, block, q) /\ q.contentLength = 0 /\ q \in Parsing
  BY <1>4, <1>8
<1>11. block \in Seq(HeadLine)
  <2>1. g[10] \in Seq(HeadLine)
    BY <1>4
  <2> QED  BY <1>4, <2>1, Zenon
<1> QED  BY <1>9, <1>10, <1>11, Zenon

\* Writing and reading agree: SipParser::parse reads a response that SipMessage::toString
\* has written as it was - its code, every header but the Content-Length that toString
\* adds, and the whole body.
THEOREM ResponseIsRead ==
  ASSUME NEW m, m.isRequest = FALSE, m.headers \in WritableHeaders, NEW L, m.body \in Seq(L),
         NEW r, r = Parse(ToDatagram(m))
  PROVE  /\ r.isRequest = FALSE /\ r.statusCode = m.statusCode
         /\ \A name \in HeaderName : name # "content-length" => r.headers[name] = m.headers[name]
         /\ r.body = m.body
<1> DEFINE block == HeaderBlock(m.headers)
           length == Number(Len(m.body))
           last == HeaderLine("content-length", length)
           d == ToDatagram(m)
<1>1. PICK q : /\ q \in Parsing /\ Reads(Unparsed, block, q)
               /\ q.headers = m.headers /\ q.contentLength = 0
  BY HeadersAreRead
<1>2. block \in Seq(HeadLine)
  BY HeadersAreRead
<1>3. "content-length" \in HeaderName
  <2>1. NameOrder[4] = "content-length" /\ 4 \in 1 .. 10
    BY DEF NameOrder
  <2> QED  BY <2>1, NameOrderIs
<1>4. Len(m.body) \in Nat
  OBVIOUS
<1>5. length \in Seq(Part) /\ NumberIn(length) = Len(m.body)
  <2> DEFINE part == [param |-> "number", val |-> Len(m.body)]
  <2>1. part \in Part /\ part.param = "number" /\ part.val = Len(m.body)
    BY <1>4 DEF Part
  <2>2. length = <<part>>
    BY DEF Number
  <2> HIDE DEF part, length
  <2>3. length # <<>> /\ Head(length) = part
    BY <2>2
  <2>4. length \in Seq(Part)
    BY <2>1, <2>2
  <2> QED  BY <2>1, <2>3, <2>4 DEF NumberIn
<1> HIDE DEF block, length
<1>6. /\ last \in HeadLine /\ last.kind = "header"
      /\ last.name = "content-length" /\ last.value = length
  BY <1>3, <1>5 DEF HeaderLine, HeadLine
<1>7. m.headers["content-length"] = <<>>
  BY DEF WritableHeaders
<1>8. /\ d.first = [kind |-> "response", code |-> m.statusCode]
      /\ d.lines = Append(block, last)
      /\ d.body = m.body
  BY <1>7, Zenon DEF ToDatagram, HasHeader, block, length, HeaderBlock, Lines
<1> HIDE DEF last, d
<1> DEFINE p == ReadLine(q, last)
<1>9. /\ p.headers = [m.headers EXCEPT !["content-length"] = Append(@, length)]
      /\ p.contentLength = Len(m.body)
  <2>1. p = [headers |-> [q.headers EXCEPT ![last.name] = Append(@, last.value)],
             lastName |-> last.name,
             contentLength |-> IF last.name = "content-length" THEN NumberIn(last.value)
                               ELSE q.contentLength]
    BY <1>1, <1>6, ReadHeader, Zenon
  <2> HIDE DEF p
  <2>2. /\ p.headers = [q.headers EXCEPT ![last.name] = Append(@, last.value)]
        /\ p.contentLength = IF last.name = "content-length" THEN NumberIn(last.value)
                             ELSE q.contentLength
    BY <2>1, Zenon
  <2> QED  BY <1>1, <1>5, <1>6, <2>2, Zenon
<1>10. Reads(Unparsed, d.lines, p) /\ d.lines \in Seq(HeadLine)
  <2> DEFINE h == [k \in 0 .. 1 |-> IF k = 0 THEN q ELSE p]
             one == <<last>>
  <2>1. one \in Seq(HeadLine) /\ Len(one) = 1 /\ one[1] = last
    BY <1>6
  <2>2. p \in Parsing
    BY <1>1, <1>6, ReadLineType
  <2>3. h \in [0 .. 1 -> Parsing] /\ h[0] = q /\ h[1] = p
    BY <1>1, <2>2
  <2> HIDE DEF h, one
  <2>4. Reads(q, one, p)
    <3>1. \A k \in 1 .. 1 : k = 1 /\ k - 1 = 0
      OBVIOUS
    <3>2. \A k \in 1 .. 1 : h[k] = ReadLine(h[k - 1], one[k])
      BY <2>1, <2>3, <3>1, Zenon
    <3> HIDE DEF p
    <3> QED  BY <2>1, <2>3, <3>2, Zenon DEF Reads
  <2>5. Reads(Unparsed, block \o one, p)
    <3> HIDE DEF p
    <3> QED  BY <1>1, <1>2, <2>1, <2>4, ReadsJoin
  <2>6. block \o one = d.lines
    BY <1>2, <1>6, <1>8 DEF one
  <2>7. block \o one \in Seq(HeadLine)
    BY <1>2, <2>1, ConcatProperties
  <2> HIDE DEF p
  <2> QED  BY <2>5, <2>6, <2>7, Zenon
<1> HIDE DEF p
<1>11. d.first.kind = "response" /\ d.first.code = m.statusCode
  BY <1>8
<1>12. /\ r.headers = p.headers /\ r.body = Body(d.body, p.contentLength)
       /\ r.isRequest = FALSE /\ r.statusCode = d.first.code
  <2>1. r = Parse(d)
    BY DEF d
  <2> QED  BY <1>10, <1>11, <2>1, ParseIs, ZenonT(40)
<1>13. r.body = m.body
  BY <1>4, <1>8, <1>9, <1>12, BodyIs
<1>14. ASSUME NEW name \in HeaderName, name # "content-length"
       PROVE  r.headers[name] = m.headers[name]
  BY <1>9, <1>12, <1>14 DEF WritableHeaders
<1> QED  BY <1>11, <1>12, <1>13, <1>14

-----------------------------------------------------------------------------
(* The headers of a datagram, as they are written and as they are read.    *)

\* What a line does to the values of a name.
LEMMA ReadName ==
  ASSUME NEW p \in Parsing, NEW line \in HeadLine, NEW name \in HeaderName
  PROVE  /\ line.kind = "header" =>
              /\ ReadLine(p, line).lastName = line.name
              /\ ReadLine(p, line).headers[name] =
                   IF name = line.name THEN Append(p.headers[name], line.value)
                   ELSE p.headers[name]
         /\ line.kind = "fold" /\ p.lastName # "" =>
              /\ ReadLine(p, line).lastName = p.lastName
              /\ ReadLine(p, line).headers[name] =
                   IF name = p.lastName THEN Continued(p.headers[name], line.value)
                   ELSE p.headers[name]
         /\ line.kind # "header" /\ (line.kind = "fold" => p.lastName = "") =>
              ReadLine(p, line) = p
<1> DEFINE r == ReadLine(p, line)
<1>0. DOMAIN p.headers = HeaderName
  BY ParsingIs
<1>1. ASSUME line.kind = "header"
      PROVE  r.lastName = line.name /\ r.headers = [p.headers EXCEPT ![line.name] = Append(@, line.value)]
  <2> DEFINE hs == [p.headers EXCEPT ![line.name] = Append(@, line.value)]
             c == IF line.name = "content-length" THEN NumberIn(line.value) ELSE p.contentLength
  <2>1. r = [headers |-> hs, lastName |-> line.name, contentLength |-> c]
    BY <1>1, ReadHeader, Zenon
  <2> HIDE DEF hs, c, r
  <2>2. r.lastName = line.name /\ r.headers = hs
    BY <2>1
  <2> QED  BY <2>2, Zenon DEF hs
<1>2. ASSUME line.kind = "fold", p.lastName # ""
      PROVE  /\ r.lastName = p.lastName
             /\ r.headers = [p.headers EXCEPT ![p.lastName] = Continued(p.headers[p.lastName], line.value)]
  <2> DEFINE hs == [p.headers EXCEPT ![p.lastName] = Continued(p.headers[p.lastName], line.value)]
  <2>1. r = [p EXCEPT !.headers = hs]
    BY <1>2, ReadFold, Zenon
  <2> HIDE DEF hs, r
  <2>2. r.lastName = p.lastName /\ r.headers = hs
    BY <2>1 DEF Parsing
  <2> QED  BY <2>2, Zenon DEF hs
<1>3. line.kind = "header" => r.headers[name] =
                   IF name = line.name THEN Append(p.headers[name], line.value)
                   ELSE p.headers[name]
  <2> HIDE DEF r
  <2> QED  BY <1>0, <1>1, Zenon
<1>4. line.kind = "fold" /\ p.lastName # "" => r.headers[name] =
                   IF name = p.lastName THEN Continued(p.headers[name], line.value)
                   ELSE p.headers[name]
  <2> HIDE DEF r
  <2> QED  BY <1>0, <1>2, Zenon
<1>5. line.kind # "header" /\ (line.kind = "fold" => p.lastName = "") => r = p
  BY ReadOther, Zenon
<1> QED  BY <1>1, <1>2, <1>3, <1>4, <1>5, Zenon

\* The concatenations of the first elements of s.
IsFlattening(g, s, n, X) ==
  /\ g \in [0 .. n -> Seq(X)]
  /\ g[0] = <<>>
  /\ \A k \in 1 .. n : g[k] = g[k - 1] \o s[k]

\* There are such concatenations, and the last is FlattenSeq.
LEMMA FlatteningExists ==
  ASSUME NEW X, NEW n \in Nat, NEW s, s \in [1 .. n -> Seq(X)]
  PROVE  \E g : IsFlattening(g, s, n, X) /\ FlattenSeq(s) = g[n]
<1>1. s \in Seq(Seq(X)) /\ Len(s) = n
  BY SeqOfFunction
<1>2. \E g \in [0 .. Len(s) -> Seq(X)] :
           /\ g[0] = <<>>
           /\ \A k \in 1 .. Len(s) : g[k] = g[k - 1] \o s[k]
           /\ FlattenSeq(s) = g[Len(s)]
  BY <1>1, FlattenSteps
<1> QED  BY <1>1, <1>2, Zenon DEF IsFlattening

\* g stays as it is where there is nothing to add.
Rests(g, s, n) ==
  \A a \in 0 .. n : \A b \in a .. n : (\A j \in a + 1 .. b : s[j] = <<>>) => g[b] = g[a]

\* A concatenation stays as it is where there is nothing to add.
LEMMA FlatteningStays ==
  ASSUME NEW X, NEW n \in Nat, NEW s, NEW g, IsFlattening(g, s, n, X)
  PROVE  Rests(g, s, n)
<1> SUFFICES ASSUME NEW a \in 0 .. n, NEW b \in a .. n, \A j \in a + 1 .. b : s[j] = <<>>
             PROVE  g[b] = g[a]
  BY DEF Rests
<1> DEFINE Good == {k \in 0 .. n : k >= a /\ k <= b => g[k] = g[a]}
<1>1. 0 \in Good
  OBVIOUS
<1>2. ASSUME NEW k \in 0 .. n, k \in Good, k < n  PROVE k + 1 \in Good
  <2>1. k + 1 \in 0 .. n /\ k + 1 \in 1 .. n /\ (k + 1) - 1 = k
    BY <1>2
  <2>2. SUFFICES ASSUME k + 1 >= a, k + 1 <= b  PROVE g[k + 1] = g[a]
    BY <2>1
  <2>3. CASE k + 1 = a
    BY <2>3
  <2>4. CASE k + 1 # a
    <3>1. k >= a /\ k <= b /\ k + 1 \in a + 1 .. b
      BY <1>2, <2>2, <2>4
    <3>2. g[k] = g[a]
      BY <1>2, <3>1
    <3>3. g[k + 1] = g[k] \o s[k + 1] /\ s[k + 1] = <<>>
      BY <2>1, <3>1, Zenon DEF IsFlattening
    <3>4. g[k] \in Seq(X)
      BY <1>2 DEF IsFlattening
    <3>5. g[k] \o <<>> = g[k]
      BY <3>4, ConcatEmptySeq
    <3> QED  BY <3>2, <3>3, <3>5, Zenon
  <2> QED  BY <2>3, <2>4
<1> HIDE DEF Good
<1>3. b \in Good
  <2>1. \A k \in 0 .. n : k \in Good
    BY <1>1, <1>2, UpTo
  <2> QED  BY <2>1
<1> QED  BY <1>3 DEF Good

\* The pieces of the value of a header line, and the values of a name.
Pieces(i) ==
  [j \in DOMAIN datagram.lines |->
     IF j = i \/ j \in Continuation(i) THEN datagram.lines[j].value ELSE <<>>]
Values(name) ==
  [i \in DOMAIN datagram.lines |-> IF HeaderAt(i, name) THEN <<Text(i)>> ELSE <<>>]

LinesTyped == datagram.lines \in Seq(HeadLine)

\* The header lines of the datagram are numbered.
LEMMA LinesTypedIs ==
  ASSUME LinesTyped
  PROVE  /\ Len(datagram.lines) \in Nat /\ DOMAIN datagram.lines = 1 .. Len(datagram.lines)
         /\ \A k \in 1 .. Len(datagram.lines) : datagram.lines[k] \in HeadLine
BY DEF LinesTyped

\* The text of a header line is put together piece by piece.
LEMMA PiecesExist ==
  ASSUME LinesTyped, NEW i \in 1 .. Len(datagram.lines), datagram.lines[i].kind = "header"
  PROVE  \E g : IsFlattening(g, Pieces(i), Len(datagram.lines), Part) /\ Text(i) = g[Len(datagram.lines)]
<1> DEFINE n == Len(datagram.lines)
<1>1. n \in Nat /\ DOMAIN datagram.lines = 1 .. n /\ \A k \in 1 .. n : datagram.lines[k] \in HeadLine
  BY LinesTypedIs
<1> HIDE DEF n
<1>2. ASSUME NEW j \in 1 .. n
      PROVE  (IF j = i \/ j \in Continuation(i) THEN datagram.lines[j].value ELSE <<>>) \in Seq(Part)
  <2>1. CASE j = i \/ j \in Continuation(i)
    <3>1. datagram.lines[j].kind \in {"header", "fold"}
      BY <2>1 DEF Continuation
    <3> DEFINE line == datagram.lines[j]
    <3>2. line \in HeadLine
      BY <1>1
    <3> HIDE DEF line
    <3>3. line.kind \in {"header", "fold"} => line.value \in Seq(Part)
      BY <3>2, HeadLineIs
    <3> QED  BY <2>1, <3>1, <3>3 DEF line
  <2>2. CASE ~(j = i \/ j \in Continuation(i))
    <3>1. <<>> \in Seq(Part)
      OBVIOUS
    <3> QED  BY <2>2, <3>1, Zenon
  <2> QED  BY <2>1, <2>2
<1>3. Pieces(i) \in [1 .. n -> Seq(Part)]
  <2>1. Pieces(i) = [j \in 1 .. n |-> IF j = i \/ j \in Continuation(i) THEN datagram.lines[j].value ELSE <<>>]
    BY <1>1, Zenon DEF Pieces
  <2> QED  BY <1>2, <2>1
<1>4. Text(i) = FlattenSeq(Pieces(i))
  BY Zenon DEF Text, Pieces
<1>5. \E g : IsFlattening(g, Pieces(i), n, Part) /\ FlattenSeq(Pieces(i)) = g[n]
  BY <1>1, <1>3, FlatteningExists
<1> QED  BY <1>4, <1>5, Zenon DEF n

\* It is a value.
LEMMA TextType ==
  ASSUME LinesTyped, NEW i \in 1 .. Len(datagram.lines), datagram.lines[i].kind = "header"
  PROVE  Text(i) \in Seq(Part)
<1> DEFINE n == Len(datagram.lines)
<1>1. PICK g : IsFlattening(g, Pieces(i), n, Part) /\ Text(i) = g[n]
  BY PiecesExist
<1>2. n \in Nat
  BY LinesTypedIs
<1> HIDE DEF n
<1>3. n \in 0 .. n
  BY <1>2
<1> QED  BY <1>1, <1>3 DEF IsFlattening

\* What is written of a name is put together line by line.
LEMMA ValuesExist ==
  ASSUME LinesTyped, NEW name
  PROVE  \E w : IsFlattening(w, Values(name), Len(datagram.lines), Seq(Part)) /\ Written(name) = w[Len(datagram.lines)]
<1> DEFINE n == Len(datagram.lines)
<1>1. n \in Nat /\ DOMAIN datagram.lines = 1 .. n
  BY LinesTypedIs
<1>2. ASSUME NEW i \in 1 .. n
      PROVE  (IF HeaderAt(i, name) THEN <<Text(i)>> ELSE <<>>) \in Seq(Seq(Part))
  <2>1. CASE HeaderAt(i, name)
    <3> DEFINE t == Text(i)
    <3>1. t \in Seq(Part)
      BY <2>1, TextType DEF HeaderAt
    <3> HIDE DEF t
    <3>2. <<t>> \in Seq(Seq(Part))
      BY <3>1
    <3> QED  BY <2>1, <3>2, Zenon DEF t
  <2>2. CASE ~HeaderAt(i, name)
    <3>1. <<>> \in Seq(Seq(Part))
      OBVIOUS
    <3> QED  BY <2>2, <3>1, Zenon
  <2> QED  BY <2>1, <2>2
<1> HIDE DEF n
<1>3. Values(name) \in [1 .. n -> Seq(Seq(Part))]
  <2>1. Values(name) = [i \in 1 .. n |-> IF HeaderAt(i, name) THEN <<Text(i)>> ELSE <<>>]
    BY <1>1, Zenon DEF Values
  <2> QED  BY <1>2, <2>1
<1>4. Written(name) = FlattenSeq(Values(name))
  BY Zenon DEF Written, Values
<1>5. \E w : IsFlattening(w, Values(name), n, Seq(Part)) /\ FlattenSeq(Values(name)) = w[n]
  BY <1>1, <1>3, FlatteningExists
<1> QED  BY <1>4, <1>5, Zenon DEF n

\* The parser at the lines of the datagram, and the values of a name as they are written.
Parses(h) ==
  /\ h \in [0 .. Len(datagram.lines) -> Parsing]
  /\ h[0] = Unparsed
  /\ \A k \in 1 .. Len(datagram.lines) : h[k] = ReadLine(h[k - 1], datagram.lines[k])
AreWritten(w, name) == IsFlattening(w, Values(name), Len(datagram.lines), Seq(Part))
IsText(g, i) ==
  IsFlattening(g, Pieces(i), Len(datagram.lines), Part) /\ Text(i) = g[Len(datagram.lines)]

\* After k lines the parser has not seen a header ...
BeforeHeaders(h, w, name, k) ==
  /\ \A j \in 1 .. k : datagram.lines[j].kind # "header"
  /\ h[k].lastName = "" /\ h[k].headers[name] = <<>> /\ w[k] = <<>>

\* ... or is at header line i: what it has of a name is what is written before, and of
\* the value on line i as much as it has seen.
InHeader(h, w, name, k, i) ==
  /\ datagram.lines[i].kind = "header"
  /\ \A j \in i + 1 .. k : datagram.lines[j].kind # "header"
  /\ h[k].lastName = datagram.lines[i].name
  /\ w[k] = w[i]
  /\ datagram.lines[i].name # name => h[k].headers[name] = w[k]
  /\ datagram.lines[i].name = name =>
       \A g : IsText(g, i) => h[k].headers[name] = Append(w[i - 1], g[k])

\* One more line of what is written.
LEMMA WrittenStep ==
  ASSUME LinesTyped, NEW name, NEW w, AreWritten(w, name),
         NEW k \in 1 .. Len(datagram.lines)
  PROVE  /\ w[k - 1] \in Seq(Seq(Part)) /\ w[k] \in Seq(Seq(Part))
         /\ HeaderAt(k, name) => Text(k) \in Seq(Part) /\ w[k] = Append(w[k - 1], Text(k))
         /\ ~HeaderAt(k, name) => w[k] = w[k - 1]
<1> DEFINE n == Len(datagram.lines)
           v == Values(name)
<1>1. n \in Nat /\ DOMAIN datagram.lines = 1 .. n
  BY LinesTypedIs
<1>2. /\ w \in [0 .. n -> Seq(Seq(Part))]
      /\ \A j \in 1 .. n : w[j] = w[j - 1] \o v[j]
  BY DEF AreWritten, IsFlattening
<1>3. v[k] = IF HeaderAt(k, name) THEN <<Text(k)>> ELSE <<>>
  BY <1>1 DEF Values
<1> HIDE DEF n, v
<1>4. k \in 0 .. n /\ k - 1 \in 0 .. n
  BY <1>1 DEF n
<1>5. w[k - 1] \in Seq(Seq(Part)) /\ w[k] \in Seq(Seq(Part))
  BY <1>2, <1>4
<1>6. w[k] = w[k - 1] \o v[k]
  BY <1>2, Zenon DEF n
<1>7. HeaderAt(k, name) => Text(k) \in Seq(Part)
  BY TextType DEF HeaderAt
<1> DEFINE t == Text(k)
           u == w[k - 1]
<1> HIDE DEF t, u
<1>8. ASSUME HeaderAt(k, name)  PROVE w[k] = Append(w[k - 1], Text(k))
  <2>1. w[k] = u \o <<t>>
    BY <1>3, <1>6, <1>8, Zenon DEF u, t
  <2>2. u \in Seq(Seq(Part)) /\ t \in Seq(Part)
    BY <1>5, <1>7, <1>8 DEF u, t
  <2>3. u \o <<t>> = Append(u, t)
    BY <2>2
  <2> QED  BY <2>1, <2>3 DEF u, t
<1>9. ASSUME ~HeaderAt(k, name)  PROVE w[k] = w[k - 1]
  <2>1. w[k] = u \o <<>>
    BY <1>3, <1>6, <1>9, Zenon DEF u
  <2>2. u \o <<>> = u
    BY <1>5, ConcatEmptySeq DEF u
  <2> QED  BY <2>1, <2>2, Zenon DEF u
<1> QED  BY <1>5, <1>7, <1>8, <1>9

\* One more line of a value.
LEMMA TextStep ==
  ASSUME LinesTyped, NEW i \in 1 .. Len(datagram.lines), datagram.lines[i].kind = "header",
         NEW g, IsText(g, i), NEW k \in 1 .. Len(datagram.lines)
  PROVE  /\ g[k - 1] \in Seq(Part) /\ g[k] \in Seq(Part)
         /\ k = i \/ k \in Continuation(i) => g[k] = g[k - 1] \o datagram.lines[k].value
         /\ k # i /\ k \notin Continuation(i) => g[k] = g[k - 1]
<1> DEFINE n == Len(datagram.lines)
           s == Pieces(i)
<1>1. n \in Nat /\ DOMAIN datagram.lines = 1 .. n
  BY LinesTypedIs
<1>2. /\ g \in [0 .. n -> Seq(Part)]
      /\ \A j \in 1 .. n : g[j] = g[j - 1] \o s[j]
  BY DEF IsText, IsFlattening
<1>3. s[k] = IF k = i \/ k \in Continuation(i) THEN datagram.lines[k].value ELSE <<>>
  BY <1>1 DEF Pieces
<1> HIDE DEF n, s
<1>4. k \in 0 .. n /\ k - 1 \in 0 .. n
  BY <1>1 DEF n
<1>5. g[k - 1] \in Seq(Part) /\ g[k] \in Seq(Part)
  BY <1>2, <1>4
<1>6. g[k] = g[k - 1] \o s[k]
  BY <1>2, Zenon DEF n
<1>7. g[k - 1] \o <<>> = g[k - 1]
  BY <1>5, ConcatEmptySeq
<1> QED  BY <1>3, <1>5, <1>6, <1>7, Zenon

\* A line that begins with its colon leaves the parser as if it had seen no header.
IsNamed(name) == name # ""

\* When a value has come to its end the parser has what is written.
LEMMA HeaderEnds ==
  ASSUME LinesTyped, NEW h, NEW w, NEW name, AreWritten(w, name),
         NEW k \in 1 .. Len(datagram.lines), NEW i \in 1 .. k, InHeader(h, w, name, k, i),
         k < Len(datagram.lines) => datagram.lines[k + 1].kind = "header"
  PROVE  h[k].headers[name] = w[k]
<1> DEFINE n == Len(datagram.lines)
<1>1. n \in Nat /\ DOMAIN datagram.lines = 1 .. n
  BY LinesTypedIs
<1>2. i \in 1 .. n /\ k \in 1 .. n /\ k \in 0 .. n /\ n \in k .. n
  BY <1>1
<1>3. datagram.lines[i].kind = "header" /\ w[k] = w[i]
  BY DEF InHeader
<1>4. CASE datagram.lines[i].name # name
  BY <1>4, Zenon DEF InHeader
<1>5. CASE datagram.lines[i].name = name
  <2>1. PICK g : IsText(g, i)
    <3>1. \E g : IsFlattening(g, Pieces(i), Len(datagram.lines), Part)
                  /\ Text(i) = g[Len(datagram.lines)]
      BY <1>2, <1>3, PiecesExist
    <3> QED  BY <3>1, Zenon DEF IsText
  <2>2. h[k].headers[name] = Append(w[i - 1], g[k])
    BY <1>5, <2>1, Zenon DEF InHeader
  <2>3. ASSUME NEW j \in k + 1 .. n  PROVE Pieces(i)[j] = <<>>
    <3>1. j \in 1 .. n /\ j # i /\ k + 1 \in i + 1 .. j /\ k < n
      BY <1>2
    <3>2. j \notin Continuation(i)
      BY <3>1 DEF Continuation
    <3> QED  BY <1>1, <3>1, <3>2 DEF Pieces
  <2>4. g[n] = g[k]
    <3>1. IsFlattening(g, Pieces(i), n, Part)
      BY <2>1 DEF IsText
    <3> DEFINE s == Pieces(i)
    <3>2. n \in Nat /\ k \in 0 .. n /\ n \in k .. n
      BY <1>1, <1>2
    <3>3. \A j \in k + 1 .. n : s[j] = <<>>
      BY <2>3
    <3>4. IsFlattening(g, s, n, Part)
      BY <3>1
    <3> HIDE DEF n, s
    <3>5. Rests(g, s, n)
      BY <3>2, <3>4, FlatteningStays, Zenon
    <3> QED  BY <3>2, <3>3, <3>5 DEF Rests
  <2>5. Text(i) = g[k]
    BY <2>1, <2>4, Zenon DEF IsText
  <2>6. w[i] = Append(w[i - 1], Text(i))
    BY <1>2, <1>3, <1>5, WrittenStep DEF HeaderAt
  <2> QED  BY <1>3, <2>2, <2>5, <2>6, Zenon
<1> QED  BY <1>4, <1>5

\* What has been seen of the headers is what is written up to here.
Seen(h, w, name, k) ==
  BeforeHeaders(h, w, name, k) \/ \E i \in 1 .. k : InHeader(h, w, name, k, i)

\* Before a header line the parser has what is written, all values are at their end.
LEMMA SeenBeforeHeader ==
  ASSUME LinesTyped, NEW h, NEW w, NEW name, AreWritten(w, name),
         NEW k \in 0 .. Len(datagram.lines), Seen(h, w, name, k),
         k < Len(datagram.lines) => datagram.lines[k + 1].kind = "header"
  PROVE  h[k].headers[name] = w[k]
<1>1. CASE BeforeHeaders(h, w, name, k)
  BY <1>1, Zenon DEF BeforeHeaders
<1>2. ASSUME NEW i \in 1 .. k, InHeader(h, w, name, k, i)
      PROVE  h[k].headers[name] = w[k]
  <2>1. k \in 1 .. Len(datagram.lines)
    BY <1>2, LinesTypedIs
  <2> QED  BY <1>2, <2>1, HeaderEnds
<1> QED  BY <1>1, <1>2, Zenon DEF Seen

\* A header line begins a new value.
LEMMA HeaderIsSeen ==
  ASSUME LinesTyped, NEW h, Parses(h), NEW w, NEW name \in HeaderName, AreWritten(w, name),
         NEW k \in 0 .. Len(datagram.lines), k < Len(datagram.lines), Seen(h, w, name, k),
         datagram.lines[k + 1].kind = "header"
  PROVE  InHeader(h, w, name, k + 1, k + 1)
<1> DEFINE n == Len(datagram.lines)
           line == datagram.lines[k + 1]
<1>1. n \in Nat /\ k + 1 \in 1 .. n /\ (k + 1) - 1 = k /\ line \in HeadLine
  BY LinesTypedIs
<1>2. h[k] \in Parsing /\ h[k + 1] = ReadLine(h[k], line)
  BY <1>1 DEF Parses
<1>3. h[k].headers[name] = w[k]
  BY SeenBeforeHeader
<1>4. line.kind = "header"
  OBVIOUS
<1> DEFINE p == h[k]
<1> HIDE DEF n, line, p
<1>5. /\ ReadLine(p, line).lastName = line.name
      /\ ReadLine(p, line).headers[name] =
                   IF name = line.name THEN Append(p.headers[name], line.value)
                   ELSE p.headers[name]
  <2>1. p \in Parsing /\ line \in HeadLine
    BY <1>1, <1>2 DEF p
  <2> QED  BY <1>4, <2>1, ReadName, ZenonT(40)
<1>6. /\ h[k + 1].lastName = line.name
      /\ h[k + 1].headers[name] = IF name = line.name THEN Append(w[k], line.value) ELSE w[k]
  BY <1>2, <1>3, <1>5, Zenon DEF p
<1>7. line.name # name => h[k + 1].headers[name] = w[k + 1]
  <2>1. line.name # name => ~HeaderAt(k + 1, name)
    BY Zenon DEF HeaderAt, line
  <2>2. ~HeaderAt(k + 1, name) => w[k + 1] = w[k]
    BY <1>1, WrittenStep DEF n
  <2> QED  BY <1>6, <2>1, <2>2, Zenon
<1>8. ASSUME line.name = name, NEW g, IsText(g, k + 1)
      PROVE  h[k + 1].headers[name] = Append(w[k], g[k + 1])
  <2>1. g[k + 1] = g[k] \o line.value /\ g[k] \in Seq(Part) /\ g[k + 1] \in Seq(Part)
    BY <1>1, <1>4, <1>8, TextStep DEF line, n
  <2>2. g[k] = <<>>
    <3> DEFINE s == Pieces(k + 1)
    <3>1. IsFlattening(g, s, n, Part)
      BY <1>8 DEF IsText, n
    <3>2. ASSUME NEW j \in 1 .. k  PROVE s[j] = <<>>
      <4>1. j \in DOMAIN datagram.lines /\ j # k + 1 /\ j \notin Continuation(k + 1)
        BY <1>1, LinesTypedIs DEF Continuation, n
      <4> QED  BY <4>1 DEF Pieces
    <3> HIDE DEF s
    <3>3. Rests(g, s, n)
      <4>1. n \in Nat
        BY <1>1
      <4> QED  BY <3>1, <4>1, FlatteningStays, Zenon
    <3>4. 0 \in 0 .. n /\ k \in 0 .. n /\ 0 + 1 = 1
      BY <1>1
    <3>5. g[k] = g[0]
      BY <3>2, <3>3, <3>4 DEF Rests
    <3> QED  BY <3>1, <3>5, Zenon DEF IsFlattening
  <2>3. line.value \in Seq(Part)
    BY <1>1, <1>4, HeadLineIs
  <2>4. <<>> \o line.value = line.value
    BY <2>3, ConcatEmptySeq
  <2> QED  BY <1>6, <1>8, <2>1, <2>2, <2>4, Zenon
<1>9. \A j \in (k + 1) + 1 .. k + 1 : FALSE
  BY <1>1
<1> QED  BY <1>1, <1>4, <1>6, <1>7, <1>8, <1>9, Zenon DEF InHeader, line

\* Any other line leaves the parser where it is: a folded line is a piece of the value of
\* the last header, and it is that value it is added to.
LEMMA OtherIsSeen ==
  ASSUME LinesTyped, ~RepeatedHeaderIsFolded,
         NEW h, Parses(h), NEW w, NEW name \in HeaderName, IsNamed(name), AreWritten(w, name),
         NEW k \in 0 .. Len(datagram.lines), k < Len(datagram.lines), Seen(h, w, name, k),
         datagram.lines[k + 1].kind # "header"
  PROVE  Seen(h, w, name, k + 1)
<1> DEFINE n == Len(datagram.lines)
           line == datagram.lines[k + 1]
           p == h[k]
           q == ReadLine(p, line)
<1>1. n \in Nat /\ k + 1 \in 1 .. n /\ (k + 1) - 1 = k /\ line \in HeadLine
  BY LinesTypedIs
<1>2. p \in Parsing /\ h[k + 1] = q
  BY <1>1 DEF Parses
<1>3. line.kind # "header" /\ DOMAIN datagram.lines = 1 .. n
  BY LinesTypedIs
<1>4. w[k + 1] = w[k]
  <2>1. ~HeaderAt(k + 1, name)
    BY <1>3, Zenon DEF HeaderAt
  <2> QED  BY <1>1, <2>1, WrittenStep
<1>5. line.kind # "header" /\ (line.kind = "fold" => p.lastName = "") => q = p
  BY <1>1, <1>2, ReadOther
<1> HIDE DEF n, line, p, q
<1>6. line.kind = "fold" /\ p.lastName # "" =>
        /\ q.lastName = p.lastName
        /\ q.headers[name] = IF name = p.lastName THEN Continued(p.headers[name], line.value)
                             ELSE p.headers[name]
  BY <1>1, <1>2, ReadName, Zenon DEF q
<1>7. CASE BeforeHeaders(h, w, name, k)
  <2>1. p.lastName = "" /\ p.headers[name] = <<>> /\ w[k] = <<>>
    BY <1>7, Zenon DEF BeforeHeaders, p
  <2>2. q = p
    BY <1>3, <1>5, <2>1, Zenon
  <2>3. \A j \in 1 .. k + 1 : datagram.lines[j].kind # "header"
    <3>1. \A j \in 1 .. k + 1 : j \in 1 .. k \/ j = k + 1
      BY <1>1
    <3>2. \A j \in 1 .. k : datagram.lines[j].kind # "header"
      BY <1>7, Zenon DEF BeforeHeaders
    <3> QED  BY <1>3, <3>1, <3>2, Zenon DEF line
  <2>4. BeforeHeaders(h, w, name, k + 1)
    BY <1>2, <1>4, <2>1, <2>2, <2>3, Zenon DEF BeforeHeaders
  <2> QED  BY <2>4, Zenon DEF Seen
<1>8. ASSUME NEW i \in 1 .. k, InHeader(h, w, name, k, i)
      PROVE  InHeader(h, w, name, k + 1, i)
  <2>1. /\ i \in 1 .. n /\ i <= k /\ k \in 1 .. n
    BY <1>1, <1>8
  <2> DEFINE head == datagram.lines[i]
  <2>2. /\ head.kind = "header" /\ p.lastName = head.name /\ w[k] = w[i]
        /\ \A j \in i + 1 .. k : datagram.lines[j].kind # "header"
        /\ head.name # name => p.headers[name] = w[k]
        /\ head.name = name =>
             \A g : IsText(g, i) => p.headers[name] = Append(w[i - 1], g[k])
    BY <1>8, Zenon DEF InHeader, p
  <2>3. \A j \in i + 1 .. k + 1 : datagram.lines[j].kind # "header"
    <3>1. \A j \in i + 1 .. k + 1 : j \in i + 1 .. k \/ j = k + 1
      BY <1>1
    <3> QED  BY <1>3, <2>2, <3>1, Zenon DEF line
  <2>4. k + 1 # i /\ (k + 1 \in Continuation(i) <=> line.kind = "fold")
    <3>1. k + 1 \in 1 .. n /\ i < k + 1
      BY <1>1, <2>1
    <3>2. \A j \in i + 1 .. k + 1 : datagram.lines[j].kind # "header"
      BY <2>3
    <3>3. k + 1 \in Continuation(i) <=>
            /\ i < k + 1 /\ datagram.lines[k + 1].kind = "fold"
            /\ \A j \in i + 1 .. k + 1 : datagram.lines[j].kind # "header"
      BY <1>3, <3>1, Zenon DEF Continuation
    <3> QED  BY <3>1, <3>2, <3>3 DEF line
  <2> HIDE DEF head
  <2>5. CASE head.name # name
    <3>1. q.lastName = p.lastName /\ q.headers[name] = p.headers[name]
      BY <1>3, <1>5, <1>6, <2>2, <2>5, Zenon
    <3> QED  BY <1>2, <1>4, <2>2, <2>3, <2>5, <3>1, Zenon DEF InHeader, head
  <2>6. CASE head.name = name /\ line.kind # "fold"
    <3>1. q = p
      BY <1>3, <1>5, <2>6, Zenon
    <3>2. ASSUME NEW g, IsText(g, i)  PROVE g[k + 1] = g[k]
      <4>1. k + 1 \in 1 .. Len(datagram.lines) /\ i \in 1 .. Len(datagram.lines)
            /\ datagram.lines[i].kind = "header"
        BY <1>1, <2>1, <2>2 DEF n, head
      <4>2. k + 1 # i /\ k + 1 \notin Continuation(i) => g[k + 1] = g[(k + 1) - 1]
        BY <3>2, <4>1, TextStep
      <4> QED  BY <1>1, <2>4, <2>6, <4>2, Zenon
    <3> QED  BY <1>2, <1>4, <2>2, <2>3, <2>6, <3>1, <3>2, Zenon DEF InHeader, head
  <2>7. CASE head.name = name /\ line.kind = "fold"
    <3>1. p.lastName # "" /\ name = p.lastName
      BY <2>2, <2>7, Zenon DEF IsNamed
    <3>2. q.lastName = p.lastName /\ q.headers[name] = Continued(p.headers[name], line.value)
      BY <1>6, <2>7, <3>1, Zenon
    <3>3. \A j \in 1 .. i - 1 : ~HeaderAt(j, name)
      <4>1. Continuation(i) # {}
        BY <2>4, <2>7
      <4>2. HeaderAt(i, name)
        BY <2>2, <2>7, Zenon DEF HeaderAt, head
      <4>3. ASSUME NEW j \in 1 .. i - 1, HeaderAt(j, name)  PROVE FALSE
        <5>1. j \in 1 .. n /\ j < i
          BY <1>1, <2>1
        <5>2. datagram.lines[j].kind = "header" /\ datagram.lines[j].name = name
          BY <4>3, Zenon DEF HeaderAt
        <5>3. HeaderAt(i, datagram.lines[j].name)
          BY <4>2, <5>2, Zenon
        <5> QED  BY <1>3, <2>1, <4>1, <5>1, <5>2, <5>3, Zenon DEF RepeatedHeaderIsFolded
      <4> QED  BY <4>3
    <3>4. w[i - 1] = <<>>
      <4> DEFINE s == Values(name)
      <4>1. IsFlattening(w, s, n, Seq(Part))
        BY Zenon DEF AreWritten, n
      <4>2. ASSUME NEW j \in 1 .. i - 1  PROVE s[j] = <<>>
        <5>1. j \in DOMAIN datagram.lines /\ ~HeaderAt(j, name)
          BY <1>1, <1>3, <2>1, <3>3
        <5> QED  BY <5>1 DEF Values
      <4> HIDE DEF s
      <4>3. Rests(w, s, n)
        <5>1. n \in Nat
          BY <1>1
        <5> QED  BY <4>1, <5>1, FlatteningStays, Zenon
      <4>4. 0 \in 0 .. n /\ i - 1 \in 0 .. n /\ 0 + 1 = 1
        BY <1>1, <2>1
      <4>5. w[i - 1] = w[0]
        BY <4>2, <4>3, <4>4 DEF Rests
      <4> QED  BY <4>1, <4>5, Zenon DEF IsFlattening
    <3>5. ASSUME NEW g, IsText(g, i)  PROVE q.headers[name] = Append(w[i - 1], g[k + 1])
      <4>1. /\ g[k] \in Seq(Part) /\ g[k + 1] = g[k] \o line.value
        <5>1. k + 1 \in 1 .. Len(datagram.lines) /\ i \in 1 .. Len(datagram.lines)
              /\ datagram.lines[i].kind = "header"
          BY <1>1, <2>1, <2>2 DEF n, head
        <5>2. /\ g[(k + 1) - 1] \in Seq(Part)
              /\ k + 1 = i \/ k + 1 \in Continuation(i) =>
                   g[k + 1] = g[(k + 1) - 1] \o datagram.lines[k + 1].value
          BY <3>5, <5>1, TextStep
        <5> QED  BY <1>1, <2>4, <2>7, <5>2, Zenon DEF line
      <4> DEFINE t == g[k]
                 u == t \o line.value
      <4>2. p.headers[name] = Append(<<>>, t)
        BY <2>2, <2>7, <3>4, <3>5, Zenon
      <4> HIDE DEF t, u
      <4>3. Append(<<>>, t) = <<t>> /\ Append(<<>>, u) = <<u>>
        OBVIOUS
      <4>4. Continued(<<t>>, line.value) = <<u>>
        <5>1. \A x, y : [<<x>> EXCEPT ![1] = y] = <<y>>
          OBVIOUS
        <5>2. <<t>>[1] = t
          OBVIOUS
        <5>3. Continued(<<t>>, line.value) = [<<t>> EXCEPT ![1] = <<t>>[1] \o line.value]
          BY Zenon DEF Continued
        <5> QED  BY <5>1, <5>2, <5>3, Zenon DEF u
      <4> QED  BY <3>2, <3>4, <4>1, <4>2, <4>3, <4>4, Zenon DEF t, u
    <3> QED  BY <1>2, <1>4, <2>2, <2>3, <2>7, <3>2, <3>5, Zenon DEF InHeader, head
  <2> QED  BY <2>5, <2>6, <2>7
<1>9. 1 .. k \subseteq 1 .. k + 1
  BY <1>1
<1> QED  BY <1>7, <1>8, <1>9, Zenon DEF Seen

\* Where no line with a name that occurs before is folded, the parser reads of every
\* header with a name exactly what the datagram says: the values of its lines in their
\* order, each with the folded lines that belong to it.
THEOREM HeadersAreWritten ==
  ASSUME LinesTyped, ~RepeatedHeaderIsFolded,
         NEW p, Reads(Unparsed, datagram.lines, p), NEW name \in HeaderName, IsNamed(name)
  PROVE  p.headers[name] = Written(name)
<1> DEFINE n == Len(datagram.lines)
<1>1. n \in Nat
  BY LinesTypedIs
<1>2. PICK h : Parses(h) /\ h[n] = p
  BY Zenon DEF Reads, Parses
<1>3. PICK w : AreWritten(w, name) /\ Written(name) = w[n]
  BY ValuesExist, Zenon DEF AreWritten
<1> DEFINE Good == {k \in 0 .. n : Seen(h, w, name, k)}
<1>4. 0 \in Good
  <2>1. h[0] = Unparsed
    BY <1>2, Zenon DEF Parses
  <2>2. Unparsed.headers[name] = <<>> /\ Unparsed.lastName = ""
    BY UnparsedIs DEF Unparsed
  <2>3. w[0] = <<>>
    BY <1>3, Zenon DEF AreWritten, IsFlattening
  <2>4. \A j \in 1 .. 0 : FALSE
    OBVIOUS
  <2>5. Seen(h, w, name, 0)
    BY <2>1, <2>2, <2>3, <2>4, Zenon DEF BeforeHeaders, Seen
  <2> QED  BY <1>1, <2>5
<1>5. ASSUME NEW k \in 0 .. n, k \in Good, k < n  PROVE k + 1 \in Good
  <2>1. Seen(h, w, name, k)
    BY <1>5
  <2>2. CASE datagram.lines[k + 1].kind = "header"
    <3>1. InHeader(h, w, name, k + 1, k + 1)
      BY <1>2, <1>3, <1>5, <2>1, <2>2, HeaderIsSeen
    <3>2. k + 1 \in 1 .. k + 1
      BY <1>1
    <3> QED  BY <1>1, <1>5, <3>1, <3>2 DEF Seen
  <2>3. CASE datagram.lines[k + 1].kind # "header"
    <3>1. Seen(h, w, name, k + 1)
      BY <1>2, <1>3, <1>5, <2>1, <2>3, OtherIsSeen
    <3> QED  BY <1>1, <1>5, <3>1
  <2> QED  BY <2>2, <2>3
<1> HIDE DEF Good
<1>6. n \in Good
  <2>1. \A k \in 0 .. n : k \in Good
    BY <1>1, <1>4, <1>5, UpTo
  <2> QED  BY <1>1, <2>1
<1>7. h[n].headers[name] = w[n]
  <2>1. Seen(h, w, name, n) /\ n \in 0 .. n /\ ~(n < n)
    BY <1>1, <1>6 DEF Good
  <2> QED  BY <1>3, <2>1, SeenBeforeHeader
<1> QED  BY <1>2, <1>3, <1>7, Zenon

-----------------------------------------------------------------------------
(* SipResponseBuilder::createResponse, and what a client reads of it.      *)

Headers == [HeaderName -> Seq(Seq(Part))]

\* The first value of a header, as getHeader returns it, if there is one.
First(req, name) == IF HasHeader(req, name) THEN <<GetHeader(req, name)>> ELSE <<>>

\* The To header of an answer.
ToOf(req, code) ==
  IF code >= 200 /\ ~HasTag(GetHeader(req, "to"))
    THEN [i \in DOMAIN First(req, "to") |->
            Append(First(req, "to")[i], GeneratedTag)]
    ELSE First(req, "to")

\* The names that a response has.
LEMMA NamesAre ==
  /\ "via" \in HeaderName /\ "from" \in HeaderName /\ "to" \in HeaderName
  /\ "call-id" \in HeaderName /\ "cseq" \in HeaderName /\ "user-agent" \in HeaderName
  /\ "content-type" \in HeaderName /\ "contact" \in HeaderName /\ "content-length" \in HeaderName
  /\ \A name \in {"via", "from", "to", "call-id", "cseq"} :
       /\ name \in HeaderName /\ IsNamed(name)
       /\ name # "content-length" /\ name # "content-type" /\ name # "contact"
<1>1. DOMAIN NameOrder = 1 .. 10
  BY NameOrderIs
<1>2. /\ NameOrder[2] = "call-id" /\ NameOrder[3] = "contact"
      /\ NameOrder[4] = "content-length" /\ NameOrder[5] = "content-type"
      /\ NameOrder[6] = "cseq" /\ NameOrder[7] = "from" /\ NameOrder[8] = "to"
      /\ NameOrder[9] = "user-agent" /\ NameOrder[10] = "via"
  BY DEF NameOrder
<1>3. \A i \in 1 .. 10 : NameOrder[i] \in HeaderName
  BY NameOrderIs
<1>4. \A name \in {"via", "from", "to", "call-id", "cseq"} :
        IsNamed(name) /\ name # "content-length" /\ name # "content-type" /\ name # "contact"
  BY DEF IsNamed
<1>5. 2 \in 1 .. 10 /\ 3 \in 1 .. 10 /\ 4 \in 1 .. 10 /\ 5 \in 1 .. 10 /\ 6 \in 1 .. 10
      /\ 7 \in 1 .. 10 /\ 8 \in 1 .. 10 /\ 9 \in 1 .. 10 /\ 10 \in 1 .. 10
  OBVIOUS
<1> QED  BY <1>2, <1>3, <1>4, <1>5, Zenon

\* One value or none.
LEMMA FirstType ==
  ASSUME NEW req, req.headers \in Headers, NEW name \in HeaderName
  PROVE  /\ First(req, name) \in Seq(Seq(Part))
         /\ req.headers[name] = <<>> => First(req, name) = <<>>
         /\ req.headers[name] # <<>> =>
              /\ First(req, name) = <<Head(req.headers[name])>>
              /\ Head(req.headers[name]) \in Seq(Part)
<1> DEFINE values == req.headers[name]
<1>1. values \in Seq(Seq(Part))
  BY DEF Headers
<1>2. First(req, name) = IF values # <<>> THEN <<IF values # <<>> THEN Head(values) ELSE <<>>>>
                         ELSE <<>>
  BY Zenon DEF First, HasHeader, GetHeader
<1> HIDE DEF values
<1>3. values # <<>> => Head(values) \in Seq(Part) /\ <<Head(values)>> \in Seq(Seq(Part))
  BY <1>1
<1>4. <<>> \in Seq(Seq(Part))
  OBVIOUS
<1> QED  BY <1>2, <1>3, <1>4, Zenon DEF values

\* The gateway's tag is a part.
LEMMA GeneratedTagIs == GeneratedTag \in Part
<1>1. GeneratedTag \in [param : {"word", "branch", "tag"}, val : STRING \cup {"gen"}]
  BY DEF GeneratedTag
<1> QED  BY <1>1 DEF Part

\* There is a To header, with a tag more or as it was, or there is none.
LEMMA ToType ==
  ASSUME NEW req, req.headers \in Headers, NEW code
  PROVE  /\ ToOf(req, code) \in Seq(Seq(Part))
         /\ req.headers["to"] = <<>> => ToOf(req, code) = <<>>
         /\ req.headers["to"] # <<>> =>
              ToOf(req, code) =
                IF code >= 200 /\ ~HasTag(GetHeader(req, "to"))
                  THEN <<Append(Head(req.headers["to"]), GeneratedTag)>>
                  ELSE <<Head(req.headers["to"])>>
<1> DEFINE values == req.headers["to"]
           first == First(req, "to")
           tags == code >= 200 /\ ~HasTag(GetHeader(req, "to"))
           longer == [i \in DOMAIN first |-> Append(first[i], GeneratedTag)]
<1>1. values \in Seq(Seq(Part))
  BY NamesAre DEF Headers
<1>2. ToOf(req, code) = IF tags THEN longer ELSE first
  BY Zenon DEF ToOf
<1> HIDE DEF values, tags
<1>3. CASE values = <<>>
  <2>1. first = <<>>
    BY <1>3, NamesAre, FirstType, Zenon DEF values
  <2>2. longer = <<>>
    BY <2>1
  <2>3. <<>> \in Seq(Seq(Part))
    OBVIOUS
  <2> HIDE DEF first, longer
  <2> QED  BY <1>2, <1>3, <2>1, <2>2, <2>3, Zenon DEF values
<1>4. CASE values # <<>>
  <2> DEFINE head == Head(values)
             more == Append(head, GeneratedTag)
  <2>1. head \in Seq(Part) /\ first = <<head>> /\ first \in Seq(Seq(Part))
    BY <1>4, NamesAre, FirstType, Zenon DEF values
  <2>2. more \in Seq(Part)
    BY <2>1, GeneratedTagIs
  <2>3. longer = <<more>>
    <3> HIDE DEF first, head
    <3> QED  BY <2>1
  <2> HIDE DEF first, longer, more, head
  <2>4. longer \in Seq(Seq(Part))
    BY <2>2, <2>3
  <2> QED  BY <1>2, <1>4, <2>1, <2>3, <2>4, Zenon DEF values, tags, more, head
<1> QED  BY <1>3, <1>4, Zenon

\* What createResponse makes of a request.
IsResponse(res, req, code) ==
  /\ res.isRequest = FALSE /\ res.statusCode = code /\ res.body = <<>>
  /\ res.headers \in WritableHeaders
  /\ res.headers["via"] = req.headers["via"]
  /\ res.headers["to"] = ToOf(req, code)
  /\ \A name \in {"from", "call-id", "cseq"} : res.headers[name] = First(req, name)

\* createResponse makes such a response.
LEMMA ResponseIs ==
  ASSUME NEW req, req.headers \in Headers, NEW code, NEW res, res = CreateResponse(req, code)
  PROVE  IsResponse(res, req, code)
<1> DEFINE v == req.headers["via"]
           f == First(req, "from")
           t == ToOf(req, code)
           i == First(req, "call-id")
           s == First(req, "cseq")
           hs == [NoHeaders EXCEPT !["via"] = v, !["from"] = f, !["to"] = t,
                    !["call-id"] = i, !["cseq"] = s, !["user-agent"] = <<<<>>>>]
<1>2. res = [isRequest |-> FALSE, method |-> "", statusCode |-> code, body |-> <<>>,
             headers |-> hs]
  BY Zenon DEF CreateResponse, ToOf, First
<1>3. /\ v \in Seq(Seq(Part)) /\ f \in Seq(Seq(Part)) /\ t \in Seq(Seq(Part))
      /\ i \in Seq(Seq(Part)) /\ s \in Seq(Seq(Part))
  <2>1. v \in Seq(Seq(Part))
    BY NamesAre DEF Headers
  <2>2. t \in Seq(Seq(Part))
    BY ToType, Zenon
  <2> QED  BY <2>1, <2>2, NamesAre, FirstType, Zenon
<1> HIDE DEF v, f, t, i, s
<1>4. <<<<>>>> \in Seq(Seq(Part)) /\ <<>> \in Seq(Seq(Part))
  OBVIOUS
<1>5. DOMAIN NoHeaders = HeaderName /\ \A name \in HeaderName : NoHeaders[name] = <<>>
  BY DEF NoHeaders
<1>6. hs \in [HeaderName -> Seq(Seq(Part))]
  <2> DEFINE V == Seq(Seq(Part))
  <2>1. NoHeaders \in [HeaderName -> V]
    BY <1>4 DEF NoHeaders
  <2>2. v \in V /\ f \in V /\ t \in V /\ i \in V /\ s \in V /\ <<<<>>>> \in V
    BY <1>3, <1>4
  <2> HIDE DEF V
  <2>3. \A x \in [HeaderName -> V], name, y \in V : [x EXCEPT ![name] = y] \in [HeaderName -> V]
    OBVIOUS
  <2>4. hs \in [HeaderName -> V]
    BY <2>1, <2>2, <2>3, Zenon
  <2> QED  BY <2>4, Zenon DEF V
<1>7. /\ hs["via"] = v /\ hs["from"] = f /\ hs["to"] = t /\ hs["call-id"] = i
      /\ hs["cseq"] = s /\ hs["content-length"] = <<>>
  BY <1>5, NamesAre
<1> HIDE DEF hs
<1>8. res.isRequest = FALSE /\ res.statusCode = code /\ res.body = <<>> /\ res.headers = hs
  <2>1. PICK e : res = [isRequest |-> FALSE, method |-> e, statusCode |-> code,
                        body |-> <<>>, headers |-> hs]
    BY <1>2, Zenon
  <2> QED  BY <2>1
<1>9. hs \in WritableHeaders
  BY <1>6, <1>7 DEF WritableHeaders
<1> QED  BY <1>7, <1>8, <1>9 DEF v, f, t, i, s, IsResponse

\* A datagram that a client reads as the answer to a request.
AnswersTo(d, req, code) ==
  LET res == Parse(d)
  IN  /\ res.isRequest = FALSE /\ res.statusCode = code
      /\ res.headers["via"] = req.headers["via"]
      /\ res.headers["to"] = ToOf(req, code)
      /\ \A name \in {"from", "call-id", "cseq"} : res.headers[name] = First(req, name)

\* The handler sees of a request its headers as they are written and its body as far as
\* Content-Length says.
LEMMA RequestIs ==
  ASSUME datagram \in Datagram(Line), NEW m, m = Parse(datagram), m.isRequest
  PROVE  /\ m.headers \in Headers
         /\ ~RepeatedHeaderIsFolded =>
              \A name \in HeaderName : IsNamed(name) => m.headers[name] = Written(name)
         /\ m.body \in Seq(Line)
         /\ IsPrefix(m.body, datagram.body)
         /\ LengthIsRight => m.body = datagram.body
<1>1. /\ datagram.first \in FirstLine /\ datagram.lines \in Seq(HeadLine)
      /\ datagram.body \in Seq(Line)
  BY DEF Datagram
<1>2. PICK p \in Parsing : Reads(Unparsed, datagram.lines, p)
  BY <1>1, ReadExists, UnparsedIs, Zenon
<1> DEFINE kind == datagram.first.kind
<1>3. kind \in {"request", "response", "malformed"}
  BY <1>1 DEF FirstLine
<1>4. /\ kind \in {"request", "response"} =>
           m.headers = p.headers /\ m.body = Body(datagram.body, p.contentLength)
      /\ kind = "response" => m.isRequest = FALSE
      /\ kind = "malformed" => m = NoMessage
  <2>1. PICK d : d = datagram
    OBVIOUS
  <2>2. d.lines \in Seq(HeadLine) /\ Reads(Unparsed, d.lines, p) /\ m = Parse(d)
    BY <1>1, <1>2, <2>1, Zenon
  <2>3. /\ d.first.kind \in {"request", "response"} =>
              m.headers = p.headers /\ m.body = Body(d.body, p.contentLength)
        /\ d.first.kind = "response" => m.isRequest = FALSE
        /\ d.first.kind = "malformed" => m = NoMessage
    BY <2>2, ParseIs
  <2> QED  BY <2>1, <2>3, Zenon
<1>5. NoMessage.isRequest = FALSE
  BY DEF NoMessage
<1>6. m.headers = p.headers /\ m.body = Body(datagram.body, p.contentLength)
  BY <1>3, <1>4, <1>5
<1>7. p.headers \in Headers /\ p.contentLength \in Int
  BY ParsingIs DEF Headers
<1>8. /\ m.body \in Seq(Line) /\ IsPrefix(m.body, datagram.body)
      /\ p.contentLength = Len(datagram.body) => m.body = datagram.body
  BY <1>1, <1>6, <1>7, BodyIs
<1>9. LengthIsRight => p.contentLength = Len(datagram.body)
  BY <1>2, LengthIsRead
<1>10. ASSUME ~RepeatedHeaderIsFolded, NEW name \in HeaderName, IsNamed(name)
       PROVE  m.headers[name] = Written(name)
  <2>1. LinesTyped
    BY <1>1, Zenon DEF LinesTyped
  <2> QED  BY <1>2, <1>6, <1>10, <2>1, HeadersAreWritten, Zenon
<1> QED  BY <1>6, <1>7, <1>8, <1>9, <1>10, Zenon

\* What the gateway sends without a body is read as the answer.
LEMMA RespondAnswers ==
  ASSUME NEW req, req.headers \in Headers, NEW code, NEW d, d = Respond(req, code)
  PROVE  AnswersTo(d, req, code)
<1>0. PICK m : m = CreateResponse(req, code)
  OBVIOUS
<1>1. PICK r : r = Parse(ToDatagram(m)) /\ r = Parse(d)
  BY <1>0, Zenon DEF Respond
<1>2. /\ m.isRequest = FALSE /\ m.statusCode = code /\ m.body = <<>>
      /\ m.headers \in WritableHeaders
      /\ m.headers["via"] = req.headers["via"]
      /\ m.headers["to"] = ToOf(req, code)
      /\ \A name \in {"from", "call-id", "cseq"} : m.headers[name] = First(req, name)
  <2>1. IsResponse(m, req, code)
    BY <1>0, ResponseIs
  <2> QED  BY <2>1, Zenon DEF IsResponse
<1>3. m.body \in Seq({})
  <2>1. <<>> \in Seq({})
    OBVIOUS
  <2> QED  BY <1>2, <2>1, Zenon
<1>4. /\ r.isRequest = FALSE /\ r.statusCode = m.statusCode
      /\ \A name \in HeaderName : name # "content-length" => r.headers[name] = m.headers[name]
  BY <1>1, <1>2, <1>3, ResponseIsRead
<1> QED  BY <1>1, <1>2, <1>4, NamesAre DEF AnswersTo

\* The 200 with the answer.
Accept(req, c) ==
  LET res == CreateResponse(req, 200)
  IN  ToDatagram([res EXCEPT !.headers = ContentHeaders(@), !.body = AnswerLines(c)])

\* The 200 is read as the answer, and its body as it was written.
LEMMA AcceptAnswers ==
  ASSUME NEW req, req.headers \in Headers, NEW c, NEW d, d = Accept(req, c)
  PROVE  AnswersTo(d, req, 200) /\ Parse(d).body = AnswerLines(c)
<1>0. PICK res : res = CreateResponse(req, 200)
  OBVIOUS
<1> DEFINE lines == AnswerLines(c)
           hs == ContentHeaders(res.headers)
<1>1. PICK m : m = [res EXCEPT !.headers = hs, !.body = lines] /\ d = ToDatagram(m)
  BY <1>0, Zenon DEF Accept
<1>11. PICK r : r = Parse(ToDatagram(m)) /\ r = Parse(d)
  BY <1>1, Zenon
<1>2. /\ res.isRequest = FALSE /\ res.statusCode = 200
      /\ res.headers \in WritableHeaders
      /\ res.headers["via"] = req.headers["via"]
      /\ res.headers["to"] = ToOf(req, 200)
      /\ \A name \in {"from", "call-id", "cseq"} : res.headers[name] = First(req, name)
  <2>1. IsResponse(res, req, 200)
    BY <1>0, ResponseIs
  <2> QED  BY <2>1, Zenon DEF IsResponse
<1>3. DOMAIN res = {"isRequest", "method", "statusCode", "body", "headers"}
  <2>1. \E e, x : res = [isRequest |-> FALSE, method |-> e, statusCode |-> 200,
                         body |-> <<>>, headers |-> x]
    <3> DEFINE code == 200
    <3>1. res = CreateResponse(req, code)
      BY <1>0
    <3> HIDE DEF code
    <3>2. \E e, x : res = [isRequest |-> FALSE, method |-> e, statusCode |-> code,
                         body |-> <<>>, headers |-> x]
      BY <3>1, Zenon DEF CreateResponse
    <3> QED  BY <3>2, Zenon DEF code
  <2> QED  BY <2>1
<1>4. /\ m.isRequest = FALSE /\ m.statusCode = 200 /\ m.headers = hs /\ m.body = lines
  <2> HIDE DEF hs, lines
  <2> QED  BY <1>1, <1>2, <1>3
<1>5. /\ hs \in WritableHeaders
      /\ \A name \in {"via", "from", "to", "call-id", "cseq"} : hs[name] = res.headers[name]
  <2>1. <<<<>>>> \in Seq(Seq(Part))
    OBVIOUS
  <2> DEFINE V == Seq(Seq(Part))
             x == res.headers
  <2>2. x \in [HeaderName -> V] /\ x["content-length"] = <<>>
    BY <1>2 DEF WritableHeaders
  <2>3. hs = [x EXCEPT !["content-type"] = <<<<>>>>, !["contact"] = <<<<>>>>]
    BY Zenon DEF ContentHeaders
  <2> HIDE DEF V, x, hs
  <2>4. hs \in [HeaderName -> V]
    BY <2>1, <2>2, <2>3 DEF V
  <2>5. hs["content-length"] = x["content-length"]
    BY <2>2, <2>3, NamesAre
  <2>6. ASSUME NEW name \in {"via", "from", "to", "call-id", "cseq"}  PROVE hs[name] = x[name]
    BY <2>2, <2>3, NamesAre
  <2>7. hs \in WritableHeaders
    BY <2>2, <2>4, <2>5 DEF WritableHeaders, V
  <2> QED  BY <2>6, <2>7 DEF x
<1> DEFINE L == {lines[i] : i \in 1 .. 3}
<1>6. lines \in Seq(L)
  <2>1. \E x, y, z : lines = <<x, y, z>>
    BY Zenon DEF AnswerLines
  <2> HIDE DEF lines
  <2> QED  BY <2>1
<1> HIDE DEF hs, lines, L
<1>7. /\ r.isRequest = FALSE /\ r.statusCode = m.statusCode
      /\ \A name \in HeaderName : name # "content-length" => r.headers[name] = m.headers[name]
      /\ r.body = m.body
  <2>1. m.isRequest = FALSE /\ m.headers \in WritableHeaders /\ m.body \in Seq(L)
    BY <1>4, <1>5, <1>6, Zenon
  <2> QED  BY <1>11, <2>1, ResponseIsRead
<1>8. r.body = lines
  BY <1>4, <1>7, Zenon
<1>9. \A name \in {"via", "from", "to", "call-id", "cseq"} : r.headers[name] = res.headers[name]
  BY <1>4, <1>5, <1>7, NamesAre
<1>10. AnswersTo(d, req, 200)
  BY <1>2, <1>4, <1>7, <1>9, <1>11 DEF AnswersTo
<1> QED  BY <1>8, <1>10, <1>11, Zenon DEF lines

-----------------------------------------------------------------------------
(* The exchange.                                                           *)

\* Codes of final answers.
Final == {200, 202, 488, 501}

\* What of a request has been read is what has been taken out of the datagram.
WireInv ==
  /\ OfferInv
  /\ datagram \in Datagram(Line)
  /\ phase \in {"wire", "invite", "done", "dropped"}
  /\ phase = "wire" => NothingRead
  /\ step \in {"parse", "answer", "accepted", "refused"}

\* The handler has the headers as they are written.
RequestInv ==
  phase \in {"invite", "done"} =>
    /\ request.headers \in Headers
    /\ ~RepeatedHeaderIsFolded =>
         \A name \in HeaderName : IsNamed(name) => request.headers[name] = Written(name)

\* A 100 while the offer is looked at, and one final answer after it.
HeardInv ==
  /\ phase \in {"wire", "dropped"} => heard = <<>>
  /\ phase = "invite" => \E d : heard = <<d>> /\ AnswersTo(d, request, 100)
  /\ phase = "done" =>
       \/ heard = <<>>
       \/ \E d : \E code \in Final : heard = <<d>> /\ AnswersTo(d, request, code)
       \/ \E d, e : \E code \in Final :
            heard = <<d, e>> /\ AnswersTo(d, request, 100) /\ AnswersTo(e, request, code)

\* What has been read and what is left of the offer is the body, as far as it goes.
OfBody(lines) ==
  IsPrefix(lines, datagram.body) /\ (LengthIsRight => lines = datagram.body)
BodyInv ==
  /\ phase = "invite" => OfBody(read \o offer)
  /\ step # "parse" => offer = <<>> /\ OfBody(read)

\* The last answer has the lines of the agreement.
AnswerInv ==
  step = "accepted" =>
    /\ heard # <<>> /\ Parse(heard[Len(heard)]).body = AnswerLines(codec)

ExchangeInv == WireInv /\ RequestInv /\ HeardInv /\ BodyInv /\ AnswerInv

\* The invariant holds at the start.
LEMMA ExchangeBegins == ExchangeInit => ExchangeInv
<1> SUFFICES ASSUME ExchangeInit  PROVE ExchangeInv
  OBVIOUS
<1>1. NothingRead /\ offer = <<>> /\ phase = "wire" /\ heard = <<>>
  BY DEF ExchangeInit
<1>2. OfferInv
  BY <1>1, NothingIsKnown
<1>3. datagram \in Datagram(Line)
  BY WireAssumption DEF ExchangeInit
<1>4. step = "parse"
  BY <1>1 DEF NothingRead
<1> QED  BY <1>1, <1>2, <1>3, <1>4
         DEF ExchangeInv, WireInv, RequestInv, HeardInv, BodyInv, AnswerInv

\* What a request says stays the same after it has been received.
LEMMA OperatorsStay ==
  ASSUME UNCHANGED datagram
  PROVE  /\ LengthIsRight' = LengthIsRight /\ RepeatedHeaderIsFolded' = RepeatedHeaderIsFolded
         /\ \A name : Written(name)' = Written(name)
         /\ \A s : OfBody(s)' = OfBody(s)
<1>1. LengthIsRight' = LengthIsRight
  BY DEF LengthIsRight, HeaderAt
<1>2. RepeatedHeaderIsFolded' = RepeatedHeaderIsFolded
  BY DEF RepeatedHeaderIsFolded, HeaderAt, Continuation
<1>3. ASSUME NEW name  PROVE Written(name)' = Written(name)
  BY DEF Written, HeaderAt, Text, Continuation
<1>4. ASSUME NEW s  PROVE OfBody(s)' = OfBody(s)
  BY <1>1 DEF OfBody
<1> QED  BY <1>1, <1>2, <1>3, <1>4

\* The same of what comes next.
LEMMA NothingIsKnownNext == (NothingRead /\ offer \in Seq(Line))' => OfferInv'
BY NothingIsKnown, PTL

\* The 100 is the first thing heard, and the body is the offer.
LEMMA ReceiveInviteKeeps ==
  ASSUME ExchangeInv, ReceiveInvite
  PROVE  ExchangeInv'
<1>1. PICK m : m = Parse(datagram)
  OBVIOUS
<1>2. /\ phase = "wire" /\ phase' = "invite"
      /\ m.isRequest /\ request' = m /\ offer' = m.body /\ heard' = <<Respond(m, 100)>>
      /\ UNCHANGED <<read, session, step, codec, remote, datagram>>
  BY <1>1, Zenon DEF ReceiveInvite
<1>3. datagram \in Datagram(Line) /\ NothingRead
  BY <1>2 DEF ExchangeInv, WireInv
<1>4. /\ m.headers \in Headers
      /\ ~RepeatedHeaderIsFolded =>
           \A name \in HeaderName : IsNamed(name) => m.headers[name] = Written(name)
      /\ m.body \in Seq(Line)
      /\ OfBody(m.body)
  <2>1. m.isRequest
    BY <1>2
  <2> QED  BY <1>1, <1>3, <2>1, RequestIs DEF OfBody
<1>5. NothingRead' /\ step = "parse" /\ read = <<>>
  BY <1>2, <1>3 DEF NothingRead
<1>6. WireInv'
  <2>1. offer' \in Seq(Line)
    BY <1>2, <1>4
  <2>2. OfferInv'
    BY <1>5, <2>1, NothingIsKnownNext
  <2> QED  BY <1>2, <1>3, <1>5, <2>2 DEF WireInv
<1>7. RequestInv'
  <2>1. RepeatedHeaderIsFolded' = RepeatedHeaderIsFolded /\ \A name : Written(name)' = Written(name)
    BY <1>2, OperatorsStay
  <2> QED  BY <1>2, <1>4, <2>1, Zenon DEF RequestInv
<1>8. HeardInv'
  <2>1. AnswersTo(Respond(m, 100), m, 100)
    BY <1>4, RespondAnswers
  <2>2. \E d : heard' = <<d>> /\ AnswersTo(d, request', 100)
    BY <1>2, <2>1, Zenon
  <2> QED  BY <1>2, <2>2 DEF HeardInv
<1>9. BodyInv'
  <2>1. <<>> \o m.body = m.body
    BY <1>4, ConcatEmptySeq
  <2>2. (read \o offer)' = m.body
    BY <1>2, <1>5, <2>1, Zenon
  <2>3. OfBody(m.body)' = OfBody(m.body)
    BY <1>2, OperatorsStay
  <2>4. OfBody(read \o offer)'
    BY <1>2, <1>4, <2>2, <2>3, Zenon DEF OfBody
  <2> QED  BY <1>2, <1>5, <2>4 DEF BodyInv
<1>10. AnswerInv'
  BY <1>2, <1>5 DEF AnswerInv
<1> QED  BY <1>6, <1>7, <1>8, <1>9, <1>10 DEF ExchangeInv

\* One final answer, or none to an ACK.
LEMMA ReceiveOtherKeeps ==
  ASSUME ExchangeInv, ReceiveOther
  PROVE  ExchangeInv'
<1>1. PICK m : m = Parse(datagram)
  OBVIOUS
<1>2. /\ phase = "wire" /\ phase' = "done"
      /\ m.isRequest /\ request' = m
      /\ heard' = IF m.method = "ACK" THEN <<>> ELSE <<Respond(m, CodeFor(m.method))>>
      /\ UNCHANGED <<vars, datagram>>
  BY <1>1, Zenon DEF ReceiveOther
<1>3. datagram \in Datagram(Line) /\ NothingRead
  BY <1>2 DEF ExchangeInv, WireInv
<1>4. /\ m.headers \in Headers
      /\ ~RepeatedHeaderIsFolded =>
           \A name \in HeaderName : IsNamed(name) => m.headers[name] = Written(name)
  <2>1. m.isRequest
    BY <1>2
  <2> QED  BY <1>1, <1>3, <2>1, RequestIs
<1>5. step' = "parse" /\ step = "parse"
  BY <1>2, <1>3 DEF NothingRead, vars
<1>6. WireInv'
  <2>1. OfferInv'
    BY <1>2, NegotiationKeeps DEF ExchangeInv, WireInv
  <2> QED  BY <1>2, <1>3, <1>5, <2>1 DEF WireInv
<1>7. RequestInv'
  <2>1. RepeatedHeaderIsFolded' = RepeatedHeaderIsFolded /\ \A name : Written(name)' = Written(name)
    BY <1>2, OperatorsStay
  <2> QED  BY <1>2, <1>4, <2>1, Zenon DEF RequestInv
<1>8. HeardInv'
  <2>1. PICK code \in Final : code = CodeFor(m.method)
    BY DEF CodeFor, Final
  <2>2. PICK d : d = Respond(m, code) /\ AnswersTo(d, m, code)
    BY <1>4, RespondAnswers
  <2>3. heard' = <<>> \/ (heard' = <<d>> /\ AnswersTo(d, request', code))
    BY <1>2, <2>1, <2>2, Zenon
  <2>4. heard' = <<>> \/ \E c : \E x \in Final : heard' = <<c>> /\ AnswersTo(c, request', x)
    BY <2>3, Zenon
  <2> QED  BY <1>2, <2>4, Zenon DEF HeardInv
<1>9. BodyInv' /\ AnswerInv'
  BY <1>2, <1>5 DEF BodyInv, AnswerInv
<1> QED  BY <1>6, <1>7, <1>8, <1>9 DEF ExchangeInv

\* No request, or nothing at all, changes.
LEMMA OthersKeep ==
  ASSUME ExchangeInv, Drop \/ UNCHANGED <<vars, exchangeVars>>
  PROVE  ExchangeInv'
<1>1. UNCHANGED vars /\ UNCHANGED <<datagram, heard>>
  BY DEF Drop, exchangeVars
<1>2. \/ phase = "wire" /\ phase' = "dropped"
      \/ phase' = phase /\ request' = request
  BY DEF Drop, exchangeVars
<1>3. UNCHANGED <<offer, read, session, step, codec, remote>>
  BY <1>1 DEF vars
<1>4. WireInv'
  <2>1. OfferInv'
    BY <1>1, NegotiationKeeps DEF ExchangeInv, WireInv
  <2>2. NothingRead' = NothingRead
    BY <1>3 DEF NothingRead
  <2> QED  BY <1>1, <1>2, <1>3, <2>1, <2>2 DEF ExchangeInv, WireInv
<1>5. RequestInv'
  <2>1. RepeatedHeaderIsFolded' = RepeatedHeaderIsFolded /\ \A name : Written(name)' = Written(name)
    BY <1>1, OperatorsStay
  <2>2. CASE phase' = "dropped"
    BY <2>2 DEF RequestInv
  <2>3. CASE phase' = phase /\ request' = request
    <3>1. RequestInv
      BY DEF ExchangeInv
    <3> QED  BY <2>1, <2>3, <3>1, Zenon DEF RequestInv
  <2> QED  BY <1>2, <2>2, <2>3
<1>6. HeardInv'
  <2>1. HeardInv
    BY DEF ExchangeInv
  <2>2. CASE phase = "wire" /\ phase' = "dropped"
    BY <1>1, <2>1, <2>2 DEF HeardInv
  <2>3. CASE phase' = phase /\ request' = request
    <3>1. heard' = heard
      BY <1>1
    <3> QED  BY <2>1, <2>3, <3>1, Zenon DEF HeardInv
  <2> QED  BY <1>2, <2>2, <2>3
<1>7. BodyInv'
  <2>1. BodyInv
    BY DEF ExchangeInv
  <2>2. OfBody(read \o offer)' = OfBody(read \o offer) /\ OfBody(read)' = OfBody(read)
    BY <1>1, <1>3, OperatorsStay DEF OfBody
  <2> QED  BY <1>2, <1>3, <2>1, <2>2 DEF BodyInv
<1>8. AnswerInv'
  <2>1. AnswerInv
    BY DEF ExchangeInv
  <2>2. step' = step /\ heard' = heard /\ codec' = codec
    BY <1>1, <1>3
  <2> QED  BY <2>1, <2>2, Zenon DEF AnswerInv
<1> QED  BY <1>4, <1>5, <1>6, <1>7, <1>8 DEF ExchangeInv

\* A line that has been read is one less to read.
LEMMA LineMoves ==
  ASSUME NEW L, NEW s \in Seq(L), NEW t \in Seq(L), t # <<>>
  PROVE  Append(s, Head(t)) \o Tail(t) = s \o t
OBVIOUS

\* Reading the offer leaves the rest alone.
LEMMA ReadOfferKeeps ==
  ASSUME ExchangeInv, ReadOffer
  PROVE  ExchangeInv'
<1>1. phase = "invite" /\ (ParseLine \/ ParseEnds) /\ UNCHANGED <<datagram, phase, request, heard>>
  BY DEF ReadOffer, exchangeVars
<1>2. WireInv'
  <2>1. OfferInv'
    BY <1>1, NegotiationKeeps DEF ExchangeInv, WireInv, Next
  <2>2. step' \in {"parse", "answer"}
    BY <1>1 DEF ParseLine, ParseEnds, ExchangeInv, WireInv
  <2> QED  BY <1>1, <2>1, <2>2 DEF ExchangeInv, WireInv
<1>3. RequestInv'
  <2>1. RepeatedHeaderIsFolded' = RepeatedHeaderIsFolded /\ \A name : Written(name)' = Written(name)
    BY <1>1, OperatorsStay
  <2>2. RequestInv
    BY DEF ExchangeInv
  <2> QED  BY <1>1, <2>1, <2>2, Zenon DEF RequestInv
<1>4. HeardInv'
  <2>1. HeardInv
    BY DEF ExchangeInv
  <2> QED  BY <1>1, <2>1, Zenon DEF HeardInv
<1>5. BodyInv'
  <2>1. OfBody(read \o offer)
    BY <1>1 DEF ExchangeInv, BodyInv
  <2>2. \A s : OfBody(s)' = OfBody(s)
    BY <1>1, OperatorsStay
  <2>3. read \in Seq(Line) /\ offer \in Seq(Line)
    BY DEF ExchangeInv, WireInv, OfferInv, ReadTypes
  <2>4. CASE ParseLine
    <3>1. /\ offer # <<>> /\ offer' = Tail(offer) /\ read' = Append(read, Head(offer))
          /\ step' = "parse"
      BY <2>4 DEF ParseLine
    <3>2. read' \o offer' = read \o offer
      BY <2>3, <3>1, LineMoves
    <3>3. OfBody(read \o offer)'
      <4>1. PICK s : s = read \o offer
        OBVIOUS
      <4>2. (read \o offer)' = s /\ OfBody(s)
        BY <2>1, <3>2, <4>1
      <4>3. OfBody(s)'
        BY <2>2, <4>2
      <4> QED  BY <4>2, <4>3, Zenon DEF OfBody
    <3> QED  BY <3>1, <3>3 DEF BodyInv
  <2>5. CASE ParseEnds
    <3>1. offer = <<>> /\ offer' = offer /\ read' = read
      BY <2>5 DEF ParseEnds
    <3>2. read \o offer = read
      BY <2>3, <3>1, ConcatEmptySeq
    <3>3. OfBody(read) /\ OfBody(read \o offer)
      BY <2>1, <3>2
    <3>4. LengthIsRight' = LengthIsRight /\ datagram' = datagram
      BY <1>1, OperatorsStay
    <3>5. OfBody(read)' /\ OfBody(read \o offer)'
      BY <3>1, <3>3, <3>4, Zenon DEF OfBody
    <3> QED  BY <3>1, <3>5 DEF BodyInv
  <2> QED  BY <1>1, <2>4, <2>5
<1>6. AnswerInv'
  BY <1>1 DEF ParseLine, ParseEnds, AnswerInv
<1> QED  BY <1>2, <1>3, <1>4, <1>5, <1>6 DEF ExchangeInv

\* 200 or 488 is the second thing heard, and the last.
LEMMA AnswerInviteKeeps ==
  ASSUME ExchangeInv, AnswerInvite
  PROVE  ExchangeInv'
<1>1. /\ phase = "invite" /\ phase' = "done" /\ Answer
      /\ UNCHANGED <<datagram, request>>
  BY DEF AnswerInvite
<1>2. /\ step = "answer" /\ UNCHANGED <<offer, read, session>>
      /\ step' \in {"accepted", "refused"}
  BY <1>1 DEF Answer
<1>3. PICK e :
        /\ heard' = Append(heard, e)
        /\ step' = "refused" => e = Respond(request, 488)
        /\ step' = "accepted" => e = Accept(request, codec')
  <2> DEFINE x == Respond(request, 488)
             y == Accept(request, codec')
  <2>1. heard' = Append(heard, IF step' = "refused" THEN x ELSE y)
    BY Zenon DEF AnswerInvite, Accept
  <2>2. step' = "accepted" => step' # "refused"
    BY <1>2
  <2> HIDE DEF x, y
  <2>3. \E e : heard' = Append(heard, e) /\ (step' = "refused" => e = x)
               /\ (step' = "accepted" => e = y)
    BY <2>1, <2>2
  <2> QED  BY <2>3, Zenon DEF x, y
<1>4. request.headers \in Headers
  BY <1>1 DEF ExchangeInv, RequestInv
<1>5. /\ \E code \in Final : AnswersTo(e, request, code)
      /\ step' = "accepted" => Parse(e).body = AnswerLines(codec')
  <2>1. CASE step' = "refused"
    <3>1. AnswersTo(e, request, 488)
      BY <1>3, <1>4, <2>1, RespondAnswers
    <3> QED  BY <2>1, <3>1 DEF Final
  <2>2. CASE step' = "accepted"
    <3>1. PICK c : c = codec'
      OBVIOUS
    <3>2. e = Accept(request, c)
      BY <1>3, <2>2, <3>1, Zenon
    <3>3. AnswersTo(e, request, 200) /\ Parse(e).body = AnswerLines(c)
      BY <1>4, <3>2, AcceptAnswers
    <3> QED  BY <3>1, <3>3 DEF Final
  <2> QED  BY <1>2, <2>1, <2>2
<1>6. PICK d : heard = <<d>> /\ AnswersTo(d, request, 100)
  BY <1>1 DEF ExchangeInv, HeardInv
<1>7. heard' = <<d, e>>
  <2>1. \A a, b : <<a, b>> = Append(<<a>>, b)
    OBVIOUS
  <2> QED  BY <1>3, <1>6, <2>1, Zenon
<1>8. WireInv'
  <2>1. OfferInv'
    BY <1>1, NegotiationKeeps DEF ExchangeInv, WireInv, Next
  <2> QED  BY <1>1, <1>2, <2>1 DEF ExchangeInv, WireInv
<1>9. RequestInv'
  <2>1. RepeatedHeaderIsFolded' = RepeatedHeaderIsFolded /\ \A name : Written(name)' = Written(name)
    BY <1>1, OperatorsStay
  <2>2. RequestInv
    BY DEF ExchangeInv
  <2> QED  BY <1>1, <2>1, <2>2, Zenon DEF RequestInv
<1>10. HeardInv'
  <2>1. \E code \in Final : heard' = <<d, e>> /\ AnswersTo(d, request', 100)
                                             /\ AnswersTo(e, request', code)
    BY <1>1, <1>5, <1>6, <1>7, Zenon
  <2>2. \E a, b : \E code \in Final : heard' = <<a, b>> /\ AnswersTo(a, request', 100)
                                             /\ AnswersTo(b, request', code)
    BY <2>1, Zenon
  <2> QED  BY <1>1, <2>2 DEF HeardInv
<1>11. BodyInv'
  <2>1. offer = <<>> /\ OfBody(read)
    BY <1>2 DEF ExchangeInv, BodyInv
  <2>2. LengthIsRight' = LengthIsRight /\ datagram' = datagram
    BY <1>1, OperatorsStay
  <2>3. OfBody(read)'
    BY <1>2, <2>1, <2>2, Zenon DEF OfBody
  <2> QED  BY <1>1, <1>2, <2>1, <2>3 DEF BodyInv
<1>12. AnswerInv'
  <2>1. heard' # <<>> /\ heard'[Len(heard')] = e
    BY <1>7
  <2> QED  BY <1>5, <2>1, Zenon DEF AnswerInv
<1> QED  BY <1>8, <1>9, <1>10, <1>11, <1>12 DEF ExchangeInv

\* Each step of the exchange keeps the invariant.
LEMMA ExchangeKeeps == ExchangeInv /\ [ExchangeNext]_<<vars, exchangeVars>> => ExchangeInv'
<1> SUFFICES ASSUME ExchangeInv, [ExchangeNext]_<<vars, exchangeVars>>  PROVE ExchangeInv'
  OBVIOUS
<1>1. CASE ReceiveInvite
  BY <1>1, ReceiveInviteKeeps
<1>2. CASE ReceiveOther
  BY <1>2, ReceiveOtherKeeps
<1>3. CASE Drop \/ UNCHANGED <<vars, exchangeVars>>
  BY <1>3, OthersKeep
<1>4. CASE ReadOffer
  BY <1>4, ReadOfferKeeps
<1>5. CASE AnswerInvite
  BY <1>5, AnswerInviteKeeps
<1> QED  BY <1>1, <1>2, <1>3, <1>4, <1>5 DEF ExchangeNext

-----------------------------------------------------------------------------
(* What the client finds.                                                  *)

\* The answer repeats what the client has written.
Matches(res, code) ==
  /\ ~res.isRequest /\ res.statusCode = code
  /\ res.headers["via"] = Written("via")
  /\ \A name \in {"from", "call-id", "cseq"} : GetHeader(res, name) = FirstWritten(name)
  /\ GetHeader(res, "to") \in
       IF code >= 200 /\ ~HasTag(FirstWritten("to")) /\ Written("to") # <<>>
         THEN {Append(FirstWritten("to"), GeneratedTag)} ELSE {FirstWritten("to")}

\* It finds that in every answer to its request.
LEMMA AnswerMatches ==
  ASSUME ~RepeatedHeaderIsFolded, RequestInv, phase \in {"invite", "done"},
         NEW d, NEW code, AnswersTo(d, request, code), NEW res, res = Parse(d)
  PROVE  Matches(res, code)
<1> DEFINE values == Written("to")
           to == FirstWritten("to")
           tags == code >= 200 /\ ~HasTag(to)
<1>1. /\ request.headers \in Headers
      /\ \A name \in HeaderName : IsNamed(name) => request.headers[name] = Written(name)
  BY DEF RequestInv
<1>2. /\ res.isRequest = FALSE /\ res.statusCode = code
      /\ res.headers["via"] = request.headers["via"]
      /\ res.headers["to"] = ToOf(request, code)
      /\ \A name \in {"from", "call-id", "cseq"} : res.headers[name] = First(request, name)
  BY Zenon DEF AnswersTo
<1>3. \A name \in {"via", "from", "to", "call-id", "cseq"} :
        name \in HeaderName /\ request.headers[name] = Written(name)
  BY <1>1, NamesAre, Zenon
<1>4. ASSUME NEW name \in {"via", "from", "to", "call-id", "cseq"}
      PROVE  /\ GetHeader(request, name) = FirstWritten(name)
             /\ request.headers[name] # <<>> => Head(request.headers[name]) = FirstWritten(name)
  BY <1>3, Zenon DEF GetHeader, HasHeader, FirstWritten
<1>5. \A x : <<x>> # <<>> /\ Head(<<x>>) = x
  OBVIOUS
<1>6. ASSUME NEW name \in {"from", "call-id", "cseq"}
      PROVE  GetHeader(res, name) = FirstWritten(name)
  <2>1. name \in {"via", "from", "to", "call-id", "cseq"}
    OBVIOUS
  <2>2. res.headers[name] = First(request, name) /\ GetHeader(request, name) = FirstWritten(name)
    BY <1>2, <1>4, <2>1, Zenon
  <2>3. CASE request.headers[name] = <<>>
    <3>1. res.headers[name] = <<>> /\ GetHeader(request, name) = <<>>
      BY <2>2, <2>3, Zenon DEF First, HasHeader, GetHeader
    <3> QED  BY <2>2, <3>1, Zenon DEF HasHeader, GetHeader
  <2>4. CASE request.headers[name] # <<>>
    <3>1. res.headers[name] = <<GetHeader(request, name)>>
      BY <2>2, <2>4, Zenon DEF First, HasHeader
    <3> QED  BY <1>5, <2>2, <3>1, Zenon DEF HasHeader, GetHeader
  <2> QED  BY <2>3, <2>4
<1>7. /\ values = <<>> => res.headers["to"] = <<>> /\ to = <<>>
      /\ values # <<>> => res.headers["to"] = IF tags THEN <<Append(to, GeneratedTag)>> ELSE <<to>>
  <2>1. "to" \in {"via", "from", "to", "call-id", "cseq"}
    OBVIOUS
  <2>2. /\ GetHeader(request, "to") = to /\ request.headers["to"] = values
        /\ values # <<>> => Head(request.headers["to"]) = to
    BY <1>3, <1>4, <2>1, Zenon
  <2>3. /\ request.headers["to"] = <<>> => ToOf(request, code) = <<>>
        /\ request.headers["to"] # <<>> =>
              ToOf(request, code) =
                IF code >= 200 /\ ~HasTag(GetHeader(request, "to"))
                  THEN <<Append(Head(request.headers["to"]), GeneratedTag)>>
                  ELSE <<Head(request.headers["to"])>>
    <3>1. PICK req : req = request /\ req.headers \in Headers
      BY <1>1
    <3> QED  BY <3>1, ToType
  <2>4. values = <<>> => to = <<>>
    BY Zenon DEF FirstWritten
  <2> QED  BY <1>2, <2>2, <2>3, <2>4, Zenon
<1>8. GetHeader(res, "to") =
        IF tags /\ values # <<>> THEN Append(to, GeneratedTag) ELSE to
  <2> HIDE DEF values, tags, to
  <2>1. CASE values = <<>>
    BY <1>7, <2>1, Zenon DEF HasHeader, GetHeader
  <2>2. CASE values # <<>> /\ tags
    BY <1>5, <1>7, <2>2, Zenon DEF HasHeader, GetHeader
  <2>3. CASE values # <<>> /\ ~tags
    BY <1>5, <1>7, <2>3, Zenon DEF HasHeader, GetHeader
  <2> QED  BY <2>1, <2>2, <2>3
<1>9. ~res.isRequest
  BY <1>2
<1>10. res.headers["via"] = Written("via")
  BY <1>2, <1>3, Zenon
<1>11. GetHeader(res, "to") \in
         IF code >= 200 /\ ~HasTag(to) /\ values # <<>>
           THEN {Append(to, GeneratedTag)} ELSE {to}
  <2> HIDE DEF values, to
  <2>1. CASE tags /\ values # <<>>
    BY <1>8, <2>1, Zenon
  <2>2. CASE ~(tags /\ values # <<>>)
    BY <1>8, <2>2, Zenon
  <2> QED  BY <2>1, <2>2
<1> QED  BY <1>2, <1>6, <1>9, <1>10, <1>11, Zenon DEF Matches

\* Nothing but such answers is heard, the final one last.
LEMMA ResponsesMatch == ExchangeInv => ResponsesMatchRequest
<1> SUFFICES ASSUME ExchangeInv, ~RepeatedHeaderIsFolded, NEW i \in DOMAIN heard
    PROVE  LET res == Parse(heard[i])
               final == res.statusCode >= 200
               to == FirstWritten("to")
           IN  /\ ~res.isRequest
               /\ res.headers["via"] = Written("via")
               /\ \A name \in {"from", "call-id", "cseq"} :
                    GetHeader(res, name) = FirstWritten(name)
               /\ GetHeader(res, "to") \in
                    IF final /\ ~HasTag(to) /\ Written("to") # <<>>
                      THEN {Append(to, GeneratedTag)} ELSE {to}
               /\ final <=> (i = Len(heard) /\ phase = "done")
  BY Zenon DEF ResponsesMatchRequest
<1>1. PICK res : res = Parse(heard[i])
  OBVIOUS
<1>2. \E code : /\ AnswersTo(heard[i], request, code)
                /\ code \in {100, 200, 202, 488, 501}
                /\ code >= 200 <=> (i = Len(heard) /\ phase = "done")
  <2>1. heard # <<>>
    OBVIOUS
  <2>2. HeardInv /\ phase \in {"wire", "invite", "done", "dropped"}
    BY DEF ExchangeInv, WireInv
  <2>3. CASE phase = "invite"
    <3>1. PICK d : heard = <<d>> /\ AnswersTo(d, request, 100)
      BY <2>2, <2>3, Zenon DEF HeardInv
    <3>2. i = 1 /\ heard[i] = d
      BY <3>1
    <3> QED  BY <2>3, <3>1, <3>2
  <2>4. CASE phase = "done"
    <3>1. CASE \E d : \E code \in Final : heard = <<d>> /\ AnswersTo(d, request, code)
      <4>1. PICK d, code : code \in Final /\ heard = <<d>> /\ AnswersTo(d, request, code)
        BY <3>1
      <4>2. i = 1 /\ heard[i] = d /\ Len(heard) = 1
        BY <4>1
      <4> QED  BY <2>4, <4>1, <4>2 DEF Final
    <3>2. CASE \E d, e : \E code \in Final : heard = <<d, e>> /\ AnswersTo(d, request, 100)
                                                             /\ AnswersTo(e, request, code)
      <4>1. PICK d, e, code : code \in Final /\ heard = <<d, e>> /\ AnswersTo(d, request, 100)
                              /\ AnswersTo(e, request, code)
        BY <3>2
      <4>2. Len(heard) = 2 /\ ((i = 1 /\ heard[i] = d) \/ (i = 2 /\ heard[i] = e))
        BY <4>1
      <4> QED  BY <2>4, <4>1, <4>2 DEF Final
    <3> QED  BY <2>1, <2>2, <2>4, <3>1, <3>2, Zenon DEF HeardInv
  <2> QED  BY <2>1, <2>2, <2>3, <2>4 DEF HeardInv
<1>3. PICK code : /\ AnswersTo(heard[i], request, code)
                  /\ code \in {100, 200, 202, 488, 501}
                  /\ code >= 200 <=> (i = Len(heard) /\ phase = "done")
  BY <1>2
<1>4. phase \in {"invite", "done"} /\ RequestInv
  BY DEF ExchangeInv, WireInv, HeardInv
<1>5. Matches(res, code)
  <2>1. PICK d : d = heard[i]
    OBVIOUS
  <2> QED  BY <1>1, <1>3, <1>4, <2>1, AnswerMatches
<1>6. res.statusCode = code
  BY <1>5, Zenon DEF Matches
<1> QED  BY <1>1, <1>3, <1>5, <1>6, ZenonT(40) DEF Matches

\* What has been read when the parser ends is the body.
LEMMA WholeOffer == ExchangeInv => WholeOfferIsRead
BY DEF ExchangeInv, BodyInv, OfBody, WholeOfferIsRead

\* What a parser makes of lines.
Said(base, lines) == FoldLeft(AfterLine, base, lines)

\* A session of three lines is what the three make of it one after the other.
LEMMA ThreeLines ==
  ASSUME NEW base, NEW l, NEW m, NEW r
  PROVE  Said(base, <<l, m, r>>) = AfterLine(AfterLine(AfterLine(base, l), m), r)
<1> DEFINE lines == <<l, m, r>>
           G(g) == [s \in SUBSET (DOMAIN lines) |->
                      IF s = {} THEN base ELSE AfterLine(g[s \ {Max(s)}], lines[Max(s)])]
           fold == CHOOSE g : g = G(g)
           One(s) == IF 1 \in s THEN AfterLine(base, l) ELSE base
           Two(s) == IF 2 \in s THEN AfterLine(One(s), m) ELSE One(s)
           Three(s) == IF 3 \in s THEN AfterLine(Two(s), r) ELSE Two(s)
           f == [s \in SUBSET (1 .. 3) |-> Three(s)]
<1>1. /\ DOMAIN lines = 1 .. 3 /\ lines[1] = l /\ lines[2] = m /\ lines[3] = r
  OBVIOUS
<1>2. FoldLeft(AfterLine, base, lines) = fold[1 .. 3]
  BY <1>1 DEF FoldLeft, MapThenFoldSet
<1> HIDE DEF lines
<1>3. ASSUME NEW s \in SUBSET (1 .. 3)
      PROVE  /\ 3 \in s => Max(s) = 3
             /\ 3 \notin s /\ 2 \in s => Max(s) = 2
             /\ 3 \notin s /\ 2 \notin s /\ 1 \in s => Max(s) = 1
             /\ 3 \notin s /\ 2 \notin s /\ 1 \notin s => s = {}
  <2>1. ASSUME NEW n \in s, \A k \in s : k <= n  PROVE Max(s) = n
    BY <2>1, MaxIs
  <2> QED  BY <2>1
<1>4. f = G(f)
  <2>1. ASSUME NEW s \in SUBSET (1 .. 3)
        PROVE  f[s] = IF s = {} THEN base ELSE AfterLine(f[s \ {Max(s)}], lines[Max(s)])
    <3>1. CASE 3 \in s
      <4>1. Max(s) = 3 /\ s # {} /\ f[s \ {3}] = Two(s) /\ f[s] = AfterLine(Two(s), r)
        BY <1>3, <3>1
      <4> HIDE DEF f
      <4> QED  BY <1>1, <4>1
    <3>2. CASE 3 \notin s /\ 2 \in s
      <4>1. Max(s) = 2 /\ s # {} /\ f[s \ {2}] = One(s) /\ f[s] = AfterLine(One(s), m)
        BY <1>3, <3>2
      <4> HIDE DEF f
      <4> QED  BY <1>1, <4>1
    <3>3. CASE 3 \notin s /\ 2 \notin s /\ 1 \in s
      <4>1. Max(s) = 1 /\ s # {} /\ f[s \ {1}] = base /\ f[s] = AfterLine(base, l)
        BY <1>3, <3>3
      <4> HIDE DEF f
      <4> QED  BY <1>1, <4>1
    <3>4. CASE s = {}
      BY <3>4
    <3> QED  BY <1>3, <3>1, <3>2, <3>3, <3>4
  <2>2. f = [s \in SUBSET (1 .. 3) |-> f[s]]
    OBVIOUS
  <2> HIDE DEF f
  <2> QED  BY <1>1, <2>1, <2>2
<1> HIDE DEF f
<1>5. fold = G(fold)
  <2> HIDE DEF G
  <2> QED  BY <1>4
<1> HIDE DEF fold
<1>6. ASSUME NEW s \in SUBSET (1 .. 3)
      PROVE  fold[s] = IF s = {} THEN base ELSE AfterLine(fold[s \ {Max(s)}], lines[Max(s)])
  BY <1>1, <1>5
<1>7. fold[{}] = base
  BY <1>6
<1>8. fold[{1}] = AfterLine(base, l)
  <2>1. {1} \in SUBSET (1 .. 3) /\ {1} # {} /\ {1} \ {1} = {} /\ Max({1}) = 1
    BY <1>3
  <2> QED  BY <1>1, <1>6, <1>7, <2>1
<1>9. fold[{1, 2}] = AfterLine(AfterLine(base, l), m)
  <2>1. {1, 2} \in SUBSET (1 .. 3) /\ {1, 2} # {} /\ {1, 2} \ {2} = {1} /\ Max({1, 2}) = 2
    BY <1>3
  <2> QED  BY <1>1, <1>6, <1>8, <2>1, ZenonT(40)
<1>10. fold[1 .. 3] = AfterLine(AfterLine(AfterLine(base, l), m), r)
  <2>1. 1 .. 3 \in SUBSET (1 .. 3) /\ 1 .. 3 # {} /\ (1 .. 3) \ {3} = {1, 2} /\ Max(1 .. 3) = 3
    BY <1>3
  <2> QED  BY <1>1, <1>6, <1>9, <2>1
<1> QED  BY <1>2, <1>10, Zenon DEF lines, Said

\* What each of the three lines of an answer makes of a session: a c= line,
LEMMA AddressIs ==
  ASSUME NEW a, NEW b, NEW c, NEW s, s = [connectionIp |-> a, media |-> b, rtpMap |-> c],
         NEW x, NEW l, l = [kind |-> "c", address |-> x]
  PROVE  AfterLine(s, l) = [connectionIp |-> x, media |-> b, rtpMap |-> c]
<1>1. l.kind = "c" /\ l.address = x
  OBVIOUS
<1> QED  BY <1>1 DEF AfterLine

\* An m= line,
LEMMA MediaIs ==
  ASSUME NEW a, NEW b, NEW c, NEW s, s = [connectionIp |-> a, media |-> b, rtpMap |-> c],
         NEW x, NEW l, l = [kind |-> "m", media |-> x], NEW more, more = Append(b, x)
  PROVE  AfterLine(s, l) = [connectionIp |-> a, media |-> more, rtpMap |-> c]
<1>1. l.kind = "m" /\ l.media = x
  OBVIOUS
<1>2. AfterLine(s, l) = [s EXCEPT !.media = Append(@, x)]
  BY <1>1 DEF AfterLine
<1> QED  BY <1>2

\* and an rtpmap line.
LEMMA MapIs ==
  ASSUME NEW a, NEW b, NEW c, NEW s, s = [connectionIp |-> a, media |-> b, rtpMap |-> c],
         NEW x, NEW l, l = [kind |-> "rtpmap", map |-> x]
  PROVE  AfterLine(s, l) = [connectionIp |-> a, media |-> b,
                            rtpMap |-> [c EXCEPT ![x.payloadType] = x.name]]
<1>1. l.kind = "rtpmap" /\ l.map = x
  OBVIOUS
<1>2. AfterLine(s, l) = [s EXCEPT !.rtpMap[x.payloadType] = x.name]
  BY <1>1 DEF AfterLine
<1> QED  BY <1>2

\* The codec that was agreed is on offer under its name and is one of the preferences.
LEMMA AgreedIs ==
  ASSUME OfferInv, step = "accepted"
  PROVE  /\ codec.payloadType \in OfferedTypes /\ codec.payloadType \in PayloadType
         /\ Meaning(codec.payloadType) = codec.name
         /\ codec.name \in ToSet(Preference) /\ codec.name # Unset
<1>1. /\ codec.payloadType \in OfferedTypes /\ Wanted # {}
      /\ codec.name = Preference[Min(Wanted)]
      /\ Meaning(codec.payloadType) = codec.name
  BY DEF OfferInv, AnswerIsBestOffered, Wanted
<1>2. OfferedTypes \subseteq PayloadType
  <2>1. /\ AudioLines(session) = {} => OfferedTypes = {}
        /\ AudioLines(session) # {} =>
              LET pts == session.media[Min(AudioLines(session))].payloadTypes
              IN  pts \in Seq(PayloadType) /\ OfferedTypes = ToSet(pts)
    BY OfferedAre DEF OfferInv
  <2> QED  BY <2>1 DEF ToSet
<1>3. Min(Wanted) \in DOMAIN Preference
  <2>1. Wanted \in SUBSET Nat
    BY OfferAssumption DEF Wanted
  <2>2. Min(Wanted) \in Wanted
    BY <1>1, <2>1, MinIsLeast
  <2> QED  BY <2>2 DEF Wanted
<1>4. codec.name \in ToSet(Preference) /\ codec.name \in STRING
  BY <1>1, <1>3, OfferAssumption DEF ToSet
<1> QED  BY <1>1, <1>2, <1>4, OfferAssumption

\* The three lines of an answer make a session that says what was agreed.
LEMMA ClientLearns == ExchangeInv => ClientLearnsAgreed
<1> SUFFICES ASSUME ExchangeInv, step = "accepted"
    PROVE  LET answer == Parse(heard[Len(heard)]).body
               said == Said(
                         [connectionIp |-> Unset, media |-> <<>>,
                          rtpMap |-> [pt \in PayloadType |-> Unset]], answer)
               pts == said.media[1].payloadTypes
           IN  /\ said.connectionIp = BindIp
               /\ Len(said.media) = 1 /\ Len(pts) = 1
               /\ said.media[1].type = "audio" /\ said.media[1].port = LocalPort
               /\ pts[1] \in OfferedTypes
               /\ NameOf(said, pts[1]) = Meaning(pts[1])
               /\ Meaning(pts[1]) \in ToSet(Preference)
  BY Zenon DEF ClientLearnsAgreed, Said
<1> DEFINE unset == [pt \in PayloadType |-> Unset]
           base == [connectionIp |-> Unset, media |-> <<>>, rtpMap |-> unset]
           n == codec.payloadType
           media == [type |-> "audio", port |-> LocalPort, payloadTypes |-> <<n>>]
           map == [payloadType |-> n, name |-> codec.name]
           l == [kind |-> "c", address |-> BindIp]
           m == [kind |-> "m", media |-> media]
           r == [kind |-> "rtpmap", map |-> map]
           answer == Parse(heard[Len(heard)]).body
           said == Said(base, answer)
           learnt == [unset EXCEPT ![n] = codec.name]
<1>1. answer = <<l, m, r>>
  BY Zenon DEF ExchangeInv, AnswerInv, AnswerLines
<1>2. /\ n \in OfferedTypes /\ n \in PayloadType /\ Meaning(n) = codec.name
      /\ codec.name \in ToSet(Preference) /\ codec.name # Unset
  BY AgreedIs DEF ExchangeInv, WireInv
<1>3. PICK s : s = AfterLine(base, l)
  OBVIOUS
<1>4. PICK t : t = AfterLine(s, m)
  OBVIOUS
<1>5. said = AfterLine(t, r)
  <2> HIDE DEF base, l, m, r, answer
  <2>1. Said(base, answer) = AfterLine(AfterLine(AfterLine(base, l), m), r)
    BY <1>1, ThreeLines
  <2> QED  BY <1>3, <1>4, <2>1, Zenon
<1>6. said = [connectionIp |-> BindIp, media |-> <<media>>, rtpMap |-> learnt]
  <2> DEFINE none == <<>>
             one == <<media>>
  <2>0. Append(none, media) = one /\ map.payloadType = n /\ map.name = codec.name
    OBVIOUS
  <2>1. /\ base = [connectionIp |-> Unset, media |-> none, rtpMap |-> unset]
        /\ l = [kind |-> "c", address |-> BindIp] /\ m = [kind |-> "m", media |-> media]
        /\ r = [kind |-> "rtpmap", map |-> map]
    OBVIOUS
  <2> HIDE DEF base, unset, l, m, r, none, one, media, map, said, n
  <2>2. s = [connectionIp |-> BindIp, media |-> none, rtpMap |-> unset]
    BY <1>3, <2>1, AddressIs
  <2>3. t = [connectionIp |-> BindIp, media |-> one, rtpMap |-> unset]
    <3>1. m = [kind |-> "m", media |-> media]
      BY <2>1, Zenon
    <3>2. AfterLine(s, m) = [connectionIp |-> BindIp, media |-> one, rtpMap |-> unset]
      BY <2>0, <2>2, <3>1, MediaIs
    <3> QED  BY <1>4, <3>2, Zenon
  <2>4. said = [connectionIp |-> BindIp, media |-> one,
                rtpMap |-> [unset EXCEPT ![map.payloadType] = map.name]]
    <3>1. r = [kind |-> "rtpmap", map |-> map]
      BY <2>1, Zenon
    <3> QED  BY <1>5, <2>3, <3>1, MapIs
  <2> QED  BY <2>0, <2>4, Zenon DEF one
<1>7. learnt[n] = codec.name
  BY <1>2
<1>8. /\ said.connectionIp = BindIp /\ said.media = <<media>> /\ said.rtpMap[n] = codec.name
  <2> HIDE DEF learnt, said, media
  <2> QED  BY <1>6, <1>7
<1>9. /\ Len(<<media>>) = 1 /\ <<media>>[1] = media
      /\ media.type = "audio" /\ media.port = LocalPort
      /\ media.payloadTypes = <<n>> /\ Len(<<n>>) = 1 /\ <<n>>[1] = n
  OBVIOUS
<1> HIDE DEF answer, said, media, n
<1>10. NameOf(said, n) = codec.name
  BY <1>2, <1>8, NameIs
<1> QED  BY <1>2, <1>8, <1>9, <1>10, Zenon DEF said, answer, n

-----------------------------------------------------------------------------
(* The results.                                                            *)

\* SdpAnswer::generate answers every offer that SdpParser::parse has read with the first
\* of its own preferences that is on offer, under a number the peer gave it, or with 488
\* if there is none, in whatever order and however often numbers are named.
THEOREM BestIsAnswered == Spec => []AnswerIsBestOffered
<1>1. Init => OfferInv
  <2> SUFFICES ASSUME Init  PROVE OfferInv
    OBVIOUS
  <2>1. offer \in Seq(Line)
    BY OfferAssumption DEF Init, SeqOf
  <2> QED  BY <2>1, NothingIsKnown DEF Init
<1>2. OfferInv /\ [Next]_vars => OfferInv'
  BY NegotiationKeeps
<1>3. OfferInv => AnswerIsBestOffered
  BY DEF OfferInv
<1> QED  BY <1>1, <1>2, <1>3, PTL DEF Spec

\* The exchange keeps its invariant.
LEMMA ExchangeIsKept == ExchangeSpec => []ExchangeInv
BY ExchangeBegins, ExchangeKeeps, PTL DEF ExchangeSpec

\* The same from the wire: every INVITE that SipServer::poll reads and the handler accepts or
\* refuses is answered so, whatever else comes.
THEOREM InvitesAreAnsweredBest == ExchangeSpec => []AnswerIsBestOffered
<1>1. ExchangeInv => AnswerIsBestOffered
  BY DEF ExchangeInv, WireInv, OfferInv
<1> QED  BY <1>1, ExchangeIsKept, PTL

\* What the gateway answers to a request, of any header lines, folded or not, in any order,
\* is read by the client with every Via in order, From, To, Call-ID and CSeq as it wrote
\* them and a To tag in the final answer, and the final answer is the last one.
THEOREM ResponsesAreMatched == ExchangeSpec => []ResponsesMatchRequest
BY ExchangeIsKept, ResponsesMatch, PTL

\* SdpParser::parse is given the whole body of an INVITE and nothing else, wherever among the
\* headers SipParser::parse finds a Content-Length that is right.
THEOREM WholeOffersAreRead == ExchangeSpec => []WholeOfferIsRead
BY ExchangeIsKept, WholeOffer, PTL

\* Whoever parses the 200 finds one audio line with the gateway's port and the one payload
\* type that was agreed, under the name that both give it.
THEOREM AgreementIsLearnt == ExchangeSpec => []ClientLearnsAgreed
BY ExchangeIsKept, ClientLearns, PTL
=============================================================================
