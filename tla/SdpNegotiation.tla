--------------------------- MODULE SdpNegotiation ---------------------------
(***************************************************************************)
(* The offer/answer exchange of an INVITE: SdpParser::parse reads the      *)
(* offer line by line, SdpAnswer::generate picks a codec, handleSipMessage *)
(* takes the peer's address from the offer and startPipeline hands the     *)
(* payload type to the stages, which pick a decoder by it.                 *)
(*                                                                         *)
(* A line of the offer is a record; lines that negotiation does not look   *)
(* at are left out.                                                        *)
(***************************************************************************)
EXTENDS Integers, Sequences, SequencesExt, FiniteSetsExt

CONSTANTS
  Address,     \* addresses of c= lines
  Media,       \* what m= lines announce: [type, port, payloadTypes]
  PayloadType, \* numbers in m= and rtpmap lines: any int
  RtpMap,      \* what rtpmap lines say: [payloadType, name]
  Preference,  \* Config::codecPreference
  MaxLines,    \* bound on the lines of an offer
  Unset        \* no address, no name, no codec

ASSUME OfferAssumption ==
  /\ PayloadType \subseteq Int
  /\ Media \subseteq [type : {"audio", "video"}, port : Nat, payloadTypes : Seq(PayloadType)]
  /\ RtpMap \subseteq [payloadType : PayloadType, name : STRING]
  /\ Preference \in Seq(STRING)
  /\ MaxLines \in Nat
  /\ Unset \notin Address \cup STRING \cup Int

VARIABLES
  offer,   \* lines of the body not yet read
  read,    \* lines that have been read
  session, \* the SdpSession
  step,    \* where the handler stands
  codec,   \* the NegotiatedCodec
  remote   \* remoteRtpAddr_

vars == <<offer, read, session, step, codec, remote>>

Line ==
  [kind : {"c"}, address : Address]
    \cup [kind : {"m"}, media : Media]
    \cup [kind : {"rtpmap"}, map : RtpMap]

NoCodec == [payloadType |-> Unset, name |-> Unset]

TypeOK ==
  /\ offer \in Seq(Line)
  /\ read \in Seq(Line)
  /\ session.connectionIp \in Address \cup {Unset}
  /\ session.media \in Seq(Media)
  /\ session.rtpMap \in [PayloadType -> STRING \cup {Unset}]
  /\ step \in {"parse", "answer", "accepted", "refused"}
  /\ codec \in [payloadType : PayloadType \cup {Unset}, name : STRING \cup {Unset}]
  /\ step = "accepted" => codec.payloadType \in PayloadType
  /\ remote.port \in Nat

NothingRead ==
  /\ read = <<>>
  /\ session = [connectionIp |-> Unset, media |-> <<>>,
                rtpMap |-> [pt \in PayloadType |-> Unset]]
  /\ step = "parse"
  /\ codec = NoCodec
  /\ remote = [address |-> Unset, port |-> 0]

Init == NothingRead /\ offer \in SeqOf(Line, MaxLines)

-----------------------------------------------------------------------------

\* The loop of SdpParser::parse: what comes later overrides what came before.
AfterLine(s, l) ==
  CASE l.kind = "c" -> [s EXCEPT !.connectionIp = l.address]
    [] l.kind = "m" -> [s EXCEPT !.media = Append(@, l.media)]
    [] l.kind = "rtpmap" -> [s EXCEPT !.rtpMap[l.map.payloadType] = l.map.name]

ParseLine ==
  /\ step = "parse"
  /\ offer # <<>>
  /\ session' = AfterLine(session, Head(offer))
  /\ offer' = Tail(offer)
  /\ read' = Append(read, Head(offer))
  /\ UNCHANGED <<step, codec, remote>>

\* parse never fails: the 400 for a missing offer is never sent.
ParseEnds ==
  /\ step = "parse"
  /\ offer = <<>>
  /\ step' = "answer"
  /\ UNCHANGED <<offer, read, session, codec, remote>>

AudioLines(s) == {i \in DOMAIN s.media : s.media[i].type = "audio"}

\* The name of a payload type: rtpmap first, static numbers otherwise.
NameOf(s, pt) ==
  CASE s.rtpMap[pt] # Unset -> s.rtpMap[pt]
    [] s.rtpMap[pt] = Unset /\ pt = 0 -> "PCMU"
    [] s.rtpMap[pt] = Unset /\ pt = 8 -> "PCMA"
    [] OTHER -> Unset

\* Mutant: the peer's order comes first.
NegotiateByOffer(s) ==
  IF AudioLines(s) = {} THEN NoCodec
  ELSE LET pts == s.media[Min(AudioLines(s))].payloadTypes
           known == {i \in DOMAIN pts : NameOf(s, pts[i]) \in ToSet(Preference)}
       IN  IF known = {} THEN NoCodec
           ELSE [payloadType |-> pts[Min(known)], name |-> NameOf(s, pts[Min(known)])]

\* The two loops of SdpAnswer::generate over preferences and the payload types of the
\* first audio line.
Found(s) ==
  IF AudioLines(s) = {} THEN NoCodec
  ELSE LET pts == s.media[Min(AudioLines(s))].payloadTypes
           Offered(name) == {i \in DOMAIN pts : NameOf(s, pts[i]) = name}
           prefs == {k \in DOMAIN Preference : Offered(Preference[k]) # {}}
       IN  IF prefs = {} THEN NoCodec
           ELSE LET name == Preference[Min(prefs)]
                IN  [payloadType |-> pts[Min(Offered(name))], name |-> name]

\* What NegotiatedCodec::payloadType is before anything is found.
Nothing == -1

\* SdpAnswer::generate, which takes what was found under that number for nothing.
Negotiate(s) == IF Found(s).payloadType = Nothing THEN NoCodec ELSE Found(s)

\* The port comes from the last audio line.
RemotePort(s) == s.media[Max(AudioLines(s))].port

\* 200 and the media's way, or 488.
Answer ==
  /\ step = "answer"
  /\ codec' = Negotiate(session)
  /\ IF codec' = NoCodec
       THEN /\ step' = "refused"
            /\ UNCHANGED remote
       ELSE /\ step' = "accepted"
            /\ remote' = [address |-> session.connectionIp, port |-> RemotePort(session)]
  /\ UNCHANGED <<offer, read, session>>

Next == ParseLine \/ ParseEnds \/ Answer

Spec == Init /\ [][Next]_vars

-----------------------------------------------------------------------------
(* What becomes of the payload type.                                       *)

\* AudioSocketStage and RecorderStage.
StageDecoder(pt) == IF pt = 0 THEN "PCMU" ELSE "PCMA"

\* startPipeline and VoiceBotClient::sendConfig.
BotCodec(pt) == IF pt = 8 THEN "PCMA" ELSE "PCMU"

-----------------------------------------------------------------------------
(* Properties.                                                             *)

\* What the peer calls payload type pt: its last rtpmap line, or the static
\* assignment of RFC 3551.
Meaning(pt) ==
  LET maps == {i \in DOMAIN read : read[i].kind = "rtpmap" /\ read[i].map.payloadType = pt}
  IN  IF maps # {} THEN read[Max(maps)].map.name
      ELSE CASE pt = 0 -> "PCMU" [] pt = 8 -> "PCMA" [] OTHER -> Unset

OfferedTypes ==
  LET audio == {i \in DOMAIN read : read[i].kind = "m" /\ read[i].media.type = "audio"}
  IN  IF audio = {} THEN {} ELSE ToSet(read[Min(audio)].media.payloadTypes)

\* An accepted offer is answered with one of its own payload types, under the
\* name the peer gave it before or after its m= line, and nothing the gateway
\* would rather have was on offer; a refused one had nothing it knows, or the best of
\* it under the number -1.
AnswerIsBestOffered ==
  LET wanted == {k \in DOMAIN Preference :
                   \E pt \in OfferedTypes : Meaning(pt) = Preference[k]}
  IN  /\ step = "accepted" =>
           /\ codec.payloadType \in OfferedTypes
           /\ wanted # {}
           /\ codec.name = Preference[Min(wanted)]
           /\ Meaning(codec.payloadType) = codec.name
      /\ step = "refused" =>
           wanted = {} \/ (Nothing \in OfferedTypes /\ Meaning(Nothing) = Preference[Min(wanted)])

\* The stages decode what was agreed: "PCMU" for number 0, "PCMA (8)" otherwise
\* (AudioSocketStage.cpp:28-30).  Does not hold: PCMU under a dynamic number.
StagesDecodeAgreed == step = "accepted" => StageDecoder(codec.payloadType) = codec.name

\* The bot is told the codec that was agreed: "0=PCMU, 8=PCMA"
\* (VoiceBotClient.h:26).  Does not hold: PCMA under a dynamic number.
BotKnowsAgreed == step = "accepted" => BotCodec(codec.payloadType) = codec.name
=============================================================================
