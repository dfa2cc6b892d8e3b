--------------------------- MODULE InviteExchange ---------------------------
(***************************************************************************)
(* One request from the wire to the answer: SipServer::poll parses the     *)
(* datagram, GatewayApp::handleSipMessage negotiates the offer of an       *)
(* INVITE (SdpNegotiation) and the client parses what comes back.          *)
(*                                                                         *)
(* The request is new to the transaction table and there is room for its   *)
(* call; SipTransactions and CallGateway model what happens otherwise.     *)
(***************************************************************************)
EXTENDS SdpNegotiation, SipMessages

CONSTANTS
  Wire,      \* families of datagrams a client may send: a sequence of sets
  BindIp,    \* Config::bindIp
  LocalPort  \* what allocatePort returned

ASSUME BindAssumption == BindIp \in STRING /\ LocalPort \in Nat
ASSUME WireAssumption == \A i \in DOMAIN Wire : Wire[i] \subseteq Datagram(Line)

VARIABLES
  datagram,  \* what the client has sent
  phase,     \* where handleSipMessage stands
  request,   \* the SipMessage it is called with
  heard      \* datagrams sent back to the client

exchangeVars == <<datagram, phase, request, heard>>

MessageOK ==
  /\ phase \in {"wire", "invite", "done", "dropped"}
  /\ phase = "wire" => request = NoMessage /\ heard = <<>>
  /\ phase = "invite" => request.isRequest /\ request.method = "INVITE"
  /\ \A i \in DOMAIN heard : heard[i].first.code \in {100, 200, 202, 488, 501}

ExchangeInit ==
  /\ NothingRead /\ offer = <<>>
  /\ \E i \in DOMAIN Wire : datagram \in Wire[i]
  /\ phase = "wire"
  /\ request = NoMessage
  /\ heard = <<>>

-----------------------------------------------------------------------------

\* The answer to a new request that is no INVITE.
CodeFor(method) ==
  CASE method \in {"BYE", "CANCEL", "OPTIONS"} -> 200
    [] method = "REFER" -> 202
    [] OTHER -> 501

\* sendResponse of SipServer and of the transaction.
Respond(req, code) == ToDatagram(CreateResponse(req, code))

\* parse failed, no Call-ID or an empty one, or a response: the gateway has sent no
\* request.
Drop ==
  /\ phase = "wire"
  /\ LET m == Parse(datagram)
     IN  /\ GetHeader(m, "call-id") = <<>> \/ ~m.isRequest
         /\ request' = m
  /\ phase' = "dropped"
  /\ UNCHANGED <<vars, datagram, heard>>

\* An INVITE is answered 100 before its body is looked at.
ReceiveInvite ==
  /\ phase = "wire"
  /\ LET m == Parse(datagram)
     IN  /\ m.isRequest /\ GetHeader(m, "call-id") # <<>>
         /\ m.method = "INVITE"
         /\ request' = m
         /\ offer' = m.body
         /\ heard' = <<Respond(m, 100)>>
  /\ phase' = "invite"
  /\ UNCHANGED <<read, session, step, codec, remote, datagram>>

ReceiveOther ==
  /\ phase = "wire"
  /\ LET m == Parse(datagram)
     IN  /\ m.isRequest /\ GetHeader(m, "call-id") # <<>>
         /\ m.method # "INVITE"
         /\ request' = m
         /\ heard' = IF m.method = "ACK" THEN <<>> ELSE <<Respond(m, CodeFor(m.method))>>
  /\ phase' = "done"
  /\ UNCHANGED <<vars, datagram>>

\* Mutant: the rtpmap line of the answer is left out.
AnswerLinesPlain(c) ==
  <<[kind |-> "c", address |-> BindIp],
    [kind |-> "m", media |-> [type |-> "audio", port |-> LocalPort,
                              payloadTypes |-> <<c.payloadType>>]]>>

\* The lines of SdpAnswer::generate that a parser looks at.
AnswerLines(c) ==
  <<[kind |-> "c", address |-> BindIp],
    [kind |-> "m", media |-> [type |-> "audio", port |-> LocalPort,
                              payloadTypes |-> <<c.payloadType>>]],
    [kind |-> "rtpmap", map |-> [payloadType |-> c.payloadType, name |-> c.name]]>>

ContentHeaders(headers) ==
  [headers EXCEPT !["content-type"] = <<<<>>>>, !["contact"] = <<<<>>>>]

\* 200 with the answer, or 488.
AnswerInvite ==
  /\ phase = "invite"
  /\ Answer
  /\ heard' = Append(heard,
       IF step' = "refused" THEN Respond(request, 488)
       ELSE LET res == CreateResponse(request, 200)
            IN  ToDatagram([res EXCEPT !.headers = ContentHeaders(@),
                                       !.body = AnswerLines(codec')]))
  /\ phase' = "done"
  /\ UNCHANGED <<datagram, request>>

ReadOffer ==
  /\ phase = "invite"
  /\ ParseLine \/ ParseEnds
  /\ UNCHANGED exchangeVars

ExchangeNext == Drop \/ ReceiveInvite \/ ReceiveOther \/ ReadOffer \/ AnswerInvite

ExchangeSpec == ExchangeInit /\ [][ExchangeNext]_<<vars, exchangeVars>>

-----------------------------------------------------------------------------
(* Properties.                                                             *)

HeaderAt(i, name) ==
  datagram.lines[i].kind = "header" /\ datagram.lines[i].name = name

\* The lines that belong to header line i: those before the next header.
Continuation(i) ==
  {j \in DOMAIN datagram.lines :
     /\ i < j /\ datagram.lines[j].kind = "fold"
     /\ \A k \in i + 1 .. j : datagram.lines[k].kind # "header"}

\* The value of header line i with its continuation.
Text(i) ==
  FlattenSeq([j \in DOMAIN datagram.lines |->
    IF j = i \/ j \in Continuation(i) THEN datagram.lines[j].value ELSE <<>>])

\* The values of a header as the client wrote them.
Written(name) ==
  FlattenSeq([i \in DOMAIN datagram.lines |->
    IF HeaderAt(i, name) THEN <<Text(i)>> ELSE <<>>])

\* A header that has been given before goes on on a second line: the parser puts
\* that line where it does not belong (SipParser.cpp:109).
RepeatedHeaderIsFolded ==
  \E i, j \in DOMAIN datagram.lines :
    /\ i < j /\ datagram.lines[i].kind = "header"
    /\ HeaderAt(j, datagram.lines[i].name)
    /\ Continuation(j) # {}

FirstWritten(name) == IF Written(name) = <<>> THEN <<>> ELSE Head(Written(name))

\* What comes back finds its way to the client's transaction, through every
\* proxy: read by the same rules it repeats every Via in order and From, To,
\* Call-ID and CSeq as they were written, folded or not and whatever stands
\* between them.  A final response has a To tag of the client or the gateway, a
\* provisional one invents none, and the last one heard, and only it, is final.
ResponsesMatchRequest ==
  ~RepeatedHeaderIsFolded =>
    \A i \in DOMAIN heard :
      LET res == Parse(heard[i])
          final == res.statusCode >= 200
          to == FirstWritten("to")
      IN  /\ ~res.isRequest
          /\ res.headers["via"] = Written("via")
          /\ \A name \in {"from", "call-id", "cseq"} :
               GetHeader(res, name) = FirstWritten(name)
          /\ GetHeader(res, "to") \in
               IF final /\ ~HasTag(to) /\ Written("to") # <<>>
                 THEN {Append(to, GeneratedTag)} ELSE {to}
          /\ final <=> (i = Len(heard) /\ phase = "done")

\* Content-Length is the true length of the body.
LengthIsRight ==
  \E i \in DOMAIN datagram.lines :
    /\ HeaderAt(i, "content-length")
    /\ datagram.lines[i].value = Number(Len(datagram.body))
    /\ \A j \in DOMAIN datagram.lines : HeaderAt(j, "content-length") => j = i

\* The offer that is negotiated is the whole body of the INVITE, wherever its
\* Content-Length stands among the headers, and never more than the body.
WholeOfferIsRead ==
  step \in {"answer", "accepted", "refused"} =>
    /\ IsPrefix(read, datagram.body)
    /\ LengthIsRight => read = datagram.body

\* The client learns from the 200 what was agreed: an SDP parser finds one audio
\* line with the gateway's port and one payload type, of the client's own offer,
\* that means the same codec on both sides, whatever the client named the number.
ClientLearnsAgreed ==
  step = "accepted" =>
    LET answer == Parse(heard[Len(heard)]).body
        said == FoldLeft(AfterLine,
                  [connectionIp |-> Unset, media |-> <<>>,
                   rtpMap |-> [pt \in PayloadType |-> Unset]], answer)
        pts == said.media[1].payloadTypes
    IN  /\ said.connectionIp = BindIp
        /\ Len(said.media) = 1 /\ Len(pts) = 1
        /\ said.media[1].type = "audio" /\ said.media[1].port = LocalPort
        /\ pts[1] \in OfferedTypes
        /\ NameOf(said, pts[1]) = Meaning(pts[1])
        /\ Meaning(pts[1]) \in ToSet(Preference)
=============================================================================
