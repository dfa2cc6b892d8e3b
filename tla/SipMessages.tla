----------------------------- MODULE SipMessages -----------------------------
(***************************************************************************)
(* SIP messages as the gateway reads and writes them: SipParser::parse,    *)
(* SipMessage and SipResponseBuilder::createResponse.                      *)
(*                                                                         *)
(* A datagram is its first line, the lines up to the empty one, and the    *)
(* lines of its body; Content-Length counts lines.  Names of methods and   *)
(* headers are compared without regard to case and stand for their lower   *)
(* case (methods: upper case) form.  The value of a header is a sequence   *)
(* of parts, so that a part can stand on a folded line.                    *)
(***************************************************************************)
EXTENDS Integers, Sequences, SequencesExt, FiniteSetsExt

\* Headers that something looks at, in the order of their names; "" is a line that
\* begins with its colon.
NameOrder == <<"", "call-id", "contact", "content-length", "content-type", "cseq",
               "from", "to", "user-agent", "via">>
HeaderName == ToSet(NameOrder)

\* What stands on the lines of a datagram: in values numbers, the parameters that are
\* looked for and any other words.  "gen" is the gateway's own tag, a string that the
\* provers have to be told of.
Part ==
  [param : {"number"}, val : Int]
    \cup [param : {"word", "branch", "tag"}, val : STRING \cup {"gen"}]
HeadLine ==
  [kind : {"header"}, name : HeaderName, value : Seq(Part)]
    \cup [kind : {"fold"}, value : Seq(Part)]
    \cup [kind : {"noise"}]
FirstLine ==
  [kind : {"request"}, method : STRING] \cup [kind : {"response"}, code : Int]
    \cup [kind : {"malformed"}]
Datagram(BodyLine) == [first : FirstLine, lines : Seq(HeadLine), body : Seq(BodyLine)]

\* SipParser::parseMethod knows these; the others are UNKNOWN and answered 501.
KnownMethod == {"INVITE", "ACK", "BYE", "CANCEL", "OPTIONS", "REFER"}

-----------------------------------------------------------------------------
(* SipMessage.                                                             *)

\* headers, a multimap: for each name its values in the order they were added.
NoHeaders == [name \in HeaderName |-> <<>>]

NoMessage == [isRequest |-> FALSE, method |-> "", statusCode |-> 0,
              headers |-> NoHeaders, body |-> <<>>]

AddHeader(headers, name, value) == [headers EXCEPT ![name] = Append(@, value)]

\* getHeader: find returns the first of the values of a name.
HasHeader(m, name) == m.headers[name] # <<>>
GetHeader(m, name) == IF HasHeader(m, name) THEN Head(m.headers[name]) ELSE <<>>

\* The first part of a value that is parameter p, or "".
Parameter(value, p) ==
  LET found == {i \in DOMAIN value : value[i].param = p}
  IN  IF found = {} THEN "" ELSE value[Min(found)].val

\* find("tag="), whatever comes after it.
HasTag(value) == \E i \in DOMAIN value : value[i].param = "tag"

GetBranch(m) == Parameter(GetHeader(m, "via"), "branch")
\* handleSipMessage's txKey; the method of a response is empty.
TransactionKey(m) ==
  <<GetHeader(m, "call-id"), GetBranch(m), IF m.isRequest THEN m.method ELSE "">>

-----------------------------------------------------------------------------
(* SipParser::parse.                                                       *)

\* std::stoi, with what cannot be converted taken as 0.
NumberIn(value) ==
  IF value # <<>> /\ Head(value).param = "number" THEN Head(value).val ELSE 0

\* Mutant: every header that holds a number sets the length.
ReadLineAnyNumber(p, line) ==
  CASE line.kind = "header" ->
         [headers |-> AddHeader(p.headers, line.name, line.value),
          lastName |-> line.name,
          contentLength |-> NumberIn(line.value)]
    [] line.kind = "fold" /\ p.lastName # "" ->
         [p EXCEPT !.headers[p.lastName][1] = @ \o line.value]
    [] OTHER -> p

\* One turn of the loop over the header lines.  A folded line goes to the header
\* that find returns for the last name: the first of that name.  A line without a
\* colon is skipped.
ReadLine(p, line) ==
  CASE line.kind = "header" ->
         [headers |-> AddHeader(p.headers, line.name, line.value),
          lastName |-> line.name,
          contentLength |-> IF line.name = "content-length"
                              THEN NumberIn(line.value) ELSE p.contentLength]
    [] line.kind = "fold" /\ p.lastName # "" ->
         [p EXCEPT !.headers[p.lastName][1] = @ \o line.value]
    [] OTHER -> p

\* What stream.read gets of a body when n is asked for.
Body(lines, n) == SubSeq(lines, 1, IF n < Len(lines) THEN n ELSE Len(lines))

\* A first line that is neither a request line nor a status line with a number
\* ends in NoMessage.
Parse(d) ==
  LET p == FoldLeft(ReadLine,
             [headers |-> NoHeaders, lastName |-> "", contentLength |-> 0], d.lines)
      Message(isRequest, method, statusCode) ==
        [isRequest |-> isRequest, method |-> method, statusCode |-> statusCode,
         headers |-> p.headers, body |-> Body(d.body, p.contentLength)]
  IN  CASE d.first.kind = "request" -> Message(TRUE, d.first.method, 0)
        [] d.first.kind = "response" -> Message(FALSE, "", d.first.code)
        [] d.first.kind = "malformed" -> NoMessage

-----------------------------------------------------------------------------
(* SipMessage::toString and SipResponseBuilder.                            *)

HeaderLine(name, value) == [kind |-> "header", name |-> name, value |-> value]
Number(n) == <<[param |-> "number", val |-> n]>>

\* toString: the headers by name, those of one name in order; then Content-Length,
\* unless there is one.
ToDatagram(m) ==
  LET block == FlattenSeq([i \in DOMAIN NameOrder |->
                 [j \in DOMAIN m.headers[NameOrder[i]] |->
                    HeaderLine(NameOrder[i], m.headers[NameOrder[i]][j])]])
  IN  [first |-> IF m.isRequest THEN [kind |-> "request", method |-> m.method]
                 ELSE [kind |-> "response", code |-> m.statusCode],
       lines |-> IF HasHeader(m, "content-length") THEN block
                 ELSE Append(block, HeaderLine("content-length", Number(Len(m.body)))),
       body |-> m.body]

\* A tag for the To header, made from the clock.
GeneratedTag == [param |-> "tag", val |-> "gen"]

\* Mutant: only the Via that getHeader returns is copied.
ResponseFirstVia(req, code) ==
  LET Copied(name) == IF HasHeader(req, name) THEN <<GetHeader(req, name)>> ELSE <<>>
  IN  [isRequest |-> FALSE, method |-> "", statusCode |-> code, body |-> <<>>,
       headers |-> [NoHeaders EXCEPT
         !["via"] = Copied("via"), !["from"] = Copied("from"), !["to"] = Copied("to"),
         !["call-id"] = Copied("call-id"), !["cseq"] = Copied("cseq")]]

\* createResponse: every Via, the first of the others; a final response to a
\* request without a To tag gets one.
CreateResponse(req, code) ==
  LET Copied(name) == IF HasHeader(req, name) THEN <<GetHeader(req, name)>> ELSE <<>>
      to == IF code >= 200 /\ ~HasTag(GetHeader(req, "to"))
              THEN [i \in DOMAIN Copied("to") |-> Append(Copied("to")[i], GeneratedTag)]
              ELSE Copied("to")
  IN  [isRequest |-> FALSE, method |-> "", statusCode |-> code, body |-> <<>>,
       headers |-> [NoHeaders EXCEPT
         !["via"] = req.headers["via"], !["from"] = Copied("from"), !["to"] = to,
         !["call-id"] = Copied("call-id"), !["cseq"] = Copied("cseq"),
         !["user-agent"] = <<<<>>>>]]
=============================================================================
