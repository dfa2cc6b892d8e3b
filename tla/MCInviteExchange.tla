-------------------------- MODULE MCInviteExchange --------------------------
(***************************************************************************)
(* Small instances of InviteExchange for TLC.                              *)
(***************************************************************************)
EXTENDS InviteExchange

CONSTANT MaxHeaders \* bound on the free header lines of an INVITE

SomeTypes == {-1, 0, 8, 97}

\* Audio lines in which the peer's order differs, and a video line.
SomeMedia ==
  { [type |-> "audio", port |-> 4000, payloadTypes |-> <<97, 8, 0>>],
    [type |-> "audio", port |-> 4002, payloadTypes |-> <<0, 97>>],
    [type |-> "audio", port |-> 4006, payloadTypes |-> <<-1, 8>>],
    [type |-> "video", port |-> 4004, payloadTypes |-> <<97>>] }

\* Any name for a number of its own or of RFC 3551, and a codec under -1.
AllMaps == [payloadType : {0, 8, 97}, name : {"PCMU", "PCMA", "opus"}]
             \cup {[payloadType |-> -1, name |-> "PCMU"]}

\* config/gateway.yaml
ConfiguredPreference == <<"PCMU", "PCMA">>

-----------------------------------------------------------------------------

Branch(b) == <<[param |-> "word", val |-> "host"], [param |-> "branch", val |-> b]>>
Word(w) == <<[param |-> "word", val |-> w]>>
Tag(t) == <<[param |-> "tag", val |-> t]>>
Fold(value) == [kind |-> "fold", value |-> value]

Request(method, lines, body) ==
  [first |-> [kind |-> "request", method |-> method], lines |-> lines, body |-> body]

CallIdLine == HeaderLine("call-id", Word("c"))
Length(n) == HeaderLine("content-length", Number(n))
PlainLines(n) ==
  <<HeaderLine("via", Branch("z1")), HeaderLine("from", Tag("f")),
    HeaderLine("to", Word("t")), CallIdLine, HeaderLine("cseq", Number(1)), Length(n)>>

\* What may stand in front of the Call-ID of an INVITE with a body of two lines,
\* and what may come after it.
FreeLine ==
  { HeaderLine("via", Branch("z1")), HeaderLine("via", Word("proxy")),
    HeaderLine("to", Word("t")), HeaderLine("to", Tag("t")), HeaderLine("to", Tag("")),
    HeaderLine("cseq", Number(2)), HeaderLine("", Word("x")),
    Fold(<<[param |-> "branch", val |-> "z2"]>>), Fold(Tag("t2")),
    [kind |-> "noise"], Length(3), Length(2), Length(1), Length(-1),
    HeaderLine("content-length", Word("x")) }
TwoLines ==
  <<[kind |-> "m", media |-> [type |-> "audio", port |-> 4000, payloadTypes |-> <<97, 8, 0>>]],
    [kind |-> "rtpmap", map |-> [payloadType |-> 97, name |-> "PCMU"]]>>

\* Every short offer in a plain INVITE; one offer under every arrangement of a few
\* header lines; no Call-ID, and one that is empty or goes on; other first lines.
SomeWire == <<
  {Request("INVITE", PlainLines(Len(body)), body) : body \in SeqOf(Line, MaxLines)},
  {Request("INVITE", s \o <<CallIdLine>> \o t, TwoLines) :
     s \in SeqOf(FreeLine, MaxHeaders), t \in SeqOf(FreeLine, 1)},
  {Request(method, PlainLines(0), <<>>) : method \in KnownMethod \cup {"INFO"}},
  {Request("INVITE", <<Length(2)>>, TwoLines)},
  {Request("INVITE", <<HeaderLine("call-id", <<>>)>> \o t, TwoLines) : t \in SeqOf(FreeLine, 1)},
  {[first |-> f, lines |-> PlainLines(0), body |-> <<>>] :
     f \in {[kind |-> "response", code |-> 200], [kind |-> "malformed"]}} >>
=============================================================================
