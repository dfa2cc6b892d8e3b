\* Every offer of up to four lines, and every INVITE of a few header lines.
SPECIFICATION ExchangeSpec
CONSTANTS
  Address = {"a"}
  Media <- SomeMedia
  PayloadType <- SomeTypes
  RtpMap <- AllMaps
  Preference <- ConfiguredPreference
  MaxLines = 4
  Unset = Unset
  Wire <- SomeWire
  BindIp = "g"
  LocalPort = 10000
  MaxHeaders = 3
INVARIANTS
  AnswerIsBestOffered
  ResponsesMatchRequest
  WholeOfferIsRead
  ClientLearnsAgreed
\* The exchange ends with the answer.
CHECK_DEADLOCK FALSE
