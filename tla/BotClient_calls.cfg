\* Calls without re-INVITE; the bot may close its stream at any moment.
SPECIFICATION FairSpec
CONSTANTS
  Pipelines = 4
  Reinvite = FALSE
  BotCloses = TRUE
INVARIANTS
  CallbackOnLiveStage
PROPERTIES
  StopsReturn
\* std::terminate ends the gateway.
CHECK_DEADLOCK FALSE
