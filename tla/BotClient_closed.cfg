\* The bot closes its stream before the call ends.
SPECIFICATION Spec
CONSTANTS
  Pipelines = 2
  Reinvite = FALSE
  BotCloses = TRUE
INVARIANTS
  GatewayGoesOn
