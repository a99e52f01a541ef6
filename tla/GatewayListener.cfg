SPECIFICATION ListenerSpec
CONSTANTS
  MaxUsages = 2
  MaxSecrets = 2
  MaxConnections = 2
INVARIANTS
  EffectIsAuthorised
  SecretsAfterChecks
  ContractKept
  AnswersAreRecorded
