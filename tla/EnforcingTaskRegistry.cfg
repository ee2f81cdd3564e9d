SPECIFICATION Spec
CONSTANTS
  alice = alice
  bob = bob
  tok1 = tok1
  tok2 = tok2
  modelKey = modelKey
  toolSecret = toolSecret
  http_fetch = http_fetch
  send_email = send_email
  file_io = file_io
  task1 = task1
  task2 = task2
  HttpFetch = http_fetch
  NoToken = NoToken
  Uncapped = Uncapped
  NoCredential = NoCredential
  Unbuilt = Unbuilt
  Idle = Idle
  Tenants <- MCTenants
  Tokens <- MCTokens
  Ttls <- MCTtls
  BackingSecrets <- MCOneSecret
  Registries <- MCRegistries
  Tools <- MCTools
  External <- MCExternal
  Pluggable <- MCPluggable
  Profiles <- MCProfiles
  SpendCap = Uncapped
  EffectCap = 2
  MaxTime = 1
  MaxReads = 0
  MaxCalls = 3
SYMMETRY MCSymmetry
CONSTRAINT MCFew
INVARIANTS
  RegistryTypeOK
  DispatchWithinBudget
  BudgetLedgerExact
  TelemetryTruthful
  NoEffectAfterCredentialDenial
  AtMostOneLateEffect
  NoSecretSeen
CHECK_DEADLOCK FALSE
