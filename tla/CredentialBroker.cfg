SPECIFICATION FairBrokerSpec
CONSTANTS
  alice = alice
  bob = bob
  tok1 = tok1
  tok2 = tok2
  tok3 = tok3
  modelKey = modelKey
  toolSecret = toolSecret
  NoToken = NoToken
  Uncapped = Uncapped
  Tenants <- MCTenants
  BackingSecrets <- MCBackingSecrets
  Ttls <- MCTtls
  Tokens <- MCTokens
  SpendCap = 1
  EffectCap = Uncapped
  MaxTime = 3
  MaxReads = 2
INVARIANTS
  TypeOK
  SpendCapHolds
PROPERTIES
  CredentialsExpire
  DeathHasACause
  RefinesLease
CHECK_DEADLOCK FALSE
