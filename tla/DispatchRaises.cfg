SPECIFICATION Spec
CONSTANTS
  alice = alice
  bob = bob
  tok1 = tok1
  tok2 = tok2
  modelKey = modelKey
  toolSecret = toolSecret
  http_fetch = http_fetch
  send_email = send_email
  file_io = file_io
  task1 = task1
  task2 = task2
  HttpFetch = http_fetch
  NoToken = NoToken
  Uncapped = Uncapped
  NoCredential = NoCredential
  Unbuilt = Unbuilt
  Idle = Idle
  Tenants <- MCOneTenant
  Tokens <- MCOneToken
  Ttls <- MCTtls
  BackingSecrets <- MCOneSecret
  Registries <- MCOneRegistry
  Tools <- MCExternal
  External <- MCExternal
  Pluggable <- MCExternal
  Profiles <- MCExternalProfiles
  SpendCap = Uncapped
  EffectCap = 2
  MaxTime = 0
  MaxReads = 0
  MaxCalls = 2
INVARIANTS
  CallNeverRaises
CHECK_DEADLOCK FALSE
