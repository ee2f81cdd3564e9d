SPECIFICATION Spec
CONSTANTS
  localhost = localhost
  elsewhere = elsewhere
  NoPort = NoPort
  BadPort = BadPort
  NoHost = NoHost
  Unresolved = Unresolved
  Chars <- MCChars
  Urls <- MCUrls
  Allowlists <- MCAllowlists
INVARIANTS
  EgressSound
  EgressComplete
CHECK_DEADLOCK FALSE
