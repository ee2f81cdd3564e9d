SPECIFICATION Spec
CONSTANTS
  alice = alice
  bob = bob
  note = note
  modelKey = modelKey
  token = token
  diary = diary
  scanner1 = scanner1
  scanner2 = scanner2
  Unreadable = Unreadable
  NoBulletin = NoBulletin
  NotADict = NotADict
  NotReading = NotReading
  NoTenant = NoTenant
  Host = Host
  Missing = Missing
  NotBuilt = NotBuilt
  Schemas <- MCSchemas
  Bulletins <- MCBulletins
  Tenants <- MCTenants
  Items <- MCItems
  Keys <- MCKeys
  Values <- MCValues
  Backing <- MCBacking
  Tokens <- MCTokens
  Contents <- MCContents
  Scanners <- MCScanners
  MaxWrites = 2
SYMMETRY MCScannerSymmetry
INVARIANTS
  LayerTypeOK
  OnlyConformingBulletins
  ConformingBulletinArrives
  FallbackStands
PROPERTIES
  RefinesContainment
CHECK_DEADLOCK FALSE
