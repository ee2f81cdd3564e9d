SPECIFICATION Spec
CONSTANTS
  alice = alice
  bob = bob
  note = note
  plan = plan
  token = token
  NoTenant = NoTenant
  Host = Host
  Missing = Missing
  NotListing = NotListing
  Tenants <- MCTenants
  Items <- MCItems
  Keys <- MCStoreKeys
  Prefixes <- MCStorePrefixes
  Secrets <- MCNoSecrets
CONSTRAINT MCFew
INVARIANTS
  TypeOK
  NeverShowsForeignRecord
  ListComplete
  ListSound
PROPERTIES
  NonInterference
