SPECIFICATION Spec
CONSTANTS
  alice = alice
  bob = bob
  note = note
  plan = plan
  token = token
  NoTenant = NoTenant
  Host = Host
  Missing = Missing
  NotListing = NotListing
  Tenants <- MCTenants
  Items <- MCItems
  Keys <- MCTokenKeys
  Prefixes <- MCTokenPrefixes
  Secrets <- MCSecrets
INVARIANTS
  RecordsRedacted
