SPECIFICATION Spec
CONSTANTS
  Vendor = Vendor
  Site = Site
  Genuine = Genuine
  Impostor = Impostor
  Foreign = Foreign
  Absent = Absent
  NotImported = NotImported
  MaxPath = 3
INVARIANTS
  TypeOK
  AcceptedStaysLocal
PROPERTIES
  LocalCopyWins
