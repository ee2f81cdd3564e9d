SPECIFICATION Spec
CONSTANTS
  NotScanned = NotScanned
  Separator = " "
  Characters <- MCCharacters
  Values <- MCValues
  Base64 <- MCBase64
  Hex <- MCHex
  Marker <- MCMarker
  Messages <- MCMessages
INVARIANTS
  TypeOK
  NothingSurvives
  SecretsLeaveNoRest
  DetectionsTruthful
