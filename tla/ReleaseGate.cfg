SPECIFICATION Spec
CONSTANTS
  Absent = Absent
  Undecodable = Undecodable
  Idle = Idle
  NotRun = NotRun
  Names <- MCNames
  Paths <- MCPaths
  Quoted <- MCQuoted
  StartTrees <- MCStartTrees
  Links <- MCLinks
  WorkDirs <- MCWorkDirs
  Written <- MCWritten
  MaxEdits = 1
CONSTRAINT MCFew
INVARIANTS
  ReleaseTypeOK
  SweepThorough
  NothingHides
  LabelVerdictRight
PROPERTIES
  RemovalsAccounted
