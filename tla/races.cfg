SPECIFICATION Spec
CONSTANTS
  Old = Old
  New = New
  Versions = {Old, New}
  NoVersion = NoVersion
  Procs = {"one", "two"}
  Files <- Archived
  Ships <- OldAndNew
  Containing <- OldWithinNew
  Tools <- Formatter
  Chunks = 2
  NoFile = NoFile
  Servers = {"honours"}
  Cleans = TRUE
  CleanStops = TRUE
  MaxStops = 1
INVARIANTS DefaultIsInstalled UpdatesLeaveADefault
PROPERTIES CleanKeepsCurrent
