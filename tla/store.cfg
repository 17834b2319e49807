SPECIFICATION Spec
CONSTANTS
  Old = Old
  New = New
  Versions = {Old, New}
  NoVersion = NoVersion
  Procs = {"update"}
  Files <- Archived
  Ships <- OldAndNew
  Containing <- OldWithinNew
  Tools <- Formatter
  Chunks = 2
  NoFile = NoFile
  Servers = {"honours", "ignores"}
  Cleans = TRUE
  CleanStops = FALSE
  MaxStops = 2
INVARIANTS TypeOK InstalledIsComplete LinksFollowDefault
PROPERTIES IsVersionStore
