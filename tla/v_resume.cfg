SPECIFICATION FairSpec
CONSTANTS
  Old = Old
  New = New
  Versions = {New}
  NoVersion = NoVersion
  Procs = {"update"}
  Files <- Archived
  Ships <- JustNew
  Containing <- Itself
  Tools <- Formatter
  Chunks = 2
  NoFile = NoFile
  Servers = {"honours"}
  Cleans = FALSE
  CleanStops = FALSE
  MaxStops = 3
PROPERTIES RepeatedUpdatesInstall
