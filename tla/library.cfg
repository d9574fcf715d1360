CONSTANTS
  Works <- MCWorks
  Folders <- MCFolders
  Requests <- MCRequests
  NoFolder = NoFolder
  NoWork = NoWork
  Tracks = {"a"}
  Roots = {"old", "out"}
  Slots = 1
  MaxFaults = 2
  MaxEdits = 1
  MaxBegun = 2
  MaxQueued = 1

SPECIFICATION FairSpec

INVARIANTS
  LibraryTypeOK
  CopySurvives
  TablesNameFolder
  MetadataKept
  SuccessVerifies
  NoRequestLost

PROPERTIES
  SourceLeftUnused
  RequestsEnd
  ToolsEnd
