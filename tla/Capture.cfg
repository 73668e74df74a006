SPECIFICATION Spec
CONSTANTS
  a1 = a1
  a2 = a2
  f1 = f1
  f2 = f2
  Passes = {p1, p2}
  Articles = {a1, a2}
  Folders = {f1}
  FolderOf <- MCOneFolder
  NotExported = {a2}
  MaxEdits <- MCMaxEdits
  MaxFaults = 1
  Serialized = FALSE
INVARIANTS
  TypeOK
  OneRecordPerState
  TextNotStale
PROPERTIES
  AppendOnly
  LastTextCaptured
