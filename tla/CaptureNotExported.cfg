SPECIFICATION Spec
CONSTANTS
  a1 = a1
  a2 = a2
  f1 = f1
  f2 = f2
  Passes = {p1}
  Articles = {a1, a2}
  Folders = {f1, f2}
  FolderOf <- MCTwoFolders
  NotExported = {a2}
  MaxEdits <- MCMaxEdits
  MaxFaults = 0
  Serialized = TRUE
PROPERTIES
  ReadableTextCaptured
