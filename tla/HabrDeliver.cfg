SPECIFICATION Spec
CONSTANTS
  Runs = {w1, w2}
  Numbers = {1, 2}
  Texts = {"crlf", "pattern"}
  MaxReruns = 1
  MaxOthers = 1
SYMMETRY Symmetric
INVARIANTS
  TypeOK
  RecordsMatchFiles
  NoPatternCommitted
  NotifiedIsCommitted
PROPERTIES
  FilesImmutable
CHECK_DEADLOCK FALSE
