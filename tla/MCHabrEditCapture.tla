------------------------- MODULE MCHabrEditCapture -------------------------
(* Small instances of HabrEditCapture: two articles in one folder or in    *)
(* two; the first is edited again.                                         *)
EXTENDS HabrEditCapture

CONSTANTS a1, a2, f1, f2

MCOneFolder == [article \in {a1, a2} |-> f1]
MCTwoFolders == [article \in {a1, a2} |-> IF article = a1 THEN f1 ELSE f2]
MCMaxEdits == [article \in {a1, a2} |-> IF article = a1 THEN 2 ELSE 1]

============================================================================
