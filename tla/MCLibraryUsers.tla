--------------------------- MODULE MCLibraryUsers ---------------------------
(* LibraryUsers for TLC: two communicators in processes of their own. *)
EXTENDS LibraryUsers

CONSTANTS one, other, c1, c2

TwoProcesses == {one, other}
OneEach == {c1, c2}
Apart == [c \in {c1, c2} |-> IF c = c1 THEN one ELSE other]
=============================================================================
