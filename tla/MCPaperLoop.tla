----------------------------- MODULE MCPaperLoop -----------------------------
(* Instances of PaperLoop for TLC: the equity is a whole number of units.    *)
EXTENDS PaperLoop

MCLevels == {8, 10}
=============================================================================
