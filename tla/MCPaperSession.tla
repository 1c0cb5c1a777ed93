---------------------------- MODULE MCPaperSession ----------------------------
(***************************************************************************)
(* Instances of PaperSession for TLC: the commands are run one after the   *)
(* other, and the strategy wants the carry up to some tick.                *)
(***************************************************************************)
EXTENDS PaperSession

CONSTANTS w1, w2

MCInit ==
    /\ SessionInit
    /\ \E out \in Ticks : market.wants = 1..(out - 1)
    /\ Cardinality(market.gaps) <= 1

MCSpec == MCInit /\ [][SessionNext]_sessionVars
=============================================================================
