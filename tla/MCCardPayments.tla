--------------------------- MODULE MCCardPayments ---------------------------
(* Instances of CardPayments for TLC.                                        *)
EXTENDS CardPayments, TLC

CONSTANTS r1, r2, s1, s2, p1, p2, gift, k1, k2, h1, h2, es, en, mx, us

MCPackCode == [s \in Sessions |-> IF s = s1 THEN p1 ELSE p2]

\* Requests, runs, languages and countries are interchangeable: no action and no
\* property names one of them.
Interchangeable ==
    Permutations(Clicks) \cup Permutations(Hooks) \cup Permutations(Langs)
        \cup Permutations(Countries)
=============================================================================
