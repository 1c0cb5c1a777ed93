--------------------------- MODULE MCRefundLedger ---------------------------
(* Instances of RefundLedger for TLC.                                        *)
EXTENDS RefundLedger, TLC

\* Threads, PaymentIntents and amounts are interchangeable.
Interchangeable ==
    Permutations(Workers) \cup Permutations(Intents) \cup Permutations(Amounts)
=============================================================================
