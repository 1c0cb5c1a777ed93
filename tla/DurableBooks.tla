----------------------------- MODULE DurableBooks ------------------------------
(***************************************************************************)
(* What a durable session promises of its books, with no journal, lease or *)
(* process in it: they take the ticks of the feed once each and in order,  *)
(* never go back, and take none after a breaker tripped.                   *)
(***************************************************************************)
EXTENDS Integers, Sequences

CONSTANTS LastTick

VARIABLES
    ticks,  \* the ticks the books have taken
    halted  \* whether a breaker tripped

books == <<ticks, halted>>

Init == ticks = <<>> /\ halted = FALSE

\* The next ticks: several when a process catches up with its journal.
Take ==
    /\ ~halted
    /\ \E n \in (Len(ticks) + 1)..LastTick : ticks' = [t \in 1..n |-> t]
    /\ halted' \in BOOLEAN

Halt == ~halted /\ halted' = TRUE /\ UNCHANGED ticks

Next == Take \/ Halt

Spec == Init /\ [][Next]_books
================================================================================
