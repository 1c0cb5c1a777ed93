---------------------------- MODULE MCFreeReports ----------------------------
(***************************************************************************)
(* Instances of FreeReports for TLC.  Verified cards, changes of address   *)
(* and previews without an account are each a way around one limit: a      *)
(* behaviour is about one of them, and a request may die in the last.      *)
(* Ana may leave, eva stays.                                               *)
(***************************************************************************)
EXTENDS FreeReports

CONSTANTS ana, eva, box1, box2, d1, f1, wifi, carrier, visa

VARIABLE about   \* what this behaviour is about

MCCredits == [a \in {ana, eva} |-> IF a = ana THEN 1 ELSE 0]

MCInit ==
    /\ Init
    /\ about \in {"cards", "addresses", "visitors"}
    /\ inbox[ana] = box1 /\ (about = "visitors" => inbox[eva] = box2)

MCNext ==
    /\ Next
    /\ about # "cards" => UNCHANGED checked
    /\ about # "addresses" => UNCHANGED inbox
    /\ about # "visitors" => \A u \in Uploads : upload'[u].plan # "anon"
    /\ upload'[1].net # carrier   \* the first upload names the networks
    /\ about # "visitors" => UNCHANGED lost
    /\ inbox'[eva] = inbox[eva] /\ eva \in open'
    /\ UNCHANGED about

MCSpec == MCInit /\ [][MCNext]_<<vars, about>>
=============================================================================
