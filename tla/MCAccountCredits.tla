--------------------------- MODULE MCAccountCredits ---------------------------
(***************************************************************************)
(* Instances of AccountCredits for TLC.  Invites, purchases and codes put  *)
(* on an account meet only in the deletion of that account, so a behaviour *)
(* is about one of them, with that deletion.                               *)
(***************************************************************************)
EXTENDS AccountCredits

CONSTANTS c, r1, r2, ana, dan, eva, ivo, joy, kim, lia, s1, s2, o1

VARIABLE about   \* what this behaviour is about

MCInviter == [i \in {ivo, joy, kim, lia} |->
                 CASE i = kim -> dan [] i = lia -> eva [] OTHER -> ana]
MCBuyer == [o \in {o1} |-> ana]
MCOrder == [s \in {s1, s2} |-> o1]

CodesLinked(held) == {x \in held : x[1] \in Codes}

MCInit == Init /\ about \in {"invites", "purchases", "codes"}

MCNext ==
    /\ Next
    /\ about # "invites" => UNCHANGED <<confirmed, welcomed, asked, reward, budget>>
    /\ about # "purchases" => UNCHANGED <<order, paid, outcome, refused, run>>
    /\ about # "codes" => CodesLinked(links') = CodesLinked(links)
    /\ UNCHANGED about

MCSpec == MCInit /\ [][MCNext]_<<vars, about>>
=============================================================================
