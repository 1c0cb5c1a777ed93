----------------------------- MODULE Entitlement -----------------------------
(***************************************************************************)
(* What paying for a report promises, with no orders, sessions or requests *)
(* in it: a report is unlocked once, by one charge or by one credit; a     *)
(* charge unlocks at most one report, and the code of a pack comes with    *)
(* the charge that unlocked; a credit is spent exactly when it unlocks.    *)
(***************************************************************************)
EXTENDS Integers

CONSTANTS Reports, Charges, Codes, PackCode, PackCredits, None

VARIABLES
    owner,    \* what unlocked a report: a charge, a code or None
    issued,   \* the codes that exist
    balance,  \* credits left on a code
    void      \* codes the owner disabled

vars == <<owner, issued, balance, void>>

Init ==
    /\ owner = [r \in Reports |-> None]
    /\ issued = {}
    /\ balance = [c \in Codes |-> 0]
    /\ void = {}

Issue(c, n) ==
    /\ c \notin issued
    /\ issued' = issued \cup {c}
    /\ balance' = [balance EXCEPT ![c] = n]

UnlockByCharge(r, s) ==
    /\ owner[r] = None
    /\ \A q \in Reports : owner[q] # s
    /\ owner' = [owner EXCEPT ![r] = s]
    /\ \/ Issue(PackCode[s], PackCredits)
       \/ UNCHANGED <<issued, balance>>
    /\ UNCHANGED void

UnlockByCredit(r, c) ==
    /\ owner[r] = None
    /\ c \in issued \ void
    /\ balance[c] > 0
    /\ owner' = [owner EXCEPT ![r] = c]
    /\ balance' = [balance EXCEPT ![c] = @ - 1]
    /\ UNCHANGED <<issued, void>>

\* The owner hands out or disables a code; a pack's code comes with its charge.
Grant(c) ==
    /\ \A s \in Charges : PackCode[s] # c
    /\ Issue(c, 1)
    /\ UNCHANGED <<owner, void>>

Disable(c) ==
    /\ c \in issued
    /\ void' = void \cup {c}
    /\ UNCHANGED <<owner, issued, balance>>

Next ==
    \/ \E r \in Reports, s \in Charges : UnlockByCharge(r, s)
    \/ \E r \in Reports, c \in Codes : UnlockByCredit(r, c)
    \/ \E c \in Codes : Grant(c) \/ Disable(c)

Spec == Init /\ [][Next]_vars

==============================================================================
