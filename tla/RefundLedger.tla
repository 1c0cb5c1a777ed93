---------------------------- MODULE RefundLedger ----------------------------
(***************************************************************************)
(* Refunds of card payments (audit/store.py: record_stripe_refund and      *)
(* record_payment_intent_in_tx).  Stripe sends a signed snapshot of a      *)
(* refund with every change, in any order and more than once; the store    *)
(* keeps one row per refund and books it on the order its PaymentIntent    *)
(* paid.  The order is known once the settlement of the charge links the   *)
(* two, which may be before, between or after the refund's snapshots.      *)
(*                                                                         *)
(* The database runs at READ COMMITTED (create_engine sets no level): a    *)
(* statement sees what was committed before it.  So the read of the link   *)
(* and the write of the refund row are two actions, and so are the last    *)
(* statement of the settlement and its commit.                             *)
(***************************************************************************)
EXTENDS Integers, FiniteSets

CONSTANTS
    Refunds,    \* stripe_refunds.refund_id
    Intents,    \* PaymentIntents; the order one paid is named after it
    Amounts,    \* the immutable fields of a refund: amount, currency, mode
    Workers,    \* webhook threads recording refunds
    MaxEvents,  \* bound: different snapshots recorded
    None        \* no PaymentIntent in the snapshot, no order

Statuses == {"pending", "requires_action", "succeeded", "failed", "canceled"}

Rank ==
    [st \in Statuses \cup {"review"} |->
        CASE st \in {"pending", "requires_action"} -> 0
          [] st = "succeeded" -> 1
          [] st \in {"failed", "canceled"} -> 2
          [] st = "review" -> 3]

\* A snapshot names the PaymentIntent, or only the charge.
Events == [refund : Refunds, status : Statuses, amount : Amounts,
           intent : Intents \cup {None}]

ASSUME RefundSets ==
    /\ IsFiniteSet(Refunds) /\ IsFiniteSet(Intents) /\ IsFiniteSet(Amounts)
    /\ None \notin Intents \cup Amounts
    /\ MaxEvents \in Nat

VARIABLES
    row,       \* stripe_refunds, by refund
    linked,    \* the committed rows of stripe_payment_intents
    settling,  \* settlements that ran their UPDATE but have not committed,
               \* each with the refund rows it changed and keeps locked
    worker,    \* what each webhook thread has read
    received   \* the snapshots whose transaction committed

vars == <<row, linked, settling, worker, received>>

NoRow == [status |-> "none", amount |-> None, intent |-> None, order |-> None]
Idle == [busy |-> FALSE]

Row == [status : Statuses \cup {"none", "review"}, amount : Amounts \cup {None},
        intent : Intents \cup {None}, order : Intents \cup {None}]

Init ==
    /\ row = [f \in Refunds |-> NoRow]
    /\ linked = {}
    /\ settling = [pi \in {} |-> {}]
    /\ worker = [w \in Workers |-> Idle]
    /\ received = {}

Locked(f) == \E pi \in DOMAIN settling : f \in settling[pi]

------------------------------------------------------------------------------
(* record_stripe_refund.                                                    *)

\* Its first statement: which order did this PaymentIntent pay?
ReadLink(w, e) ==
    /\ worker[w] = Idle
    /\ e \in received \/ Cardinality(received) < MaxEvents
    /\ worker' = [worker EXCEPT ![w] =
         [busy |-> TRUE, event |-> e,
          order |-> IF e.intent \in linked THEN e.intent ELSE None]]
    /\ UNCHANGED <<row, linked, settling, received>>

\* Does the snapshot contradict the row?
Conflict(prior, e, o) ==
    \/ prior.amount # e.amount
    \/ None \notin {prior.intent, e.intent} /\ prior.intent # e.intent
    \/ None \notin {prior.order, o} /\ prior.order # o
    \/ Rank[prior.status] = 2 /\ Rank[e.status] = 2 /\ prior.status # e.status

\* Mutant of NextStatus: the last snapshot to arrive wins.
LastStatus(prior, e, o) == IF Conflict(prior, e, o) THEN "review" ELSE e.status

NextStatus(prior, e, o) ==
    IF Conflict(prior, e, o) THEN "review"
    ELSE IF Rank[e.status] > Rank[prior.status] THEN e.status ELSE prior.status

\* Mutant of Known: a later value replaces the one that is known.
KnownLast(old, new) == IF new # None THEN new ELSE old

Known(old, new) == IF old # None THEN old ELSE new

\* The row after a snapshot: inserted, or updated under its lock.
Recorded(prior, e, o) ==
    IF prior.status = "none"
    THEN [status |-> e.status, amount |-> e.amount, intent |-> e.intent, order |-> o]
    ELSE [prior EXCEPT !.status = NextStatus(prior, e, o),
                       !.intent = Known(prior.intent, e.intent),
                       !.order  = Known(prior.order, o)]

\* Its last statement and the commit; a row a settlement changed is waited for.
WriteRefund(w) ==
    /\ worker[w].busy
    /\ LET e == worker[w].event IN
        /\ ~Locked(e.refund)
        /\ row' = [row EXCEPT ![e.refund] = Recorded(@, e, worker[w].order)]
        /\ received' = received \cup {e}
    /\ worker' = [worker EXCEPT ![w] = Idle]
    /\ UNCHANGED <<linked, settling>>

\* The thread stops, or its transaction is rolled back: Stripe sends it again.
RefundDies(w) ==
    /\ worker[w].busy
    /\ worker' = [worker EXCEPT ![w] = Idle]
    /\ UNCHANGED <<row, linked, settling, received>>

------------------------------------------------------------------------------
(* record_payment_intent_in_tx, at the end of a settlement.  A redelivered  *)
(* charge settles again and runs it again.                                  *)

\* Mutant of Unlinked: the UPDATE is not limited to the PaymentIntent.
UnlinkedAny(pi) == {f \in Refunds : row[f].status # "none" /\ row[f].order = None}

Unlinked(pi) == {f \in Refunds : row[f].intent = pi /\ row[f].order = None}

\* The link is inserted and the UPDATE books the refunds already known.
BookRefunds(pi) ==
    /\ pi \notin DOMAIN settling
    /\ \A f \in Unlinked(pi) : ~Locked(f)
    /\ settling' = [p \in DOMAIN settling \cup {pi} |->
                      IF p = pi THEN Unlinked(pi) ELSE settling[p]]
    /\ UNCHANGED <<row, linked, worker, received>>

Without(pi) == [p \in DOMAIN settling \ {pi} |-> settling[p]]

CommitSettlement(pi) ==
    /\ pi \in DOMAIN settling
    /\ linked' = linked \cup {pi}
    /\ row' = [f \in Refunds |-> IF f \in settling[pi]
                                 THEN [row[f] EXCEPT !.order = pi] ELSE row[f]]
    /\ settling' = Without(pi)
    /\ UNCHANGED <<worker, received>>

SettlementDies(pi) ==
    /\ pi \in DOMAIN settling
    /\ settling' = Without(pi)
    /\ UNCHANGED <<row, linked, worker, received>>

------------------------------------------------------------------------------
Next ==
    \/ \E w \in Workers, e \in Events : ReadLink(w, e)
    \/ \E w \in Workers : WriteRefund(w) \/ RefundDies(w)
    \/ \E pi \in Intents : BookRefunds(pi) \/ CommitSettlement(pi) \/ SettlementDies(pi)

Spec == Init /\ [][Next]_vars

------------------------------------------------------------------------------
(* Properties.                                                             *)

\* Rows, links and threads have their columns; a settlement holds only rows of
\* its own PaymentIntent.
TypeOK ==
    /\ row \in [Refunds -> Row]
    /\ linked \subseteq Intents
    /\ DOMAIN settling \subseteq Intents
    /\ \A pi \in DOMAIN settling : settling[pi] \subseteq Refunds
    /\ \A w \in Workers :
        \/ worker[w] = Idle
        \/ worker[w] \in [busy : {TRUE}, event : Events, order : Intents \cup {None}]
    /\ received \subseteq Events

\* The snapshots of refund f, whatever order they came in.
Of(f) == {e \in received : e.refund = f}

\* Two snapshots that cannot both be true of one refund.
Contradict(d, e) ==
    \/ d.amount # e.amount
    \/ None \notin {d.intent, e.intent} /\ d.intent # e.intent
    \/ {d.status, e.status} = {"failed", "canceled"}

\* "Robust to retries and stale events" (record_stripe_refund): the status
\* depends only on which snapshots arrived, not on their order, repetition or
\* interleaving.  It is the highest rank among them, and review exactly when two
\* of them contradict each other; a late succeeded never undoes a failure.
StatusIsMerge ==
    \A f \in Refunds :
        /\ row[f].status = "none" <=> Of(f) = {}
        /\ row[f].status = "review" <=> \E d, e \in Of(f) : Contradict(d, e)
        /\ row[f].status \in Statuses =>
            /\ \E e \in Of(f) : e.status = row[f].status
            /\ \A e \in Of(f) : Rank[e.status] <= Rank[row[f].status]

\* Every row is well typed, and a refund that counts is booked only on the order
\* its own PaymentIntent paid, once that settlement has committed: a snapshot that
\* names another PaymentIntent may book it elsewhere, but then it is in review and
\* counts zero.
BookedOnItsCharge ==
    /\ TypeOK
    /\ \A f \in Refunds : row[f].order # None =>
        /\ row[f].order \in linked
        /\ row[f].order = row[f].intent \/ row[f].status = "review"

\* Once booked, a refund never moves to another order and never comes loose.
BookingIsFinal ==
    [][\A f \in Refunds : row[f].order # None => row'[f].order = row[f].order]_vars

\* store.py, stripe_payment_intents: "A refund can arrive before the Checkout
\* webhook and remain unlinked until it does".  With the settlement committed
\* and no transaction in progress, the refund is linked.
LinkedOnceSettled ==
    \A f \in Refunds :
        (/\ row[f].intent \in linked
         /\ DOMAIN settling = {}
         /\ \A w \in Workers : worker[w] = Idle) => row[f].order # None

==============================================================================
