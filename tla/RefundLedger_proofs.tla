------------------------ MODULE RefundLedger_proofs ------------------------
(***************************************************************************)
(* Proofs about RefundLedger, for any number of refunds, PaymentIntents,   *)
(* webhook threads and snapshots: what the ledger says of a refund depends *)
(* on which snapshots arrived and never on their order, and a refund that  *)
(* counts is booked once, on the order its own PaymentIntent paid.         *)
(***************************************************************************)
EXTENDS RefundLedger, TLAPS

------------------------------------------------------------------------------
(* The inductive invariant.                                                 *)

\* Snapshots that do not contradict each other: one amount, one PaymentIntent where it
\* is named, and one final status; st is the highest among them.
Agreed(st, amount, intent, seen) ==
    /\ \E d \in seen : d.status = st
    /\ \A d \in seen :
        /\ d.amount = amount
        /\ d.intent \in {None, intent}
        /\ Rank[d.status] <= Rank[st]
        /\ Rank[d.status] = 2 => d.status = st

\* What a row r says when the snapshots `seen` arrived and the PaymentIntents
\* `links` are linked.  Its columns come from snapshots; a row that is not in
\* review agrees with all of them.
Merges(r, seen, links) ==
    /\ r.status = "none" => r = NoRow /\ seen = {}
    /\ r.status # "none" =>
        /\ \E d \in seen : d.amount = r.amount
        /\ r.intent # None => \E d \in seen : d.intent = r.intent
        /\ r.order # None =>
            /\ \E d \in seen : d.intent = r.order
            /\ r.order \in links
            /\ r.intent # None
            /\ r.order = r.intent \/ r.status = "review"
    /\ r.status = "review" => \E d, e \in seen : Contradict(d, e)
    /\ r.status \in Statuses => Agreed(r.status, r.amount, r.intent, seen)

\* A settlement keeps locked only unbooked rows of its own PaymentIntent: two
\* settlements never hold the same row.
HoldsOwn == \A pi \in DOMAIN settling : \A f \in settling[pi] :
                row[f].intent = pi /\ row[f].order = None

\* The order a thread has read is the snapshot's PaymentIntent, and is linked.
ReadIsLinked == \A w \in Workers :
    worker[w] # Idle /\ worker[w].order # None =>
        worker[w].order = worker[w].event.intent /\ worker[w].order \in linked

LedgerInv ==
    /\ TypeOK
    /\ \A f \in Refunds : Merges(row[f], Of(f), linked)
    /\ HoldsOwn
    /\ ReadIsLinked

------------------------------------------------------------------------------
(* The row after a snapshot.                                                *)

\* What the proofs use of the ranks.
LEMMA Ranks ==
  /\ \A st \in Statuses \cup {"review"} :
        /\ Rank[st] \in 0..3
        /\ Rank[st] = 2 <=> st \in {"failed", "canceled"}
        /\ Rank[st] = 3 <=> st = "review"
  /\ "none" \notin Statuses /\ "review" \notin Statuses
  BY DEF Rank, Statuses

\* A status or a snapshot is well typed, and the first of a refund makes the row.
LEMMA FirstSnapshot ==
  ASSUME NEW links \in SUBSET Intents, NEW e \in Events, NEW o \in Intents \cup {None},
         o # None => o = e.intent /\ o \in links
  PROVE  LET r == Recorded(NoRow, e, o) IN r \in Row /\ Merges(r, {e}, links)
<1>1. PICK r : r = Recorded(NoRow, e, o)
  OBVIOUS
<1>2. /\ r = [status |-> e.status, amount |-> e.amount, intent |-> e.intent, order |-> o]
      /\ e.status \in Statuses /\ e.amount \in Amounts /\ e.intent \in Intents \cup {None}
  BY <1>1 DEF Recorded, NoRow, Events
<1>3. r \in Row
  BY <1>2 DEF Row
<1>4. Rank[e.status] <= Rank[e.status] /\ e.status \notin {"none", "review"}
  BY <1>2, Ranks
<1>5. Merges(r, {e}, links)
  BY <1>2, <1>4 DEF Merges, Agreed
<1> QED BY <1>1, <1>3, <1>5

\* A later snapshot changes the status, the PaymentIntent and the order only.
LEMMA LaterSnapshot ==
  ASSUME NEW r \in Row, r.status # "none", NEW e \in Events, NEW o \in Intents \cup {None}
  PROVE  LET n == Recorded(r, e, o) IN
         /\ n \in Row
         /\ n.status = NextStatus(r, e, o)
         /\ n.status \in Statuses \cup {"review"}
         /\ n.amount = r.amount
         /\ n.intent = Known(r.intent, e.intent)
         /\ n.order = Known(r.order, o)
<1>1. /\ r.status \in Statuses \cup {"review"} /\ e.status \in Statuses
      /\ r.intent \in Intents \cup {None} /\ e.intent \in Intents \cup {None}
      /\ r.order \in Intents \cup {None}
  BY DEF Row, Events
<1>2. /\ NextStatus(r, e, o) \in Statuses \cup {"review"}
      /\ Known(r.intent, e.intent) \in Intents \cup {None}
      /\ Known(r.order, o) \in Intents \cup {None}
  BY <1>1 DEF NextStatus, Known
<1> QED BY <1>2 DEF Recorded, Row

\* A snapshot that conflicts with the row contradicts one that arrived before it.
LEMMA ConflictHasWitness ==
  ASSUME NEW r \in Row, NEW seen \in SUBSET Events, NEW links, Merges(r, seen, links),
         r.status # "none", r.status # "review",
         NEW e \in Events, NEW o, o # None => o = e.intent, Conflict(r, e, o)
  PROVE  \E d \in seen : Contradict(d, e)
<1>1. r.status \in Statuses /\ e.status \in Statuses
  BY DEF Row, Events
<1>2. CASE r.amount # e.amount
  BY <1>2, <1>1 DEF Merges, Contradict
<1>3. CASE None \notin {r.intent, e.intent} /\ r.intent # e.intent
  <2>1. PICK d \in seen : d.intent = r.intent
    BY <1>3, <1>1, Ranks DEF Merges
  <2> QED BY <2>1, <1>3 DEF Contradict
<1>4. CASE None \notin {r.order, o} /\ r.order # o
  <2>1. PICK d \in seen : d.intent = r.order
    BY <1>4, <1>1, Ranks DEF Merges
  <2> QED BY <2>1, <1>4 DEF Contradict
<1>5. CASE Rank[r.status] = 2 /\ Rank[e.status] = 2 /\ r.status # e.status
  <2>1. PICK d \in seen : d.status = r.status
    BY <1>1 DEF Merges, Agreed
  <2>2. {d.status, e.status} = {"failed", "canceled"}
    BY <1>1, <1>5, <2>1, Ranks
  <2> QED BY <2>1, <2>2 DEF Contradict
<1> QED BY <1>2, <1>3, <1>4, <1>5 DEF Conflict

\* A snapshot that does not conflict agrees with the row in all that Merges says.
LEMMA AgreeingSnapshot ==
  ASSUME NEW r \in Row, NEW seen \in SUBSET Events, NEW links, Merges(r, seen, links),
         r.status \in Statuses, NEW e \in Events, NEW o \in Intents \cup {None},
         ~Conflict(r, e, o)
  PROVE  /\ NextStatus(r, e, o) \in Statuses
         /\ Agreed(NextStatus(r, e, o), r.amount, Known(r.intent, e.intent), seen \cup {e})
<1>0. PICK s : s = NextStatus(r, e, o)
  OBVIOUS
<1>1. /\ e.status \in Statuses /\ \A d \in seen : d.status \in Statuses
      /\ Rank[r.status] \in 0..3 /\ Rank[e.status] \in 0..3
      /\ \A d \in seen : Rank[d.status] \in 0..3
      /\ Rank[r.status] # 3 /\ Rank[e.status] # 3
  BY Ranks DEF Events
<1>2. /\ \E d \in seen : d.status = r.status
      /\ \A d \in seen :
            /\ d.amount = r.amount
            /\ d.intent \in {None, r.intent}
            /\ Rank[d.status] <= Rank[r.status]
            /\ Rank[d.status] = 2 => d.status = r.status
  BY DEF Merges, Agreed
<1>3. /\ e.amount = r.amount
      /\ r.intent = None \/ e.intent = None \/ r.intent = e.intent
      /\ Rank[r.status] = 2 /\ Rank[e.status] = 2 => r.status = e.status
  BY DEF Conflict
<1>4. s = IF Rank[e.status] > Rank[r.status] THEN e.status ELSE r.status
  BY <1>0 DEF NextStatus
<1>5. \A d \in seen \cup {e} : d.amount = r.amount /\ d.intent \in {None, Known(r.intent, e.intent)}
  BY <1>2, <1>3 DEF Known
<1>6. CASE Rank[e.status] > Rank[r.status]
  <2>1. s = e.status
    BY <1>4, <1>6
  <2>2. \A d \in seen : Rank[d.status] <= Rank[s] /\ (Rank[d.status] = 2 => d.status = s)
    BY <2>1, <1>1, <1>2, <1>6
  <2> QED BY <1>0, <1>1, <1>5, <2>1, <2>2 DEF Agreed
<1>7. CASE ~(Rank[e.status] > Rank[r.status])
  <2>1. s = r.status
    BY <1>4, <1>7
  <2>2. Rank[e.status] <= Rank[s] /\ (Rank[e.status] = 2 => e.status = s)
    BY <2>1, <1>1, <1>3, <1>7
  <2> QED BY <1>0, <1>1, <1>2, <1>5, <2>1, <2>2 DEF Agreed
<1> QED BY <1>0, <1>6, <1>7

\* Recording one more snapshot keeps the row the merge of what arrived.
LEMMA RecordedMerges ==
  ASSUME NEW r \in Row, NEW seen \in SUBSET Events, NEW links \in SUBSET Intents,
         Merges(r, seen, links),
         NEW e \in Events, NEW o \in Intents \cup {None},
         o # None => o = e.intent /\ o \in links
  PROVE  LET n == Recorded(r, e, o) IN n \in Row /\ Merges(n, seen \cup {e}, links)
<1>1. CASE r.status = "none"
  <2>1. r = NoRow /\ seen \cup {e} = {e}
    BY <1>1 DEF Merges
  <2> QED BY <2>1, FirstSnapshot
<1>2. CASE r.status # "none"
  <2>1. PICK n : n = Recorded(r, e, o)
    OBVIOUS
  <2>2. /\ n \in Row
        /\ n.status = NextStatus(r, e, o)
        /\ n.status \in Statuses \cup {"review"}
        /\ n.amount = r.amount
        /\ n.intent = Known(r.intent, e.intent)
        /\ n.order = Known(r.order, o)
    BY <1>2, <2>1, LaterSnapshot
  <2>3. n.status # "none"
    BY <2>2, Ranks
  <2>4. /\ r.status \in Statuses \cup {"review"} /\ e.status \in Statuses
        /\ "review" \notin Statuses
    BY <1>2, Ranks DEF Row, Events
  <2>5. r.status = "review" => n.status = "review"
    <3>1. r.status = "review" => ~(Rank[e.status] > Rank[r.status])
      BY <2>4, Ranks
    <3> QED BY <2>2, <3>1 DEF NextStatus
  <2>6. n.status = "review" => \E d, c \in seen \cup {e} : Contradict(d, c)
    <3>1. CASE r.status = "review"
      BY <3>1 DEF Merges
    <3>2. CASE r.status # "review" /\ Conflict(r, e, o)
      <4>1. \E d \in seen : Contradict(d, e)
        BY <1>2, <3>2, ConflictHasWitness
      <4> QED BY <4>1
    <3>3. CASE r.status # "review" /\ ~Conflict(r, e, o)
      BY <3>3, <2>2, <2>4, AgreeingSnapshot
    <3> QED BY <3>1, <3>2, <3>3
  <2>7. n.status \in Statuses => Agreed(n.status, n.amount, n.intent, seen \cup {e})
    <3> SUFFICES ASSUME n.status \in Statuses
                 PROVE  Agreed(n.status, n.amount, n.intent, seen \cup {e})
      OBVIOUS
    <3>1. r.status \in Statuses /\ ~Conflict(r, e, o)
      BY <2>2, <2>4, <2>5 DEF NextStatus
    <3> QED BY <3>1, <2>2, AgreeingSnapshot
  <2>8. /\ \E d \in seen \cup {e} : d.amount = n.amount
        /\ n.intent # None => \E d \in seen \cup {e} : d.intent = n.intent
    BY <1>2, <2>2 DEF Merges, Known
  <2>9. n.order # None =>
          /\ \E d \in seen \cup {e} : d.intent = n.order
          /\ n.order \in links
          /\ n.intent # None
    BY <1>2, <2>2 DEF Merges, Known
  <2>10. n.order # None => n.order = n.intent \/ n.status = "review"
    <3>1. CASE r.order # None
      <4>1. n.order = r.order /\ n.intent = r.intent /\ (r.order = r.intent \/ r.status = "review")
        BY <1>2, <2>2, <3>1 DEF Merges, Known
      <4> QED BY <4>1, <2>5
    <3>2. CASE r.order = None /\ o # None
      <4>1. n.order = e.intent /\ e.intent # None
        BY <2>2, <3>2 DEF Known
      <4>2. CASE r.intent = None \/ r.intent = e.intent
        BY <2>2, <4>1, <4>2 DEF Known
      <4>3. CASE r.intent # None /\ r.intent # e.intent
        <5>1. Conflict(r, e, o)
          BY <4>1, <4>3 DEF Conflict
        <5> QED BY <2>2, <5>1 DEF NextStatus
      <4> QED BY <4>2, <4>3
    <3>3. CASE r.order = None /\ o = None
      BY <2>2, <3>3 DEF Known
    <3> QED BY <3>1, <3>2, <3>3
  <2>11. Merges(n, seen \cup {e}, links)
    BY <2>3, <2>6, <2>7, <2>8, <2>9, <2>10 DEF Merges
  <2> QED BY <2>1, <2>2, <2>11
<1> QED BY <1>1, <1>2

------------------------------------------------------------------------------
(* Every step keeps the invariant.                                          *)

LEMMA LedgerInit == Init => LedgerInv
<1> SUFFICES ASSUME Init PROVE LedgerInv
  OBVIOUS
<1>1. TypeOK
  BY DEF Init, TypeOK, Row, NoRow, Idle
<1>2. \A f \in Refunds : Merges(row[f], Of(f), linked)
  <2>1. NoRow.status = "none" /\ "none" # "review" /\ "none" \notin Statuses
    BY DEF NoRow, Statuses
  <2> QED BY <2>1 DEF Init, Merges, Of
<1>3. HoldsOwn
  BY DEF Init, HoldsOwn
<1>4. ReadIsLinked
  BY DEF Init, ReadIsLinked
<1> QED BY <1>1, <1>2, <1>3, <1>4 DEF LedgerInv

\* A thread that reads the link reads a PaymentIntent that is linked, or nothing.
LEMMA ReadLinkKeeps ==
  ASSUME LedgerInv, NEW w \in Workers, NEW e \in Events, ReadLink(w, e)
  PROVE  LedgerInv'
<1>1. PICK busy : busy = [busy |-> TRUE, event |-> e,
                          order |-> IF e.intent \in linked THEN e.intent ELSE None]
  OBVIOUS
<1>2. /\ worker' = [worker EXCEPT ![w] = busy]
      /\ row' = row /\ linked' = linked /\ settling' = settling /\ received' = received
  BY <1>1 DEF ReadLink
<1>3. /\ busy \in [busy : {TRUE}, event : Events, order : Intents \cup {None}]
      /\ busy.order # None => busy.order = busy.event.intent /\ busy.order \in linked
  BY <1>1 DEF LedgerInv, TypeOK
<1>4. \A v \in Workers : worker'[v] = worker[v] \/ worker'[v] = busy
  BY <1>2
<1>5. TypeOK'
  BY <1>2, <1>3, <1>4 DEF LedgerInv, TypeOK
<1>6. ReadIsLinked'
  BY <1>2, <1>3, <1>4 DEF LedgerInv, ReadIsLinked
<1> QED BY <1>2, <1>5, <1>6 DEF LedgerInv, HoldsOwn, Of

\* A thread that stops leaves the tables as they are.
LEMMA IdleKeeps ==
  ASSUME LedgerInv, NEW w, worker' = [worker EXCEPT ![w] = Idle]
  PROVE  \A v \in Workers : worker'[v] = worker[v] \/ worker'[v] = Idle
OBVIOUS

\* The row that is written is the merge, and no settlement holds it.
LEMMA WriteRefundKeeps ==
  ASSUME LedgerInv, NEW w \in Workers, WriteRefund(w)
  PROVE  LedgerInv'
<1>1. PICK e, o : e = worker[w].event /\ o = worker[w].order
  OBVIOUS
<1>2. /\ row' = [row EXCEPT ![e.refund] = Recorded(@, e, o)]
      /\ received' = received \cup {e}
      /\ worker' = [worker EXCEPT ![w] = Idle]
      /\ linked' = linked /\ settling' = settling
      /\ worker[w] # Idle /\ ~Locked(e.refund)
  BY <1>1 DEF WriteRefund, Idle
<1>3. /\ e \in Events /\ o \in Intents \cup {None}
      /\ o # None => o = e.intent /\ o \in linked
  BY <1>1, <1>2 DEF LedgerInv, TypeOK, ReadIsLinked
<1>4. e.refund \in Refunds
  BY <1>3 DEF Events
<1>5. \A f \in Refunds : /\ row[f] \in Row
                         /\ Of(f) \in SUBSET Events
                         /\ Merges(row[f], Of(f), linked)
  BY DEF LedgerInv, TypeOK, Of
<1>6. linked \in SUBSET Intents
  BY DEF LedgerInv, TypeOK
<1>7. /\ Recorded(row[e.refund], e, o) \in Row
      /\ Merges(Recorded(row[e.refund], e, o), Of(e.refund) \cup {e}, linked)
  BY <1>3, <1>4, <1>5, <1>6, RecordedMerges
<1>8. /\ row' \in [Refunds -> Row]
      /\ row'[e.refund] = Recorded(row[e.refund], e, o)
      /\ \A f \in Refunds : f # e.refund => row'[f] = row[f]
  BY <1>2, <1>4, <1>7 DEF LedgerInv, TypeOK
<1>9. \A f \in Refunds : Of(f)' = IF f = e.refund THEN Of(f) \cup {e} ELSE Of(f)
  BY <1>2 DEF Of
<1>10. \A f \in Refunds : Merges(row[f], Of(f), linked)'
  <2> SUFFICES ASSUME NEW f \in Refunds PROVE Merges(row'[f], Of(f)', linked)
    BY <1>2
  <2>1. CASE f = e.refund
    BY <2>1, <1>7, <1>8, <1>9
  <2>2. CASE f # e.refund
    <3>1. row'[f] = row[f] /\ Of(f)' = Of(f)
      BY <2>2, <1>8, <1>9
    <3> QED BY <3>1, <1>5
  <2> QED BY <2>1, <2>2
<1>11. \A v \in Workers : worker'[v] = worker[v] \/ worker'[v] = Idle
  BY <1>2
<1>12. TypeOK'
  BY <1>2, <1>3, <1>8, <1>11 DEF LedgerInv, TypeOK
<1>13. HoldsOwn'
  BY <1>2, <1>8 DEF LedgerInv, HoldsOwn, Locked, TypeOK
<1>14. ReadIsLinked'
  BY <1>2, <1>11 DEF LedgerInv, ReadIsLinked
<1> QED BY <1>10, <1>12, <1>13, <1>14 DEF LedgerInv

\* Stopping a thread changes nothing the ledger says.
LEMMA RefundDiesKeeps ==
  ASSUME LedgerInv, NEW w \in Workers, RefundDies(w)
  PROVE  LedgerInv'
<1>1. /\ worker' = [worker EXCEPT ![w] = Idle]
      /\ row' = row /\ linked' = linked /\ settling' = settling /\ received' = received
  BY DEF RefundDies
<1>2. \A v \in Workers : worker'[v] = worker[v] \/ worker'[v] = Idle
  BY <1>1
<1>3. TypeOK'
  BY <1>1, <1>2 DEF LedgerInv, TypeOK
<1>4. ReadIsLinked'
  BY <1>1, <1>2 DEF LedgerInv, ReadIsLinked
<1> QED BY <1>1, <1>3, <1>4 DEF LedgerInv, HoldsOwn, Of

\* The UPDATE of a settlement takes only rows of its PaymentIntent that have no order.
LEMMA BookRefundsKeeps ==
  ASSUME LedgerInv, NEW pi \in Intents, BookRefunds(pi)
  PROVE  LedgerInv'
<1>1. /\ settling' = [p \in DOMAIN settling \cup {pi} |->
                        IF p = pi THEN Unlinked(pi) ELSE settling[p]]
      /\ row' = row /\ linked' = linked /\ worker' = worker /\ received' = received
  BY DEF BookRefunds
<1>2. /\ DOMAIN settling' = DOMAIN settling \cup {pi}
      /\ settling'[pi] = Unlinked(pi)
      /\ \A p \in DOMAIN settling' : p # pi => p \in DOMAIN settling /\ settling'[p] = settling[p]
  BY <1>1
<1>3. /\ Unlinked(pi) \subseteq Refunds
      /\ \A f \in Unlinked(pi) : row[f].intent = pi /\ row[f].order = None
  BY DEF Unlinked
<1>4. TypeOK'
  BY <1>1, <1>2, <1>3 DEF LedgerInv, TypeOK
<1>5. HoldsOwn'
  BY <1>1, <1>2, <1>3 DEF LedgerInv, HoldsOwn
<1> QED BY <1>1, <1>4, <1>5 DEF LedgerInv, ReadIsLinked, Of

\* A settlement that leaves lets go of its rows.
LEMMA WithoutKeeps ==
  ASSUME NEW pi
  PROVE  /\ DOMAIN Without(pi) = DOMAIN settling \ {pi}
         /\ \A p \in DOMAIN Without(pi) : Without(pi)[p] = settling[p]
BY DEF Without

\* More links take nothing from a row, and booking it on its own PaymentIntent is a merge.
LEMMA BookingMerges ==
  ASSUME NEW r, NEW seen, NEW links, Merges(r, seen, links), NEW pi
  PROVE  /\ Merges(r, seen, links \cup {pi})
         /\ \A n : (/\ pi # None /\ r.intent = pi /\ r.order = None
                   /\ n.status = r.status /\ n.amount = r.amount
                   /\ n.intent = r.intent /\ n.order = pi)
                    => Merges(n, seen, links \cup {pi})
<1>1. Merges(r, seen, links \cup {pi})
  <2>1. r.order \in links => r.order \in links \cup {pi}
    OBVIOUS
  <2> QED BY <2>1, Zenon DEF Merges
<1>2. ASSUME NEW n, pi # None, r.intent = pi, r.order = None,
             n.status = r.status, n.amount = r.amount, n.intent = r.intent, n.order = pi
      PROVE  Merges(n, seen, links \cup {pi})
  <2>1. r.status # "none"
    BY <1>2 DEF Merges, NoRow
  <2>2. \E d \in seen : d.intent = pi
    BY <1>2, <2>1 DEF Merges
  <2>3. n.order \in links \cup {pi}
    BY <1>2
  <2> QED BY <1>2, <2>1, <2>2, <2>3, Zenon DEF Merges
<1> QED BY <1>1, <1>2

\* The rows a settlement books are its own, and say which order paid for them.
LEMMA CommitSettlementKeeps ==
  ASSUME LedgerInv, NEW pi \in Intents, CommitSettlement(pi)
  PROVE  LedgerInv'
<1>1. /\ pi \in DOMAIN settling
      /\ linked' = linked \cup {pi}
      /\ row' = [f \in Refunds |-> IF f \in settling[pi]
                                   THEN [row[f] EXCEPT !.order = pi] ELSE row[f]]
      /\ settling' = Without(pi)
      /\ worker' = worker /\ received' = received
  BY DEF CommitSettlement
<1>2. /\ DOMAIN settling' = DOMAIN settling \ {pi}
      /\ \A p \in DOMAIN settling' : settling'[p] = settling[p]
  BY <1>1, WithoutKeeps
<1>3. \A f \in Refunds :
        /\ row[f] \in Row
        /\ Merges(row[f], Of(f), linked)
        /\ Of(f)' = Of(f)
  BY <1>1 DEF LedgerInv, TypeOK, Of
<1>4. \A f \in settling[pi] : f \in Refunds /\ row[f].intent = pi /\ row[f].order = None
  BY <1>1 DEF LedgerInv, TypeOK, HoldsOwn
<1>5. pi # None
  BY RefundSets
<1>6. \A f \in settling[pi] :
        /\ row'[f] \in Row
        /\ row'[f].status = row[f].status /\ row'[f].amount = row[f].amount
        /\ row'[f].intent = row[f].intent /\ row'[f].order = pi
  BY <1>1, <1>3, <1>4 DEF Row
<1>7. \A f \in Refunds \ settling[pi] : row'[f] = row[f]
  BY <1>1
<1>8. \A f \in Refunds : Merges(row[f], Of(f), linked)'
  <2> SUFFICES ASSUME NEW f \in Refunds PROVE Merges(row'[f], Of(f), linked')
    BY <1>3
  <2>1. CASE f \in settling[pi]
    BY <1>1, <1>3, <1>4, <1>5, <1>6, <2>1, BookingMerges
  <2>2. CASE f \notin settling[pi]
    <3>1. row'[f] = row[f] /\ Merges(row[f], Of(f), linked)
      BY <1>3, <1>7, <2>2
    <3> QED BY <1>1, <3>1, BookingMerges
  <2> QED BY <2>1, <2>2
<1>9. TypeOK'
  <2>1. row' \in [Refunds -> Row]
    BY <1>1, <1>3, <1>6, <1>7
  <2> QED BY <1>1, <1>2, <2>1 DEF LedgerInv, TypeOK
<1>10. HoldsOwn'
  <2> SUFFICES ASSUME NEW p \in DOMAIN settling', NEW f \in settling'[p]
               PROVE  row'[f].intent = p /\ row'[f].order = None
    BY DEF HoldsOwn
  <2>1. p # pi /\ p \in DOMAIN settling /\ f \in settling[p]
    BY <1>2
  <2>2. f \in Refunds /\ row[f].intent = p /\ row[f].order = None
    BY <2>1 DEF LedgerInv, TypeOK, HoldsOwn
  <2>3. f \notin settling[pi]
    BY <2>1, <2>2, <1>4
  <2> QED BY <2>2, <2>3, <1>7
<1>11. ReadIsLinked'
  BY <1>1 DEF LedgerInv, ReadIsLinked
<1> QED BY <1>8, <1>9, <1>10, <1>11 DEF LedgerInv

\* A settlement that dies changes no row.
LEMMA SettlementDiesKeeps ==
  ASSUME LedgerInv, NEW pi \in Intents, SettlementDies(pi)
  PROVE  LedgerInv'
<1>1. /\ settling' = Without(pi)
      /\ row' = row /\ linked' = linked /\ worker' = worker /\ received' = received
  BY DEF SettlementDies
<1>2. /\ DOMAIN settling' \subseteq DOMAIN settling
      /\ \A p \in DOMAIN settling' : settling'[p] = settling[p]
  BY <1>1, WithoutKeeps
<1>3. TypeOK' /\ HoldsOwn'
  BY <1>1, <1>2 DEF LedgerInv, TypeOK, HoldsOwn
<1> QED BY <1>1, <1>3 DEF LedgerInv, ReadIsLinked, Of

LEMMA LedgerStep == LedgerInv /\ [Next]_vars => LedgerInv'
<1> SUFFICES ASSUME LedgerInv, [Next]_vars PROVE LedgerInv'
  OBVIOUS
<1>1. CASE \E w \in Workers, e \in Events : ReadLink(w, e)
  BY <1>1, ReadLinkKeeps
<1>2. CASE \E w \in Workers : WriteRefund(w) \/ RefundDies(w)
  BY <1>2, WriteRefundKeeps, RefundDiesKeeps
<1>3. CASE \E pi \in Intents : BookRefunds(pi) \/ CommitSettlement(pi) \/ SettlementDies(pi)
  BY <1>3, BookRefundsKeeps, CommitSettlementKeeps, SettlementDiesKeeps
<1>4. CASE UNCHANGED vars
  BY <1>4 DEF vars, LedgerInv, TypeOK, HoldsOwn, ReadIsLinked, Of
<1> QED BY <1>1, <1>2, <1>3, <1>4 DEF Next

LEMMA LedgerInvHolds == Spec => []LedgerInv
  BY LedgerInit, LedgerStep, PTL DEF Spec

------------------------------------------------------------------------------
(* What the ledger promises.                                                *)

\* In a row that is not in review, no two of its snapshots contradict each other.
LEMMA AgreedHasNoConflict ==
  ASSUME NEW seen \in SUBSET Events, NEW st \in Statuses, NEW amount, NEW intent,
         Agreed(st, amount, intent, seen), NEW d \in seen, NEW e \in seen
  PROVE  ~Contradict(d, e)
<1>1. d.amount = e.amount /\ (None \in {d.intent, e.intent} \/ d.intent = e.intent)
  BY DEF Agreed
<1>2. {d.status, e.status} # {"failed", "canceled"}
  <2> SUFFICES ASSUME {d.status, e.status} = {"failed", "canceled"} PROVE FALSE
    OBVIOUS
  <2>1. d.status \in {"failed", "canceled"} /\ e.status \in {"failed", "canceled"} /\ d.status # e.status
    OBVIOUS
  <2>2. Rank[d.status] = 2 /\ Rank[e.status] = 2
    BY <2>1, Ranks DEF Events
  <2> QED BY <2>1, <2>2 DEF Agreed
<1> QED BY <1>1, <1>2 DEF Contradict

LEMMA MergeFollows == LedgerInv => StatusIsMerge
<1> SUFFICES ASSUME LedgerInv, NEW f \in Refunds
             PROVE  /\ row[f].status = "none" <=> Of(f) = {}
                    /\ row[f].status = "review" <=> \E d, e \in Of(f) : Contradict(d, e)
                    /\ row[f].status \in Statuses =>
                        /\ \E e \in Of(f) : e.status = row[f].status
                        /\ \A e \in Of(f) : Rank[e.status] <= Rank[row[f].status]
  BY DEF StatusIsMerge
<1>1. /\ Merges(row[f], Of(f), linked) /\ Of(f) \in SUBSET Events
      /\ row[f].status \in Statuses \cup {"none", "review"}
  BY DEF LedgerInv, TypeOK, Of, Row
<1>2. row[f].status = "none" <=> Of(f) = {}
  BY <1>1 DEF Merges
<1>3. row[f].status = "review" <=> \E d, e \in Of(f) : Contradict(d, e)
  <2>1. CASE row[f].status \in Statuses
    <3>1. Agreed(row[f].status, row[f].amount, row[f].intent, Of(f))
      BY <1>1, <2>1 DEF Merges
    <3>2. \A d, e \in Of(f) : ~Contradict(d, e)
      BY <1>1, <2>1, <3>1, AgreedHasNoConflict
    <3> QED BY <2>1, <3>2, Ranks
  <2>2. CASE row[f].status = "none"
    BY <1>2, <2>2
  <2>3. CASE row[f].status = "review"
    BY <1>1, <2>3 DEF Merges
  <2> QED BY <1>1, <2>1, <2>2, <2>3
<1> QED BY <1>1, <1>2, <1>3 DEF Merges, Agreed

LEMMA BookedFollows == LedgerInv => BookedOnItsCharge
<1> SUFFICES ASSUME LedgerInv, NEW f \in Refunds, row[f].order # None
             PROVE  row[f].order \in linked /\ (row[f].order = row[f].intent \/ row[f].status = "review")
  BY DEF BookedOnItsCharge, LedgerInv
<1>1. Merges(row[f], Of(f), linked) /\ row[f].status # "none"
  BY DEF LedgerInv, Merges, NoRow
<1> QED BY <1>1 DEF Merges

LEMMA BookedStays ==
  ASSUME LedgerInv, [Next]_vars, NEW f \in Refunds, row[f].order # None
  PROVE  row'[f].order = row[f].order
<1>1. CASE row' = row
  BY <1>1
<1>2. ASSUME NEW w \in Workers, WriteRefund(w) PROVE row'[f].order = row[f].order
  <2>1. PICK e, o : row' = [row EXCEPT ![e.refund] = Recorded(@, e, o)]
    BY <1>2 DEF WriteRefund
  <2>2. row[f] \in Row /\ row[f].status # "none" /\ row \in [Refunds -> Row]
    BY DEF LedgerInv, Merges, NoRow, TypeOK
  <2>3. Recorded(row[f], e, o).order = row[f].order
    BY <2>2 DEF Recorded, Known, Row
  <2> QED BY <2>1, <2>2, <2>3
<1>3. ASSUME NEW pi \in Intents, CommitSettlement(pi) PROVE row'[f].order = row[f].order
  <2>1. f \notin settling[pi]
    BY <1>3 DEF LedgerInv, HoldsOwn, CommitSettlement
  <2> QED BY <1>3, <2>1 DEF CommitSettlement
<1> QED BY <1>1, <1>2, <1>3 DEF Next, vars, ReadLink, RefundDies, BookRefunds, SettlementDies

\* The status of a refund depends only on which snapshots arrived: the highest rank, or
\* review exactly when two of them contradict each other, for any number of refunds,
\* threads and snapshots and whatever order record_stripe_refund met them in.
THEOREM StatusIsMergeHolds == Spec => []StatusIsMerge
  BY LedgerInvHolds, MergeFollows, PTL

\* The ledger's rows are well typed, and a refund that counts is booked only on the order
\* its own PaymentIntent paid, however threads and settlements interleave.
THEOREM BookedOnItsChargeHolds == Spec => []BookedOnItsCharge
  BY LedgerInvHolds, BookedFollows, PTL

\* Once booked, a refund never moves to another order and never comes loose.
THEOREM BookingIsFinalHolds == Spec => BookingIsFinal
<1>1. LedgerInv /\ [Next]_vars =>
        [\A f \in Refunds : row[f].order # None => row'[f].order = row[f].order]_vars
  BY BookedStays
<1> QED BY <1>1, LedgerInvHolds, PTL DEF Spec, BookingIsFinal
=============================================================================
