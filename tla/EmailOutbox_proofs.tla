------------------------ MODULE EmailOutbox_proofs ------------------------
(***************************************************************************)
(* Proofs about EmailOutbox, for any number of messages, mail workers,     *)
(* attempts and resends: a customer gets a message more often than asked   *)
(* only if Resend forgot a key, and over any transport only if a reply was *)
(* lost or a lease ran out; what is marked sent was delivered, and what    *)
(* came to rest stays.                                                     *)
(***************************************************************************)
EXTENDS EmailOutbox, FiniteSetTheorems, TLAPS

------------------------------------------------------------------------------
(* The inductive invariant.                                                 *)

\* A row r of a message resent n times.  A row that can still be sent has had at most
\* one sent_at for each resend before this one: Requeue revives only what was never
\* sent, and Resend, which revives what was, counts.
RowOK(r, n) ==
    /\ r \in Row
    /\ r.sent <= n + 1
    /\ r.status \in {"none", "queued", "sending"} => r.sent <= n

Delivered(m) == delivered[m] > 0

RowsOK ==
    /\ row = [m \in Messages |-> row[m]]
    /\ resends \in [Messages -> 0..MaxResends]
    /\ \A m \in Messages : RowOK(row[m], resends[m]) /\ (row[m].status = "sent" => Delivered(m))

\* A worker under way has a message, and a key that was its message's sent_at; one that
\* is going to mark its message sent has delivered it.
MailerOK(x, asked, got) ==
    /\ x \in WorkerState
    /\ x.pc # "idle" => x.msg \in Messages
    /\ x.pc \in {"sending", "sent"} => x.key <= asked[x.msg]
    /\ x.pc = "sent" => got[x.msg] > 0

MailersOK ==
    /\ worker = [w \in Workers |-> worker[w]]
    /\ \A w \in Workers : MailerOK(worker[w], resends, delivered)

PostTypes ==
    /\ transport \in Transports
    /\ kept \in [Messages -> SUBSET Keys]
    /\ delivered \in [Messages -> 0..MaxDelivered]
    /\ forgot \in [Messages -> 0..MaxForgets]
    /\ unsure \in [Messages -> BOOLEAN]

\* Resend keeps keys that were a sent_at; what it delivered and keeps no key of, it forgot.
KeysOK ==
    /\ PostTypes
    /\ \A m \in Messages :
          /\ \A k \in kept[m] : k <= resends[m]
          /\ kept[m] # {} => delivered[m] > 0
          /\ transport = "resend" => delivered[m] <= Cardinality(kept[m]) + forgot[m]

OutboxInv ==
    /\ RowsOK /\ MailersOK /\ KeysOK
    /\ recipient \in [Messages -> {"yes", "no", "later"}]

\* What may follow a row r: a sent notice is at most removed, a dead challenge too, and a
\* row that is gone stays gone.
Follows(r, s) ==
    /\ r.kind = "notice" /\ r.status = "sent" => s.status \in {"sent", "gone"}
    /\ r.kind # "notice" /\ r.status = "dead" => s.status \in {"dead", "gone"}
    /\ r.status = "gone" => s.status = "gone"

Stands == \A m \in Messages : Follows(row[m], row'[m])

------------------------------------------------------------------------------
(* Steps of the rows and of the workers.                                    *)

LEMMA Types ==
  ASSUME OutboxInv
  PROVE  /\ TypeOK
         /\ \A m \in Messages : /\ row[m] \in Row /\ row[m].sent \in Nat
                                /\ row[m].attempts \in 0..MaxAttempts
                                /\ resends[m] \in Nat /\ resends[m] <= MaxResends
         /\ MaxAttempts \in Nat /\ MaxResends \in Nat
<1>1. MaxAttempts \in Nat /\ MaxResends \in Nat
  BY OutboxSets
<1>2. \A m \in Messages : row[m] \in Row /\ resends[m] \in 0..MaxResends
  BY DEF OutboxInv, RowsOK, RowOK
<1>3. TypeOK
  BY <1>2 DEF OutboxInv, RowsOK, MailersOK, MailerOK, KeysOK, PostTypes, TypeOK
<1>4. \A m \in Messages : /\ row[m].sent \in Nat /\ row[m].attempts \in 0..MaxAttempts
                          /\ resends[m] \in Nat /\ resends[m] <= MaxResends
  BY <1>1, <1>2 DEF Row, Keys
<1> QED BY <1>1, <1>2, <1>3, <1>4

\* One row changes, and no delivery is taken back.
LEMMA RowMoves ==
  ASSUME RowsOK, NEW m \in Messages, NEW r,
         row' = [row EXCEPT ![m] = r],
         resends' \in [Messages -> 0..MaxResends],
         \A n \in Messages : n # m => resends'[n] = resends[n],
         \A n \in Messages : delivered[n] > 0 => delivered'[n] > 0,
         RowOK(r, resends'[m]), r.status = "sent" => Delivered(m), Follows(row[m], r)
  PROVE  RowsOK' /\ Stands
<1>1. /\ row' = [n \in Messages |-> row'[n]]
      /\ row'[m] = r
      /\ \A n \in Messages : n # m => row'[n] = row[n]
  BY DEF RowsOK
<1>2. \A n \in Messages : Delivered(n) => Delivered(n)'
  BY DEF Delivered
<1>3. \A n \in Messages : RowOK(row'[n], resends'[n]) /\ (row'[n].status = "sent" => Delivered(n)')
  BY <1>1, <1>2 DEF RowsOK
<1>4. \A n \in Messages : Follows(row[n], row[n])
  BY DEF Follows
<1>5. Stands
  BY <1>1, <1>4 DEF Stands
<1>6. RowsOK'
  BY <1>1, <1>3 DEF RowsOK, RowOK
<1> QED BY <1>5, <1>6

\* No row changes.
LEMMA RowsStay ==
  ASSUME RowsOK, row' = row, resends' = resends,
         \A n \in Messages : delivered[n] > 0 => delivered'[n] > 0
  PROVE  RowsOK' /\ Stands
<1>1. \A n \in Messages : Delivered(n) => Delivered(n)'
  BY DEF Delivered
<1>2. RowsOK'
  BY <1>1 DEF RowsOK, RowOK
<1> QED BY <1>2 DEF Stands, Follows

\* One worker moves, or none; the customer's resends and the deliveries only grow.
LEMMA MailerMoves ==
  ASSUME MailersOK, NEW w \in Workers, NEW x, worker' = [worker EXCEPT ![w] = x],
         \A n \in Messages : delivered[n] > 0 => delivered'[n] > 0,
         resends' = resends,
         MailerOK(x, resends, delivered')
  PROVE  MailersOK'
<1>1. /\ worker' = [v \in Workers |-> worker'[v]]
      /\ \A v \in Workers : worker'[v] = worker[v] \/ worker'[v] = x
  BY DEF MailersOK
<1>2. \A v \in Workers : MailerOK(worker[v], resends, delivered')
  BY DEF MailersOK, MailerOK
<1>3. \A v \in Workers : MailerOK(worker'[v], resends', delivered')
  BY <1>1, <1>2
<1> QED BY <1>1, <1>3 DEF MailersOK

\* A step that touches one row and neither workers nor deliveries keeps the invariant.
LEMMA RowStep ==
  ASSUME OutboxInv, NEW m \in Messages, NEW r, row' = [row EXCEPT ![m] = r],
         worker' = worker, resends' = resends,
         UNCHANGED <<transport, kept, delivered, forgot>>,
         unsure' = unsure \/ unsure' = [unsure EXCEPT ![m] = TRUE],
         recipient' \in [Messages -> {"yes", "no", "later"}],
         RowOK(r, resends[m]), r.status = "sent" => Delivered(m), Follows(row[m], r)
  PROVE  OutboxInv' /\ Stands
<1>1. RowsOK' /\ Stands
  BY RowMoves DEF OutboxInv, RowsOK
<1>2. MailersOK'
  BY DEF OutboxInv, MailersOK
<1>3. KeysOK'
  BY DEF OutboxInv, KeysOK, PostTypes
<1> QED BY <1>1, <1>2, <1>3 DEF OutboxInv

LEMMA Recipients ==
  ASSUME OutboxInv, NEW m \in Messages, NEW fit \in {"yes", "no", "later"}
  PROVE  [recipient EXCEPT ![m] = fit] \in [Messages -> {"yes", "no", "later"}]
BY DEF OutboxInv

\* The row of m, with its limits.
LEMMA RowFacts ==
  ASSUME OutboxInv, NEW m \in Messages
  PROVE  /\ row[m] \in Row /\ RowOK(row[m], resends[m])
         /\ row[m].status = "sent" => Delivered(m)
         /\ row[m].sent \in Nat /\ resends[m] \in Nat
         /\ NoRow \in Row /\ 0 \in 0..MaxAttempts /\ 0 \in Keys
<1>1. 0 \in 0..MaxAttempts /\ 0 \in Keys
  BY OutboxSets DEF Keys
<1>2. NoRow \in Row
  BY <1>1 DEF NoRow, Row
<1> QED BY <1>1, <1>2, Types DEF OutboxInv, RowsOK

LEMMA QueueKeeps ==
  ASSUME OutboxInv, NEW m \in Messages, Queue(m) PROVE OutboxInv' /\ Stands
<1>1. PICK kind \in {"notice", "challenge"} :
        row' = [row EXCEPT ![m] = Requeued([NoRow EXCEPT !.kind = kind])]
  BY DEF Queue
<1>2. PICK r : r = Requeued([NoRow EXCEPT !.kind = kind])
  OBVIOUS
<1>3. /\ r \in Row /\ r.sent = 0 /\ r.status = "queued"
      /\ resends[m] \in Nat
  BY <1>2, RowFacts DEF Requeued, NoRow, Row
<1>4. RowOK(r, resends[m])
  BY <1>3 DEF RowOK
<1>5. Follows(row[m], r)
  BY <1>3 DEF Queue, Follows
<1> QED BY <1>1, <1>2, <1>3, <1>4, <1>5, RowStep DEF Queue, OutboxInv, post

LEMMA ResendKeeps ==
  ASSUME OutboxInv, NEW m \in Messages, Resend(m) PROVE OutboxInv' /\ Stands
<1>1. PICK r : r = Requeued(row[m])
  OBVIOUS
<1>2. /\ row' = [row EXCEPT ![m] = r]
      /\ resends' = [resends EXCEPT ![m] = @ + 1] /\ resends[m] < MaxResends
      /\ worker' = worker /\ UNCHANGED post /\ recipient' = recipient
      /\ row[m].status \in {"sent", "queued", "sending"}
      /\ row[m].kind # "notice"
  BY <1>1 DEF Resend, Resendable, Stalled, Notice
<1>3. /\ row[m] \in Row /\ RowOK(row[m], resends[m]) /\ resends[m] \in Nat
      /\ row[m].sent \in Nat /\ MaxResends \in Nat /\ 0 \in 0..MaxAttempts
  BY RowFacts, OutboxSets
<1>4. r \in Row /\ r.sent = row[m].sent /\ r.status = "queued" /\ r.kind = row[m].kind
  BY <1>1, <1>3 DEF Requeued, Row
<1>5. resends' \in [Messages -> 0..MaxResends] /\ resends'[m] = resends[m] + 1
      /\ \A n \in Messages : n # m => resends'[n] = resends[n]
  BY <1>2, <1>3 DEF OutboxInv, RowsOK
<1>6. RowOK(r, resends'[m])
  BY <1>3, <1>4, <1>5 DEF RowOK
<1>7. Follows(row[m], r)
  BY <1>2, <1>4 DEF Follows
<1>8. RowsOK' /\ Stands
  BY <1>2, <1>4, <1>5, <1>6, <1>7, RowMoves DEF OutboxInv, post
<1>9. \A n \in Messages : resends[n] <= resends'[n] /\ resends[n] \in Nat /\ resends'[n] \in Nat
  BY <1>3, <1>5, Types
<1>10. MailersOK'
  <2>1. \A w \in Workers : worker[w].key \in Nat
    <3>1. \A w \in Workers : worker[w].key \in Keys
      BY DEF OutboxInv, MailersOK, MailerOK, WorkerState
    <3> QED BY <3>1, OutboxSets DEF Keys
  <2>2. \A w \in Workers : MailerOK(worker[w], resends', delivered)
    BY <1>9, <2>1 DEF OutboxInv, MailersOK, MailerOK
  <2> QED BY <1>2, <2>2 DEF OutboxInv, MailersOK, post
<1>11. KeysOK'
  <2>1. \A n \in Messages : \A k \in kept[n] : k \in Nat /\ k <= resends[n]
    <3>1. \A n \in Messages : \A k \in kept[n] : k \in Keys /\ k <= resends[n]
      BY DEF OutboxInv, KeysOK, PostTypes
    <3> QED BY <3>1, OutboxSets DEF Keys
  <2>2. \A n \in Messages : \A k \in kept[n] : k <= resends'[n]
    BY <1>9, <2>1
  <2> QED BY <1>2, <2>2 DEF OutboxInv, KeysOK, PostTypes, post
<1> QED BY <1>2, <1>8, <1>10, <1>11 DEF OutboxInv

\* Rows whose status and sent_at stay, and a kind never changes.
LEMMA SameStatus ==
  ASSUME OutboxInv, NEW m \in Messages, NEW r \in Row,
         r.kind = row[m].kind, r.sent = row[m].sent,
         r.status = row[m].status
  PROVE  RowOK(r, resends[m]) /\ Follows(row[m], r) /\ (r.status = "sent" => Delivered(m))
<1>1. RowOK(row[m], resends[m]) /\ (row[m].status = "sent" => Delivered(m))
  BY RowFacts
<1>2. RowOK(r, resends[m]) /\ (r.status = "sent" => Delivered(m))
  BY <1>1 DEF RowOK
<1> QED BY <1>2 DEF Follows

\* A row that comes to rest, undelivered, keeps its sent_at.
LEMMA AtRest ==
  ASSUME OutboxInv, NEW m \in Messages, NEW r \in Row,
         r.kind = row[m].kind, r.sent = row[m].sent, r.status \in {"dead", "gone"},
         r.status = "dead" => row[m].status # "gone" /\ (row[m].status = "sent" => row[m].kind # "notice")
  PROVE  RowOK(r, resends[m]) /\ Follows(row[m], r) /\ r.status # "sent"
<1>1. RowOK(row[m], resends[m])
  BY RowFacts
<1>2. RowOK(r, resends[m])
  BY <1>1 DEF RowOK
<1> QED BY <1>2 DEF Follows

LEMMA ConfirmKeeps ==
  ASSUME OutboxInv, NEW m \in Messages, Confirm(m) PROVE OutboxInv' /\ Stands
<1>1. PICK r : r = [row[m] EXCEPT !.used = TRUE]
  OBVIOUS
<1>2. r \in Row /\ r.kind = row[m].kind /\ r.sent = row[m].sent /\ r.status = row[m].status
  BY <1>1, RowFacts DEF Row
<1>3. row' = [row EXCEPT ![m] = r]
  BY <1>1 DEF Confirm
<1> QED BY <1>2, <1>3, SameStatus, RowStep, Recipients DEF Confirm, post

LEMMA RetireKeeps ==
  ASSUME OutboxInv, NEW m \in Messages, Retire(m) PROVE OutboxInv' /\ Stands
<1>1. PICK r : r = [row[m] EXCEPT !.used = TRUE, !.status = "dead"]
  OBVIOUS
<1>2. r \in Row /\ r.kind = row[m].kind /\ r.sent = row[m].sent /\ r.status = "dead"
  BY <1>1, RowFacts DEF Row
<1>3. row' = [row EXCEPT ![m] = r]
  BY <1>1 DEF Retire
<1>4. row[m].status # "gone" /\ row[m].kind # "notice"
  BY DEF Retire, Exists, Notice
<1> QED BY <1>2, <1>3, <1>4, AtRest, RowStep DEF Retire, OutboxInv, post

LEMMA RequeueKeeps ==
  ASSUME OutboxInv, NEW m \in Messages, Requeue(m) PROVE OutboxInv' /\ Stands
<1>1. PICK r : r = [Requeued(row[m]) EXCEPT !.expired = FALSE]
  OBVIOUS
<1>2. row' = [row EXCEPT ![m] = r]
  BY <1>1 DEF Requeue
<1>3. row[m].kind = "notice" /\ row[m].status = "dead" /\ row[m].sent = 0
  BY DEF Requeue, Notice
<1>4. r \in Row /\ r.sent = 0 /\ r.status = "queued" /\ resends[m] \in Nat
  BY <1>1, <1>3, RowFacts DEF Requeued, Row
<1>5. RowOK(r, resends[m]) /\ Follows(row[m], r)
  BY <1>3, <1>4 DEF RowOK, Follows
<1> QED BY <1>2, <1>4, <1>5, RowStep DEF Requeue, OutboxInv, post

LEMMA AccountChangesKeeps ==
  ASSUME OutboxInv, NEW m \in Messages, AccountChanges(m) PROVE OutboxInv' /\ Stands
<1>1. PICK fit \in {"yes", "no", "later"} : recipient' = [recipient EXCEPT ![m] = fit]
  BY DEF AccountChanges
<1>2. RowsOK' /\ Stands
  BY RowsStay DEF AccountChanges, OutboxInv, post
<1>3. MailersOK' /\ KeysOK'
  BY DEF AccountChanges, OutboxInv, MailersOK, KeysOK, PostTypes, post
<1> QED BY <1>1, <1>2, <1>3, Recipients DEF OutboxInv

LEMMA RemoveKeeps ==
  ASSUME OutboxInv, NEW m \in Messages, Remove(m) PROVE OutboxInv' /\ Stands
<1>1. PICK r : r = [row[m] EXCEPT !.status = "gone", !.leased = FALSE]
  OBVIOUS
<1>2. r \in Row /\ r.kind = row[m].kind /\ r.sent = row[m].sent /\ r.status = "gone"
  BY <1>1, RowFacts DEF Row
<1>3. row' = [row EXCEPT ![m] = r]
  BY <1>1 DEF Remove
<1> QED BY <1>2, <1>3, AtRest, RowStep, Recipients DEF Remove, post

\* Time changes neither the status of a row nor its sent_at.
LEMMA TimeKeeps ==
  ASSUME OutboxInv, NEW m \in Messages,
         LeaseRunsOut(m) \/ BecomesDue(m) \/ TenMinutesPass(m) \/ Expires(m)
  PROVE  OutboxInv' /\ Stands
<1>1. PICK r : /\ row' = [row EXCEPT ![m] = r]
               /\ r \in {[row[m] EXCEPT !.leased = FALSE], [row[m] EXCEPT !.due = TRUE],
                         [row[m] EXCEPT !.old = TRUE], [row[m] EXCEPT !.expired = TRUE]}
  BY DEF LeaseRunsOut, BecomesDue, TenMinutesPass, Expires
<1>2. r \in Row /\ r.kind = row[m].kind /\ r.sent = row[m].sent /\ r.status = row[m].status
  BY <1>1, RowFacts DEF Row
<1>3. /\ worker' = worker /\ resends' = resends /\ recipient' = recipient
      /\ UNCHANGED <<transport, kept, delivered, forgot>>
      /\ unsure' = unsure \/ unsure' = [unsure EXCEPT ![m] = TRUE]
  BY DEF LeaseRunsOut, BecomesDue, TenMinutesPass, Expires, post
<1> QED BY <1>1, <1>2, <1>3, SameStatus, RowStep DEF OutboxInv

------------------------------------------------------------------------------
(* The workers.                                                             *)

\* A row that is being sent or queued, and stays so.
LEMMA StaysLive ==
  ASSUME OutboxInv, NEW m \in Messages, NEW r \in Row,
         row[m].status \in {"queued", "sending"}, r.status \in {"queued", "sending", "dead"},
         r.kind = row[m].kind, r.sent = row[m].sent
  PROVE  RowOK(r, resends[m]) /\ Follows(row[m], r) /\ (r.status = "sent" => Delivered(m))
<1>1. RowOK(row[m], resends[m])
  BY RowFacts
<1>2. RowOK(r, resends[m])
  BY <1>1 DEF RowOK
<1> QED BY <1>2 DEF Follows

\* A worker's step that changes the row m to r, and the worker to x.
LEMMA WorkStep ==
  ASSUME OutboxInv, NEW w \in Workers, NEW x, worker' = [worker EXCEPT ![w] = x],
         MailerOK(x, resends, delivered),
         UNCHANGED post, resends' = resends, recipient' = recipient,
         \/ row' = row
         \/ \E m \in Messages : \E r \in Row :
               /\ row' = [row EXCEPT ![m] = r]
               /\ RowOK(r, resends[m]) /\ (r.status = "sent" => Delivered(m)) /\ Follows(row[m], r)
  PROVE  OutboxInv' /\ Stands
<1>1. MailersOK'
  BY MailerMoves DEF OutboxInv, post
<1>2. KeysOK'
  BY DEF OutboxInv, KeysOK, PostTypes, post
<1>3. RowsOK' /\ Stands
  <2>1. CASE row' = row
    BY <2>1, RowsStay DEF OutboxInv, post
  <2>2. ASSUME NEW m \in Messages, NEW r \in Row,
               row' = [row EXCEPT ![m] = r], RowOK(r, resends[m]),
               r.status = "sent" => Delivered(m), Follows(row[m], r)
        PROVE  RowsOK' /\ Stands
    BY <2>2, RowMoves DEF OutboxInv, RowsOK, post
  <2> QED BY <2>1, <2>2
<1> QED BY <1>1, <1>2, <1>3 DEF OutboxInv

LEMMA WorkerFacts ==
  ASSUME OutboxInv, NEW w \in Workers
  PROVE  /\ worker[w] \in WorkerState /\ MailerOK(worker[w], resends, delivered)
         /\ worker[w].pc # "idle" => worker[w].msg \in Messages
         /\ Idle \in WorkerState /\ MailerOK(Idle, resends, delivered)
<1>1. Idle \in WorkerState
  BY OutboxSets DEF Idle, WorkerState, Keys
<1>2. MailerOK(Idle, resends, delivered)
  BY <1>1 DEF MailerOK, Idle
<1> QED BY <1>1, <1>2 DEF OutboxInv, MailersOK, MailerOK

LEMMA ClaimKeeps ==
  ASSUME OutboxInv, NEW w \in Workers, NEW m \in Messages, Claim(w, m)
  PROVE  OutboxInv' /\ Stands
<1>1. PICK r, x :
        /\ r = [row[m] EXCEPT !.status = "sending", !.attempts = @ + 1, !.leased = TRUE]
        /\ x = [pc |-> "claimed", msg |-> m, attempts |-> row[m].attempts + 1, key |-> 0]
  OBVIOUS
<1>2. /\ row' = [row EXCEPT ![m] = r] /\ worker' = [worker EXCEPT ![w] = x]
      /\ row[m].status \in {"queued", "sending"} /\ row[m].attempts < MaxAttempts
  BY <1>1 DEF Claim, Claimable
<1>3. row[m].attempts + 1 \in 0..MaxAttempts
  <2>1. row[m].attempts \in 0..MaxAttempts
    BY RowFacts DEF Row
  <2> QED BY <1>2, <2>1, OutboxSets
<1>4. r \in Row /\ r.kind = row[m].kind /\ r.sent = row[m].sent /\ r.status = "sending"
  BY <1>1, <1>3, RowFacts DEF Row
<1>5. MailerOK(x, resends, delivered)
  BY <1>1, <1>3, RowFacts DEF MailerOK, WorkerState
<1> QED BY <1>2, <1>4, <1>5, StaysLive, WorkStep DEF Claim

\* A row that its worker gives up, or hands back.
LEMMA PrepareKeeps ==
  ASSUME OutboxInv, NEW w \in Workers, Prepare(w) PROVE OutboxInv' /\ Stands
<1>1. PICK m, x : m = worker[w].msg /\ x = [worker[w] EXCEPT !.pc = "sending", !.key = row[m].sent]
  OBVIOUS
<1>2. /\ worker[w].pc = "claimed" /\ m \in Messages /\ worker[w] \in WorkerState
      /\ row[m] \in Row /\ row[m].sent \in Nat /\ resends[m] \in Nat /\ row[m].sent \in Keys
  <2>1. worker[w].pc = "claimed" /\ m \in Messages /\ worker[w] \in WorkerState
    BY <1>1, WorkerFacts DEF Prepare
  <2>2. row[m] \in Row /\ row[m].sent \in Nat /\ resends[m] \in Nat
    BY <2>1, RowFacts
  <2> QED BY <2>1, <2>2 DEF Row
<1>3. UNCHANGED post /\ resends' = resends /\ recipient' = recipient
  BY DEF Prepare
<1>4. CASE Rests(w) /\ row' = row
  BY <1>3, <1>4, WorkerFacts, WorkStep DEF Rests
<1>5. CASE /\ StillMine(w) /\ row' = row
           /\ worker' = [worker EXCEPT ![w].pc = "sending", ![w].key = row[m].sent]
  <2>1. worker' = [worker EXCEPT ![w] = x]
    BY <1>1, <1>5
  <2>2. row[m].sent <= resends[m]
    BY <1>1, <1>2, <1>5, RowFacts DEF StillMine, RowOK
  <2>3. x \in WorkerState /\ x.pc = "sending" /\ x.msg = m /\ x.key = row[m].sent
    BY <1>1, <1>2 DEF WorkerState
  <2>4. MailerOK(x, resends, delivered)
    BY <1>2, <2>2, <2>3 DEF MailerOK
  <2> QED BY <1>3, <1>5, <2>1, <2>4, WorkStep
<1>6. CASE /\ StillMine(w) /\ Rests(w)
           /\ row' = [row EXCEPT ![m].status = "dead", ![m].leased = FALSE,
                        ![m].used = @ \/ ~(Live(m) /\ recipient[m] = "later")]
  <2>1. PICK r : r = [row[m] EXCEPT !.status = "dead", !.leased = FALSE,
                        !.used = @ \/ ~(Live(m) /\ recipient[m] = "later")]
    OBVIOUS
  <2>2. row' = [row EXCEPT ![m] = r]
    BY <1>2, <1>6, <2>1
  <2>3. (row[m].used \/ ~(Live(m) /\ recipient[m] = "later")) \in BOOLEAN
    OBVIOUS
  <2>4. r \in Row /\ r.kind = row[m].kind /\ r.sent = row[m].sent /\ r.status = "dead"
    BY <1>2, <2>1, <2>3 DEF Row
  <2>5. row[m].status = "sending"
    BY <1>1, <1>6 DEF StillMine
  <2> QED BY <1>2, <1>3, <1>6, <2>2, <2>4, <2>5, StaysLive, WorkerFacts, WorkStep DEF Rests
<1> QED BY <1>1, <1>4, <1>5, <1>6 DEF Prepare

\* A worker whose step fails has its message still, and nothing else.
LEMMA FailedIsOK ==
  ASSUME OutboxInv, NEW w \in Workers, worker[w].pc # "idle",
         NEW x \in WorkerState, x.pc \in {"failed", "retry"}, x.msg = worker[w].msg
  PROVE  MailerOK(x, resends, delivered)
BY WorkerFacts DEF MailerOK

LEMMA PrepareFailsKeeps ==
  ASSUME OutboxInv, NEW w \in Workers, PrepareFails(w) PROVE OutboxInv' /\ Stands
<1>1. PICK x : x = [worker[w] EXCEPT !.pc = "failed"]
  OBVIOUS
<1>2. worker' = [worker EXCEPT ![w] = x] /\ worker[w].pc # "idle"
  BY <1>1 DEF PrepareFails, Step
<1>3. x \in WorkerState /\ x.pc = "failed" /\ x.msg = worker[w].msg
  BY <1>1, WorkerFacts DEF WorkerState
<1>4. MailerOK(x, resends, delivered)
  BY <1>2, <1>3, FailedIsOK
<1> QED BY <1>2, <1>4, WorkStep DEF PrepareFails

\* Keys are numbers, and a message has finitely many of them, one for each sent_at.
LEMMA KeptIsFinite ==
  ASSUME OutboxInv, NEW m \in Messages
  PROVE  /\ IsFiniteSet(kept[m]) /\ Cardinality(kept[m]) \in Nat
         /\ Cardinality(kept[m]) <= 1 + resends[m]
         /\ delivered[m] \in Nat /\ forgot[m] \in Nat /\ resends[m] \in Nat
<1>1. /\ kept[m] \in SUBSET Keys /\ \A k \in kept[m] : k <= resends[m]
      /\ delivered[m] \in 0..MaxDelivered /\ forgot[m] \in 0..MaxForgets
  BY DEF OutboxInv, KeysOK, PostTypes
<1>2. delivered[m] \in Nat /\ forgot[m] \in Nat /\ resends[m] \in Nat
  BY <1>1, RowFacts, OutboxSets
<1>3. kept[m] \in SUBSET (0..resends[m])
  <2>1. \A k \in Keys : k \in Int /\ 0 <= k
    BY OutboxSets DEF Keys
  <2>2. \A k \in kept[m] : k \in 0..resends[m]
    BY <1>1, <1>2, <2>1
  <2> QED BY <2>2
<1>4. IsFiniteSet(0..resends[m]) /\ Cardinality(0..resends[m]) = 1 + resends[m]
  <2>1. PICK n : n = resends[m]
    OBVIOUS
  <2>2. n \in Nat
    BY <1>2, <2>1
  <2>3. IsFiniteSet(0..n) /\ Cardinality(0..n) = n - 0 + 1
    BY <2>2, FS_Interval
  <2> QED BY <2>1, <2>2, <2>3
<1>5. IsFiniteSet(kept[m]) /\ Cardinality(kept[m]) <= 1 + resends[m]
  BY <1>3, <1>4, FS_Subset
<1> QED BY <1>2, <1>5, FS_CardinalityType

\* The transport takes message m under a key that was m's sent_at.
LEMMA TakesKeeps ==
  ASSUME OutboxInv, NEW m \in Messages, NEW k \in Keys, k <= resends[m], Takes(m, k),
         resends' = resends, unsure' \in [Messages -> BOOLEAN]
  PROVE  /\ KeysOK'
         /\ \A n \in Messages : delivered[n] > 0 => delivered'[n] > 0
         /\ delivered'[m] > 0
<1>1. transport' = transport /\ forgot' = forgot
  BY DEF Takes
<1>2. KeysOK
  BY DEF OutboxInv
<1>3. CASE k \in kept[m] /\ UNCHANGED <<kept, delivered>>
  BY <1>1, <1>2, <1>3 DEF KeysOK, PostTypes
<1>4. ASSUME k \notin kept[m], delivered[m] < MaxDelivered,
             delivered' = [delivered EXCEPT ![m] = @ + 1],
             kept' = IF transport = "resend" THEN [kept EXCEPT ![m] = @ \cup {k}] ELSE kept
      PROVE  /\ KeysOK'
             /\ \A n \in Messages : delivered[n] > 0 => delivered'[n] > 0
             /\ delivered'[m] > 0
  <2>1. /\ delivered[m] \in Nat /\ forgot[m] \in Nat
        /\ delivered \in [Messages -> 0..MaxDelivered] /\ MaxDelivered \in Nat
        /\ kept \in [Messages -> SUBSET Keys]
    BY <1>2, KeptIsFinite, OutboxSets DEF KeysOK, PostTypes
  <2>2. /\ delivered' \in [Messages -> 0..MaxDelivered]
        /\ delivered'[m] = delivered[m] + 1
        /\ \A n \in Messages : n # m => delivered'[n] = delivered[n]
    BY <1>4, <2>1
  <2>3. /\ kept' \in [Messages -> SUBSET Keys]
        /\ kept'[m] = IF transport = "resend" THEN kept[m] \cup {k} ELSE kept[m]
        /\ \A n \in Messages : n # m => kept'[n] = kept[n]
    BY <1>4, <2>1
  <2>4. transport = "resend" => Cardinality(kept'[m]) = Cardinality(kept[m]) + 1
    BY <1>4, <2>3, KeptIsFinite, FS_AddElement
  <2>5. transport = "resend" => delivered'[m] <= Cardinality(kept'[m]) + forgot'[m]
    BY <1>1, <1>2, <2>1, <2>2, <2>4, KeptIsFinite DEF KeysOK
  <2>6. \A j \in kept'[m] : j <= resends'[m]
    BY <1>2, <2>3 DEF KeysOK
  <2>7. delivered'[m] > 0
    BY <2>1, <2>2
  <2>8. PostTypes'
    BY <1>1, <1>2, <2>2, <2>3 DEF KeysOK, PostTypes
  <2>9. KeysOK'
    BY <1>1, <1>2, <2>2, <2>3, <2>5, <2>6, <2>7, <2>8 DEF KeysOK
  <2> QED BY <2>2, <2>7, <2>9
<1>5. k \in kept[m] => delivered[m] > 0
  BY <1>2 DEF KeysOK
<1> QED BY <1>3, <1>4, <1>5 DEF Takes

LEMMA SendKeeps ==
  ASSUME OutboxInv, NEW w \in Workers, Send(w) PROVE OutboxInv' /\ Stands
<1>1. PICK m, k : m = worker[w].msg /\ k = worker[w].key
  OBVIOUS
<1>2. /\ worker[w].pc = "sending" /\ m \in Messages /\ worker[w] \in WorkerState
      /\ k \in Keys /\ k <= resends[m]
  BY <1>1, WorkerFacts DEF Send, MailerOK, WorkerState
<1>3. row' = row /\ recipient' = recipient /\ resends' = resends
  BY DEF Send
<1>4. CASE Step(w, "failed") /\ UNCHANGED post
  <2>1. PICK x : x = [worker[w] EXCEPT !.pc = "failed"]
    OBVIOUS
  <2>2. worker' = [worker EXCEPT ![w] = x]
    BY <1>4, <2>1 DEF Step
  <2>3. x \in WorkerState /\ x.pc = "failed" /\ x.msg = worker[w].msg
    BY <1>2, <2>1 DEF WorkerState
  <2>4. MailerOK(x, resends, delivered)
    BY <1>2, <2>3, FailedIsOK
  <2> QED BY <1>3, <1>4, <2>2, <2>4, WorkStep
<1>5. CASE /\ Takes(m, k)
           /\ \/ Step(w, "sent") /\ UNCHANGED unsure
              \/ Step(w, "failed") /\ unsure' = [unsure EXCEPT ![m] = TRUE]
  <2>1. unsure' \in [Messages -> BOOLEAN]
    BY <1>2, <1>5 DEF OutboxInv, KeysOK, PostTypes
  <2>2. /\ KeysOK' /\ delivered'[m] > 0
        /\ \A n \in Messages : delivered[n] > 0 => delivered'[n] > 0
    BY <1>2, <1>3, <1>5, <2>1, TakesKeeps
  <2>3. PICK x : /\ worker' = [worker EXCEPT ![w] = x]
                 /\ \/ x = [worker[w] EXCEPT !.pc = "failed"]
                    \/ x = [worker[w] EXCEPT !.pc = "sent"]
    BY <1>5 DEF Step
  <2>4. /\ x \in WorkerState /\ x.msg = m /\ x.key = k
        /\ x.pc \in {"failed", "sent"}
    BY <1>1, <1>2, <2>3 DEF WorkerState
  <2>5. MailerOK(x, resends, delivered')
    BY <1>2, <2>2, <2>4 DEF MailerOK
  <2>6. RowsOK' /\ Stands
    BY <1>3, <2>2, RowsStay DEF OutboxInv
  <2>7. MailersOK'
    BY <1>3, <2>2, <2>3, <2>5, MailerMoves DEF OutboxInv
  <2> QED BY <1>3, <2>2, <2>6, <2>7 DEF OutboxInv
<1> QED BY <1>1, <1>4, <1>5 DEF Send

\* What Resend forgets, it counts.
LEMMA ForgetsKeeps ==
  ASSUME OutboxInv, NEW m \in Messages, Forgets(m) PROVE OutboxInv' /\ Stands
<1>1. PICK k \in kept[m] : kept' = [kept EXCEPT ![m] = @ \ {k}]
  BY DEF Forgets
<1>2. /\ forgot' = [forgot EXCEPT ![m] = @ + 1] /\ forgot[m] < MaxForgets
      /\ row' = row /\ worker' = worker /\ recipient' = recipient /\ resends' = resends
      /\ transport' = transport /\ delivered' = delivered /\ unsure' = unsure
  BY DEF Forgets
<1>3. KeysOK /\ MaxForgets \in Nat
  BY OutboxSets DEF OutboxInv
<1>4. /\ kept' \in [Messages -> SUBSET Keys]
      /\ kept'[m] = kept[m] \ {k}
      /\ \A n \in Messages : n # m => kept'[n] = kept[n]
  BY <1>1, <1>3 DEF KeysOK, PostTypes
<1>5. /\ forgot' \in [Messages -> 0..MaxForgets] /\ forgot'[m] = forgot[m] + 1
      /\ \A n \in Messages : n # m => forgot'[n] = forgot[n]
  BY <1>2, <1>3 DEF KeysOK, PostTypes
<1>6. Cardinality(kept'[m]) = Cardinality(kept[m]) - 1
  BY <1>1, <1>4, KeptIsFinite, FS_RemoveElement
<1>7. transport = "resend" => delivered'[m] <= Cardinality(kept'[m]) + forgot'[m]
  BY <1>2, <1>3, <1>5, <1>6, KeptIsFinite DEF KeysOK
<1>8. PostTypes'
  BY <1>2, <1>3, <1>4, <1>5 DEF KeysOK, PostTypes
<1>9. KeysOK'
  BY <1>1, <1>2, <1>3, <1>4, <1>5, <1>7, <1>8 DEF KeysOK
<1>10. RowsOK' /\ Stands
  BY <1>2, RowsStay DEF OutboxInv
<1>11. MailersOK'
  BY <1>2 DEF OutboxInv, MailersOK
<1> QED BY <1>2, <1>9, <1>10, <1>11 DEF OutboxInv

\* Whoever finishes, the message it marks sent was delivered; sent_at counts one more.
LEMMA FinishKeeps ==
  ASSUME OutboxInv, NEW w \in Workers, Finish(w) PROVE OutboxInv' /\ Stands
<1>1. PICK m : m = worker[w].msg
  OBVIOUS
<1>2. /\ worker[w].pc = "sent" /\ m \in Messages /\ Delivered(m)
      /\ row[m] \in Row /\ RowOK(row[m], resends[m]) /\ row[m].sent \in Nat
      /\ resends[m] \in Nat /\ resends[m] <= MaxResends
  <2>1. worker[w].pc = "sent" /\ m \in Messages
    BY <1>1, WorkerFacts DEF Finish
  <2>2. Delivered(m)
    BY <1>1, <2>1, WorkerFacts DEF Delivered, MailerOK, WorkerState
  <2> QED BY <2>1, <2>2, RowFacts, Types
<1>3. /\ UNCHANGED post /\ resends' = resends /\ recipient' = recipient
      /\ worker' = [worker EXCEPT ![w] = Idle]
  BY DEF Finish, Rests
<1>4. CASE row[m].status # "sending"
  <2>1. row' = row
    BY <1>1, <1>4 DEF Finish
  <2> QED BY <1>3, <2>1, WorkerFacts, WorkStep
<1>5. CASE row[m].status = "sending"
  <2>1. PICK r : r = [row[m] EXCEPT !.status = "sent", !.sent = @ + 1, !.old = FALSE, !.leased = FALSE]
    OBVIOUS
  <2>2. row' = [row EXCEPT ![m] = r]
    BY <1>1, <1>5, <2>1 DEF Finish
  <2>3. row[m].sent <= resends[m]
    BY <1>2, <1>5 DEF RowOK
  <2>4. row[m].sent + 1 \in Keys
    BY <1>2, <2>3, OutboxSets DEF Keys
  <2>5. r \in Row /\ r.status = "sent" /\ r.sent = row[m].sent + 1
    BY <1>2, <2>1, <2>4 DEF Row
  <2>6. RowOK(r, resends[m])
    BY <1>2, <2>3, <2>5 DEF RowOK
  <2>7. Follows(row[m], r)
    BY <1>5 DEF Follows
  <2> QED BY <1>2, <1>3, <2>2, <2>5, <2>6, <2>7, WorkerFacts, WorkStep
<1> QED BY <1>4, <1>5

LEMMA ReadAttemptsKeeps ==
  ASSUME OutboxInv, NEW w \in Workers, ReadAttempts(w) PROVE OutboxInv' /\ Stands
<1>1. PICK m, x : m = worker[w].msg /\ x = [worker[w] EXCEPT !.pc = "retry", !.attempts = row[m].attempts]
  OBVIOUS
<1>2. worker[w].pc = "failed" /\ m \in Messages /\ row[m].attempts \in 0..MaxAttempts
  BY <1>1, WorkerFacts, Types DEF ReadAttempts
<1>3. \/ worker' = [worker EXCEPT ![w] = x]
      \/ worker' = [worker EXCEPT ![w] = Idle]
  BY <1>1 DEF ReadAttempts, Rests
<1>4. x \in WorkerState /\ x.pc = "retry" /\ x.msg = m
  BY <1>1, <1>2, WorkerFacts DEF WorkerState
<1>5. MailerOK(x, resends, delivered)
  BY <1>1, <1>2, <1>4, FailedIsOK
<1> QED BY <1>3, <1>5, WorkerFacts, WorkStep DEF ReadAttempts

LEMMA WriteRetryKeeps ==
  ASSUME OutboxInv, NEW w \in Workers, WriteRetry(w) PROVE OutboxInv' /\ Stands
<1>1. PICK m, st : m = worker[w].msg /\ st = IF worker[w].attempts >= MaxAttempts THEN "dead" ELSE "queued"
  OBVIOUS
<1>2. m \in Messages /\ row[m] \in Row
  BY <1>1, WorkerFacts, RowFacts DEF WriteRetry
<1>3. /\ UNCHANGED post /\ resends' = resends /\ recipient' = recipient
      /\ worker' = [worker EXCEPT ![w] = Idle]
  BY DEF WriteRetry, Rests
<1>4. CASE row[m].status # "sending"
  <2>1. row' = row
    BY <1>1, <1>4 DEF WriteRetry
  <2> QED BY <1>3, <2>1, WorkerFacts, WorkStep
<1>5. CASE row[m].status = "sending"
  <2>1. PICK r : r = [row[m] EXCEPT !.status = st, !.due = FALSE, !.leased = FALSE]
    OBVIOUS
  <2>2. row' = [row EXCEPT ![m] = r]
    BY <1>1, <1>5, <2>1 DEF WriteRetry
  <2>3. st \in {"dead", "queued"}
    BY <1>1
  <2>4. r \in Row /\ r.kind = row[m].kind /\ r.sent = row[m].sent /\ r.status = st
    BY <1>2, <2>1, <2>3 DEF Row
  <2> QED BY <1>2, <1>3, <1>5, <2>2, <2>3, <2>4, StaysLive, WorkerFacts, WorkStep
<1> QED BY <1>4, <1>5

LEMMA CrashKeeps ==
  ASSUME OutboxInv, NEW w \in Workers, Crash(w) PROVE OutboxInv' /\ Stands
BY WorkerFacts, WorkStep DEF Crash, Rests

LEMMA OutboxInit == Init => OutboxInv
<1> SUFFICES ASSUME Init PROVE OutboxInv
  OBVIOUS
<1>1. 0 \in 0..MaxAttempts /\ 0 \in Keys /\ 0 \in 0..MaxResends
  BY OutboxSets DEF Keys
<1>2. NoRow \in Row /\ NoRow.sent = 0 /\ NoRow.status = "none"
  BY <1>1 DEF NoRow, Row
<1>3. RowOK(NoRow, 0)
  BY <1>2 DEF RowOK
<1>4. RowsOK
  BY <1>1, <1>2, <1>3 DEF Init, RowsOK
<1>5. MailersOK
  BY <1>1 DEF Init, MailersOK, MailerOK, Idle, WorkerState
<1>6. KeysOK
  BY OutboxSets, FS_EmptySet DEF Init, KeysOK, PostTypes
<1> QED BY <1>4, <1>5, <1>6 DEF Init, OutboxInv

LEMMA OutboxStep == OutboxInv /\ [Next]_vars => OutboxInv' /\ Stands
<1> SUFFICES ASSUME OutboxInv, [Next]_vars PROVE OutboxInv' /\ Stands
  OBVIOUS
<1>1. ASSUME NEW m \in Messages,
             \/ Queue(m) \/ Resend(m) \/ Confirm(m) \/ Retire(m) \/ Requeue(m)
             \/ AccountChanges(m) \/ Remove(m)
             \/ LeaseRunsOut(m) \/ BecomesDue(m) \/ TenMinutesPass(m) \/ Expires(m) \/ Forgets(m)
             \/ \E w \in Workers : Claim(w, m)
      PROVE  OutboxInv' /\ Stands
  BY <1>1, QueueKeeps, ResendKeeps, ConfirmKeeps, RetireKeeps, RequeueKeeps,
     AccountChangesKeeps, RemoveKeeps, TimeKeeps, ForgetsKeeps, ClaimKeeps
<1>2. ASSUME NEW w \in Workers, Ends(w) \/ Crash(w)
      PROVE  OutboxInv' /\ Stands
  BY <1>2, PrepareKeeps, PrepareFailsKeeps, SendKeeps, FinishKeeps, ReadAttemptsKeeps,
     WriteRetryKeeps, CrashKeeps DEF Ends
<1>3. CASE UNCHANGED vars
  <2>1. RowsOK' /\ Stands
    BY <1>3, RowsStay DEF vars, post, OutboxInv
  <2> QED BY <1>3, <2>1 DEF vars, post, OutboxInv, MailersOK, KeysOK, PostTypes
<1> QED BY <1>1, <1>2, <1>3 DEF Next

LEMMA OutboxInvHolds == Spec => []OutboxInv
  BY OutboxInit, OutboxStep, PTL DEF Spec

------------------------------------------------------------------------------
(* Without a lost reply, and while no lease runs out.                       *)

OnIt(w, m) == worker[w].pc # "idle" /\ worker[w].msg = m

\* A worker that can still deliver m, or put it back to be delivered.
MayDeliver(w, m) ==
    worker[w].msg = m /\ worker[w].pc \in {"claimed", "sending", "failed", "retry"}

\* A row that is going out, or that the owner can let out again.
GoesOut(m) ==
    \/ row[m].status \in {"none", "queued"}
    \/ row[m].status = "dead" /\ Notice(m)

\* As long as nobody was ever unsure about m, one worker at most is on it, and holds the
\* lease unless the row came to rest for good meanwhile; while m can go out again, it
\* was delivered less often than asked.
Sure(m) ==
    /\ \A v, w \in Workers : OnIt(v, m) /\ OnIt(w, m) => v = w
    /\ \A w \in Workers : OnIt(w, m) =>
          \/ row[m].status \in {"sending", "gone"}
          \/ row[m].status = "dead" /\ ~Notice(m)
    /\ row[m].status = "sending" => row[m].leased
    /\ GoesOut(m) \/ (\E w \in Workers : MayDeliver(w, m)) => delivered[m] <= resends[m]
    /\ delivered[m] <= 1 + resends[m]

SureInv == \A m \in Messages : ~unsure[m] => Sure(m)

\* A step on another message.
LEMMA SureElsewhere ==
  ASSUME NEW n \in Messages, Sure(n),
         row'[n] = row[n], delivered'[n] = delivered[n], resends'[n] = resends[n],
         \A w \in Workers : worker'[w] = worker[w] \/ (~OnIt(w, n) /\ ~OnIt(w, n)')
  PROVE  Sure(n)'
<1>1. \A w \in Workers : /\ OnIt(w, n)' <=> OnIt(w, n)
                         /\ MayDeliver(w, n)' <=> MayDeliver(w, n)
  BY DEF OnIt, MayDeliver
<1>2. GoesOut(n)' <=> GoesOut(n)
  BY DEF GoesOut, Notice
<1> QED BY <1>1, <1>2 DEF Sure, Notice

\* What a step does to rows, counters and workers, as far as Sure looks at it.
LEMMA SureTypes ==
  ASSUME OutboxInv
  PROVE  /\ \A m \in Messages : /\ resends[m] \in Nat /\ delivered[m] \in Nat
                                /\ unsure[m] \in BOOLEAN /\ row[m] \in Row
         /\ row = [m \in Messages |-> row[m]]
         /\ worker = [w \in Workers |-> worker[w]]
         /\ delivered = [m \in Messages |-> delivered[m]]
         /\ resends = [m \in Messages |-> resends[m]]
         /\ unsure = [m \in Messages |-> unsure[m]]
<1>1. \A m \in Messages : delivered[m] \in Nat /\ resends[m] \in Nat
  BY KeptIsFinite
<1>2. \A m \in Messages : row[m] \in Row
  BY RowFacts
<1> QED BY <1>1, <1>2 DEF OutboxInv, RowsOK, MailersOK, KeysOK, PostTypes

\* A step about row m alone, no worker moves.
LEMMA SureRow ==
  ASSUME OutboxInv, SureInv, NEW m \in Messages, NEW r,
         row' = [row EXCEPT ![m] = r], worker' = worker,
         delivered' = delivered, resends' = resends, unsure' = unsure,
         r.kind = row[m].kind \/ row[m].status = "none",
         r.status = "sending" => row[m].status = "sending" /\ r.leased = row[m].leased,
         \/ r.status = row[m].status
         \/ r.status = "gone"
         \/ r.status = "dead" /\ r.kind # "notice"
         \/ /\ r.status = "queued"
            /\ row[m].status = "none" \/ (row[m].status = "dead" /\ row[m].kind = "notice")
  PROVE  SureInv'
<1> SUFFICES ASSUME NEW n \in Messages, ~unsure'[n] PROVE Sure(n)'
  BY DEF SureInv
<1>1. Sure(n)
  BY DEF SureInv
<1>2. /\ row'[m] = r /\ \A k \in Messages : k # m => row'[k] = row[k]
  BY SureTypes
<1>3. CASE n # m
  BY <1>1, <1>2, <1>3, SureElsewhere
<1>4. CASE n = m
  <2>1. \A w \in Workers : /\ OnIt(w, m)' <=> OnIt(w, m)
                           /\ MayDeliver(w, m)' <=> MayDeliver(w, m)
    BY DEF OnIt, MayDeliver
  <2>2. GoesOut(m)' => GoesOut(m)
    BY <1>2 DEF GoesOut, Notice
  <2>3. \A w \in Workers : OnIt(w, m) =>
          \/ r.status \in {"sending", "gone"}
          \/ r.status = "dead" /\ r.kind # "notice"
    BY <1>1, <1>4 DEF Sure, Notice
  <2> QED BY <1>1, <1>2, <1>4, <2>1, <2>2, <2>3 DEF Sure, Notice
<1> QED BY <1>3, <1>4

\* A step of worker w on m: the row becomes r, the worker x.
LEMMA SureWork ==
  ASSUME OutboxInv, SureInv, NEW w \in Workers, NEW m \in Messages, NEW x, NEW r,
         OnIt(w, m), worker' = [worker EXCEPT ![w] = x], row' = [row EXCEPT ![m] = r],
         delivered' = delivered, resends' = resends, unsure' = unsure,
         x.pc = "idle" \/ (x.msg = m /\ (MayDeliver(w, m) \/ x.pc = "sent")),
         r.kind = row[m].kind,
         r.status = "sending" => row[m].status = "sending" /\ r.leased = row[m].leased,
         \/ r.status = row[m].status
         \/ x.pc = "idle" /\ r.status = "sent"
         \/ x.pc = "idle" /\ r.status \in {"queued", "dead"} /\ MayDeliver(w, m)
  PROVE  SureInv'
<1> SUFFICES ASSUME NEW n \in Messages, ~unsure'[n] PROVE Sure(n)'
  BY DEF SureInv
<1>1. Sure(n)
  BY DEF SureInv
<1>2. /\ row'[m] = r /\ \A k \in Messages : k # m => row'[k] = row[k]
      /\ worker'[w] = x /\ \A v \in Workers : v # w => worker'[v] = worker[v]
  BY SureTypes
<1>3. CASE n # m
  <2>1. ~OnIt(w, n) /\ ~OnIt(w, n)'
    BY <1>2, <1>3 DEF OnIt
  <2> QED BY <1>1, <1>2, <1>3, <2>1, SureElsewhere
<1>4. CASE n = m
  <2>1. \A v \in Workers : OnIt(v, m) => v = w
    BY <1>1, <1>4 DEF Sure
  <2>2. \A v \in Workers : OnIt(v, m)' => v = w /\ x.pc # "idle"
    BY <1>2, <2>1 DEF OnIt
  <2>3. \A v \in Workers : MayDeliver(v, m)' => MayDeliver(w, m)
    BY <1>2, <2>1 DEF MayDeliver, OnIt
  <2>4. GoesOut(m)' => GoesOut(m) \/ MayDeliver(w, m)
    BY <1>2 DEF GoesOut, Notice
  <2>5. (\E v \in Workers : OnIt(v, m)') =>
          \/ r.status \in {"sending", "gone"}
          \/ r.status = "dead" /\ r.kind # "notice"
    BY <1>1, <1>4, <2>2 DEF Sure, Notice
  <2>6. /\ r.status = "sending" => r.leased
        /\ delivered[m] <= 1 + resends[m]
        /\ GoesOut(m) \/ MayDeliver(w, m) => delivered[m] <= resends[m]
    BY <1>1, <1>4 DEF Sure
  <2> QED BY <1>2, <1>4, <2>2, <2>3, <2>4, <2>5, <2>6 DEF Sure, Notice
<1> QED BY <1>3, <1>4

\* A step that leaves rows, workers and counters alone.
LEMMA SureStays ==
  ASSUME SureInv, row' = row, worker' = worker, delivered' = delivered,
         resends' = resends, unsure' = unsure
  PROVE  SureInv'
BY SureElsewhere DEF SureInv

LEMMA SureCustomer ==
  ASSUME OutboxInv, SureInv, NEW m \in Messages,
         \/ Queue(m) \/ Confirm(m) \/ Retire(m) \/ Requeue(m) \/ Remove(m)
         \/ BecomesDue(m) \/ TenMinutesPass(m) \/ Expires(m)
  PROVE  SureInv'
<1>1. /\ worker' = worker /\ delivered' = delivered /\ resends' = resends
      /\ unsure' = unsure /\ row[m] \in Row
  BY SureTypes DEF Queue, Confirm, Retire, Requeue, Remove, BecomesDue, TenMinutesPass,
                   Expires, post
<1>2. CASE Queue(m)
  <2>1. PICK kind \in {"notice", "challenge"} :
          row' = [row EXCEPT ![m] = Requeued([NoRow EXCEPT !.kind = kind])]
    BY <1>2 DEF Queue
  <2>2. PICK r : r = Requeued([NoRow EXCEPT !.kind = kind])
    OBVIOUS
  <2>3. r.status = "queued" /\ row[m].status = "none"
    BY <1>2, <2>2 DEF Requeued, NoRow, Queue
  <2> QED BY <1>1, <2>1, <2>2, <2>3, SureRow
<1>3. CASE Requeue(m)
  <2>1. PICK r : r = [Requeued(row[m]) EXCEPT !.expired = FALSE]
    OBVIOUS
  <2>2. row' = [row EXCEPT ![m] = r]
    BY <1>3, <2>1 DEF Requeue
  <2>3. /\ r.status = "queued" /\ r.kind = row[m].kind
        /\ row[m].status = "dead" /\ row[m].kind = "notice"
    BY <1>1, <1>3, <2>1 DEF Requeue, Requeued, Row, Notice
  <2> QED BY <1>1, <2>2, <2>3, SureRow
<1>4. CASE Retire(m) \/ Remove(m)
  <2>1. PICK r : /\ row' = [row EXCEPT ![m] = r]
                 /\ \/ Retire(m) /\ r = [row[m] EXCEPT !.used = TRUE, !.status = "dead"]
                    \/ Remove(m) /\ r = [row[m] EXCEPT !.status = "gone", !.leased = FALSE]
    BY <1>4 DEF Retire, Remove
  <2>2. /\ r.kind = row[m].kind
        /\ r.status = "gone" \/ (r.status = "dead" /\ r.kind # "notice")
    BY <1>1, <2>1 DEF Retire, Notice, Row
  <2> QED BY <1>1, <2>1, <2>2, SureRow
<1>5. CASE Confirm(m) \/ BecomesDue(m) \/ TenMinutesPass(m) \/ Expires(m)
  <2>1. PICK r : /\ row' = [row EXCEPT ![m] = r]
                 /\ r \in {[row[m] EXCEPT !.used = TRUE], [row[m] EXCEPT !.due = TRUE],
                           [row[m] EXCEPT !.old = TRUE], [row[m] EXCEPT !.expired = TRUE]}
    BY <1>5 DEF Confirm, BecomesDue, TenMinutesPass, Expires
  <2>2. r.kind = row[m].kind /\ r.status = row[m].status /\ r.leased = row[m].leased
    BY <1>1, <2>1 DEF Row
  <2> QED BY <1>1, <2>1, <2>2, SureRow
<1> QED BY <1>2, <1>3, <1>4, <1>5

\* A resend raises what was asked for; a row that is let out by it has no worker, for
\* the one that held it marked it sent or put it to rest.
LEMMA SureResend ==
  ASSUME OutboxInv, SureInv, NEW m \in Messages, Resend(m) PROVE SureInv'
<1> SUFFICES ASSUME NEW n \in Messages, ~unsure'[n] PROVE Sure(n)'
  BY DEF SureInv
<1>1. PICK r : r = Requeued(row[m])
  OBVIOUS
<1>2. /\ row' = [row EXCEPT ![m] = r] /\ resends' = [resends EXCEPT ![m] = @ + 1]
      /\ worker' = worker /\ delivered' = delivered /\ unsure' = unsure
      /\ row[m].status = "sent" \/ Stalled(m)
  BY <1>1 DEF Resend, Resendable, post
<1>3. Sure(n)
  BY <1>2 DEF SureInv
<1>4. /\ row'[m] = r /\ \A k \in Messages : k # m => row'[k] = row[k]
      /\ resends'[m] = resends[m] + 1
      /\ \A k \in Messages : k # m => resends'[k] = resends[k]
      /\ resends[m] \in Nat /\ delivered[m] \in Nat /\ row[m] \in Row
  BY <1>2, SureTypes
<1>5. r.status = "queued" /\ r.kind = row[m].kind
  BY <1>1, <1>4 DEF Requeued, Row
<1>6. CASE n # m
  BY <1>2, <1>3, <1>4, <1>6, SureElsewhere
<1>7. CASE n = m
  <2>1. \A w \in Workers : ~OnIt(w, m)
    BY <1>2, <1>3, <1>7 DEF Sure, Stalled
  <2>2. \A w \in Workers : ~OnIt(w, m)' /\ ~MayDeliver(w, m)'
    BY <1>2, <2>1 DEF OnIt, MayDeliver
  <2>3. delivered[m] <= 1 + resends[m]
    BY <1>3, <1>7 DEF Sure
  <2>4. delivered'[m] <= resends'[m]
    BY <1>2, <1>4, <2>3
  <2>5. delivered'[m] <= 1 + resends'[m]
    BY <1>2, <1>4, <2>4
  <2> QED BY <1>4, <1>5, <1>7, <2>2, <2>4, <2>5 DEF Sure
<1> QED BY <1>6, <1>7

\* A lease that runs out makes its message unsure.
LEMMA SureLease ==
  ASSUME OutboxInv, SureInv, NEW m \in Messages, LeaseRunsOut(m) PROVE SureInv'
<1> SUFFICES ASSUME NEW n \in Messages, ~unsure'[n] PROVE Sure(n)'
  BY DEF SureInv
<1>1. /\ unsure' = [unsure EXCEPT ![m] = TRUE]
      /\ row' = [row EXCEPT ![m].leased = FALSE]
      /\ worker' = worker /\ delivered' = delivered /\ resends' = resends
  BY DEF LeaseRunsOut
<1>2. n # m /\ ~unsure[n] /\ row'[n] = row[n]
  BY <1>1, SureTypes
<1> QED BY <1>1, <1>2, SureElsewhere DEF SureInv

\* Only a queued row is claimed while nobody is unsure, and that row has no worker.
LEMMA SureClaim ==
  ASSUME OutboxInv, SureInv, NEW w \in Workers, NEW m \in Messages, Claim(w, m)
  PROVE  SureInv'
<1> SUFFICES ASSUME NEW n \in Messages, ~unsure'[n] PROVE Sure(n)'
  BY DEF SureInv
<1>1. PICK r, x :
        /\ r = [row[m] EXCEPT !.status = "sending", !.attempts = @ + 1, !.leased = TRUE]
        /\ x = [pc |-> "claimed", msg |-> m, attempts |-> row[m].attempts + 1, key |-> 0]
  OBVIOUS
<1>2. /\ row' = [row EXCEPT ![m] = r] /\ worker' = [worker EXCEPT ![w] = x]
      /\ resends' = resends /\ delivered' = delivered /\ unsure' = unsure
      /\ worker[w].pc = "idle"
      /\ row[m].status = "queued" \/ (row[m].status = "sending" /\ ~row[m].leased)
  BY <1>1 DEF Claim, Claimable, post
<1>3. Sure(n)
  BY <1>2 DEF SureInv
<1>4. /\ row'[m] = r /\ \A k \in Messages : k # m => row'[k] = row[k]
      /\ worker'[w] = x /\ \A v \in Workers : v # w => worker'[v] = worker[v]
      /\ row[m] \in Row
  BY <1>2, SureTypes
<1>5. r.status = "sending" /\ r.leased /\ x.pc = "claimed" /\ x.msg = m
  BY <1>1, <1>4 DEF Row
<1>6. CASE n # m
  <2>1. ~OnIt(w, n) /\ ~OnIt(w, n)'
    BY <1>2, <1>4, <1>5, <1>6 DEF OnIt
  <2> QED BY <1>2, <1>3, <1>4, <1>6, <2>1, SureElsewhere
<1>7. CASE n = m
  <2>1. row[m].status = "queued"
    BY <1>2, <1>3, <1>7 DEF Sure
  <2>2. \A v \in Workers : ~OnIt(v, m)
    BY <1>3, <1>7, <2>1 DEF Sure
  <2>3. \A v \in Workers : OnIt(v, m)' => v = w
    BY <1>4, <2>2 DEF OnIt
  <2>4. delivered[m] <= resends[m] /\ delivered[m] <= 1 + resends[m]
    BY <1>3, <1>7, <2>1 DEF Sure, GoesOut
  <2> QED BY <1>2, <1>4, <1>5, <1>7, <2>3, <2>4 DEF Sure
<1> QED BY <1>6, <1>7

\* What a worker under way knows, for the steps below.
LEMMA SureMine ==
  ASSUME OutboxInv, NEW w \in Workers, worker[w].pc # "idle"
  PROVE  /\ worker[w].msg \in Messages /\ OnIt(w, worker[w].msg)
         /\ row[worker[w].msg] \in Row /\ worker[w] \in WorkerState
         /\ row = [row EXCEPT ![worker[w].msg] = row[worker[w].msg]]
BY WorkerFacts, SureTypes DEF OnIt

\* Prepare, a failed check and the steps of a retry hand on what the worker may do, or
\* put the row to rest or in the queue and let go of it.
LEMMA SurePrepare ==
  ASSUME OutboxInv, SureInv, NEW w \in Workers, Prepare(w) PROVE SureInv'
<1>1. PICK m : m = worker[w].msg
  OBVIOUS
<1>2. /\ worker[w].pc = "claimed" /\ resends' = resends /\ delivered' = delivered
      /\ unsure' = unsure
  BY DEF Prepare, post
<1>3. /\ m \in Messages /\ OnIt(w, m) /\ row[m] \in Row /\ worker[w] \in WorkerState
      /\ row = [row EXCEPT ![m] = row[m]] /\ MayDeliver(w, m)
  BY <1>1, <1>2, SureMine DEF MayDeliver
<1>4. Idle.pc = "idle"
  BY DEF Idle
<1>5. CASE Rests(w) /\ row' = row
  BY <1>2, <1>3, <1>4, <1>5, SureWork DEF Rests
<1>6. CASE /\ row' = row
           /\ worker' = [worker EXCEPT ![w].pc = "sending", ![w].key = row[m].sent]
  <2>1. PICK x : x = [worker[w] EXCEPT !.pc = "sending", !.key = row[m].sent]
    OBVIOUS
  <2>2. worker' = [worker EXCEPT ![w] = x] /\ x.msg = m
    BY <1>1, <1>3, <1>6, <2>1 DEF WorkerState
  <2> QED BY <1>2, <1>3, <1>6, <2>2, SureWork
<1>7. CASE /\ Rests(w)
           /\ row' = [row EXCEPT ![m].status = "dead", ![m].leased = FALSE,
                        ![m].used = @ \/ ~(Live(m) /\ recipient[m] = "later")]
  <2>1. PICK r : r = [row[m] EXCEPT !.status = "dead", !.leased = FALSE,
                        !.used = @ \/ ~(Live(m) /\ recipient[m] = "later")]
    OBVIOUS
  <2>2. row' = [row EXCEPT ![m] = r]
    BY <1>3, <1>7, <2>1
  <2>3. r.kind = row[m].kind /\ r.status = "dead"
    BY <1>3, <2>1 DEF Row
  <2> QED BY <1>2, <1>3, <1>4, <1>7, <2>2, <2>3, SureWork DEF Rests
<1> QED BY <1>1, <1>5, <1>6, <1>7 DEF Prepare

LEMMA SureTry ==
  ASSUME OutboxInv, SureInv, NEW w \in Workers,
         PrepareFails(w) \/ ReadAttempts(w) \/ WriteRetry(w)
  PROVE  SureInv'
<1>1. PICK m : m = worker[w].msg
  OBVIOUS
<1>2. /\ worker[w].pc \in {"claimed", "failed", "retry"} /\ resends' = resends
      /\ delivered' = delivered /\ unsure' = unsure
  BY DEF PrepareFails, ReadAttempts, WriteRetry, post
<1>3. /\ m \in Messages /\ OnIt(w, m) /\ row[m] \in Row /\ worker[w] \in WorkerState
      /\ row = [row EXCEPT ![m] = row[m]] /\ MayDeliver(w, m)
  BY <1>1, <1>2, SureMine DEF MayDeliver
<1>4. Idle.pc = "idle"
  BY DEF Idle
<1>5. CASE PrepareFails(w)
  <2>1. PICK x : x = [worker[w] EXCEPT !.pc = "failed"]
    OBVIOUS
  <2>2. worker' = [worker EXCEPT ![w] = x] /\ x.msg = m /\ row' = row
    BY <1>1, <1>3, <1>5, <2>1 DEF PrepareFails, Step, WorkerState
  <2> QED BY <1>2, <1>3, <2>2, SureWork
<1>6. CASE ReadAttempts(w)
  <2>1. PICK x : x = [worker[w] EXCEPT !.pc = "retry", !.attempts = row[m].attempts]
    OBVIOUS
  <2>2. /\ worker' = [worker EXCEPT ![w] = x] \/ worker' = [worker EXCEPT ![w] = Idle]
        /\ x.msg = m /\ row' = row
    BY <1>1, <1>3, <1>6, <2>1 DEF ReadAttempts, Rests, WorkerState
  <2> QED BY <1>2, <1>3, <1>4, <2>2, SureWork
<1>7. CASE WriteRetry(w)
  <2>1. PICK r : /\ row' = [row EXCEPT ![m] = r] /\ r.kind = row[m].kind
                 /\ r = row[m] \/ r.status \in {"queued", "dead"}
    <3>1. PICK st : st = IF worker[w].attempts >= MaxAttempts THEN "dead" ELSE "queued"
      OBVIOUS
    <3>2. PICK r : r = [row[m] EXCEPT !.status = st, !.due = FALSE, !.leased = FALSE]
      OBVIOUS
    <3>3. r.kind = row[m].kind /\ r.status = st /\ st \in {"queued", "dead"}
      BY <1>3, <3>1, <3>2 DEF Row
    <3>4. row' = [row EXCEPT ![m] = r] \/ row' = row
      BY <1>1, <1>7, <3>1, <3>2 DEF WriteRetry
    <3> QED BY <1>3, <3>3, <3>4
  <2>2. worker' = [worker EXCEPT ![w] = Idle]
    BY <1>7 DEF WriteRetry, Rests
  <2> QED BY <1>2, <1>3, <1>4, <2>1, <2>2, SureWork
<1> QED BY <1>5, <1>6, <1>7

\* The worker that marks its message sent, or stops, lets go of it.
LEMMA SureEnds ==
  ASSUME OutboxInv, SureInv, NEW w \in Workers, Finish(w) \/ Crash(w) PROVE SureInv'
<1>1. PICK m : m = worker[w].msg
  OBVIOUS
<1>2. /\ worker[w].pc # "idle" /\ resends' = resends /\ delivered' = delivered
      /\ unsure' = unsure /\ worker' = [worker EXCEPT ![w] = Idle]
  BY DEF Finish, Crash, Rests, post
<1>3. /\ m \in Messages /\ OnIt(w, m) /\ row[m] \in Row
      /\ row = [row EXCEPT ![m] = row[m]] /\ Idle.pc = "idle"
  BY <1>1, <1>2, SureMine DEF Idle
<1>4. PICK r : /\ row' = [row EXCEPT ![m] = r] /\ r.kind = row[m].kind
               /\ r = row[m] \/ r.status = "sent"
  <2>1. PICK r : r = [row[m] EXCEPT !.status = "sent", !.sent = @ + 1, !.old = FALSE,
                                    !.leased = FALSE]
    OBVIOUS
  <2>2. r.kind = row[m].kind /\ r.status = "sent"
    BY <1>3, <2>1 DEF Row
  <2>3. row' = [row EXCEPT ![m] = r] \/ row' = row
    BY <1>1, <2>1 DEF Finish, Crash
  <2> QED BY <1>3, <2>2, <2>3
<1> QED BY <1>2, <1>3, <1>4, SureWork

\* The one delivery that was still asked for.
LEMMA SureSend ==
  ASSUME OutboxInv, SureInv, NEW w \in Workers, Send(w) PROVE SureInv'
<1>1. PICK m, k : m = worker[w].msg /\ k = worker[w].key
  OBVIOUS
<1>2. worker[w].pc = "sending" /\ row' = row /\ resends' = resends
  BY DEF Send
<1>3. /\ m \in Messages /\ OnIt(w, m) /\ row[m] \in Row /\ worker[w] \in WorkerState
      /\ row = [row EXCEPT ![m] = row[m]] /\ MayDeliver(w, m)
  BY <1>1, <1>2, SureMine DEF MayDeliver
<1>4. CASE Step(w, "failed") /\ UNCHANGED post
  <2>1. PICK x : x = [worker[w] EXCEPT !.pc = "failed"]
    OBVIOUS
  <2>2. worker' = [worker EXCEPT ![w] = x] /\ x.msg = m
    BY <1>1, <1>3, <1>4, <2>1 DEF Step, WorkerState
  <2> QED BY <1>2, <1>3, <1>4, <2>2, SureWork DEF post
<1>5. CASE /\ Takes(m, k)
           /\ \/ Step(w, "sent") /\ UNCHANGED unsure
              \/ Step(w, "failed") /\ unsure' = [unsure EXCEPT ![m] = TRUE]
  <2> SUFFICES ASSUME NEW n \in Messages, ~unsure'[n] PROVE Sure(n)'
    BY DEF SureInv
  <2>1. PICK x : /\ worker' = [worker EXCEPT ![w] = x] /\ x.msg = m
                 /\ \/ x.pc = "sent" /\ unsure' = unsure
                    \/ x.pc = "failed" /\ unsure' = [unsure EXCEPT ![m] = TRUE]
    <3>1. PICK x : /\ worker' = [worker EXCEPT ![w] = x]
                   /\ \/ x = [worker[w] EXCEPT !.pc = "sent"] /\ unsure' = unsure
                      \/ /\ x = [worker[w] EXCEPT !.pc = "failed"]
                         /\ unsure' = [unsure EXCEPT ![m] = TRUE]
      BY <1>5 DEF Step
    <3>2. x.msg = m /\ x.pc \in {"sent", "failed"}
      BY <1>1, <1>3, <3>1 DEF WorkerState
    <3>3. \/ x.pc = "sent" /\ unsure' = unsure
          \/ x.pc = "failed" /\ unsure' = [unsure EXCEPT ![m] = TRUE]
      BY <1>3, <3>1 DEF WorkerState
    <3> QED BY <3>1, <3>2, <3>3
  <2>2. /\ worker'[w] = x /\ \A v \in Workers : v # w => worker'[v] = worker[v]
        /\ ~unsure[n] /\ (n = m => x.pc = "sent")
    BY <1>3, <2>1, SureTypes
  <2>3. Sure(n)
    BY <2>2 DEF SureInv
  <2>4. /\ delivered'[m] = delivered[m] \/ delivered'[m] = delivered[m] + 1
        /\ \A j \in Messages : j # m => delivered'[j] = delivered[j]
        /\ delivered[m] \in Nat /\ resends[m] \in Nat
    BY <1>3, <1>5, SureTypes DEF Takes
  <2>5. CASE n # m
    <3>1. ~OnIt(w, n) /\ ~OnIt(w, n)'
      BY <1>1, <2>1, <2>2, <2>5 DEF OnIt
    <3> QED BY <1>2, <2>2, <2>3, <2>4, <2>5, <3>1, SureElsewhere
  <2>6. CASE n = m
    <3>1. \A v \in Workers : OnIt(v, m) => v = w
      BY <1>3, <2>3, <2>6 DEF Sure
    <3>2. \A v \in Workers : /\ OnIt(v, m)' => v = w
                             /\ ~MayDeliver(v, m)'
      BY <2>2, <2>6, <3>1 DEF OnIt, MayDeliver
    <3>3. delivered[m] <= resends[m]
      BY <1>3, <2>3, <2>6 DEF Sure
    <3>4. delivered'[m] <= 1 + resends'[m]
      BY <1>2, <2>4, <3>3
    <3>5. /\ row[m].status \in {"sending", "gone"} \/ (row[m].status = "dead" /\ ~Notice(m))
          /\ row[m].status = "sending" => row[m].leased
      BY <1>3, <2>3, <2>6 DEF Sure
    <3>6. ~GoesOut(m)'
      BY <1>2, <3>5 DEF GoesOut, Notice
    <3> QED BY <1>2, <2>6, <3>2, <3>4, <3>5, <3>6 DEF Sure, Notice
  <2> QED BY <2>5, <2>6
<1> QED BY <1>1, <1>4, <1>5 DEF Send

LEMMA SureInit == Init => SureInv
<1> SUFFICES ASSUME Init, NEW m \in Messages PROVE Sure(m)
  BY DEF SureInv
<1>1. \A w \in Workers : ~OnIt(w, m) /\ ~MayDeliver(w, m)
  BY DEF Init, Idle, OnIt, MayDeliver
<1>2. row[m].status = "none" /\ delivered[m] = 0 /\ resends[m] = 0
  BY DEF Init, NoRow
<1> QED BY <1>1, <1>2 DEF Sure

LEMMA SureStep == OutboxInv /\ SureInv /\ [Next]_vars => SureInv'
<1> SUFFICES ASSUME OutboxInv, SureInv, [Next]_vars PROVE SureInv'
  OBVIOUS
<1>1. ASSUME NEW m \in Messages, AccountChanges(m) \/ Forgets(m) PROVE SureInv'
  BY <1>1, SureStays DEF AccountChanges, Forgets, post
<1>2. ASSUME NEW m \in Messages,
             \/ Queue(m) \/ Resend(m) \/ Confirm(m) \/ Retire(m) \/ Requeue(m)
             \/ AccountChanges(m) \/ Remove(m)
             \/ LeaseRunsOut(m) \/ BecomesDue(m) \/ TenMinutesPass(m) \/ Expires(m) \/ Forgets(m)
             \/ \E w \in Workers : Claim(w, m)
      PROVE  SureInv'
  BY <1>1, <1>2, SureCustomer, SureResend, SureLease, SureClaim
<1>3. ASSUME NEW w \in Workers, Ends(w) \/ Crash(w) PROVE SureInv'
  BY <1>3, SurePrepare, SureTry, SureSend, SureEnds DEF Ends
<1>4. CASE UNCHANGED vars
  BY <1>4, SureStays DEF vars, post
<1> QED BY <1>2, <1>3, <1>4 DEF Next

LEMMA SureInvHolds == Spec => [](OutboxInv /\ SureInv)
<1>1. Init => OutboxInv /\ SureInv
  BY OutboxInit, SureInit
<1>2. OutboxInv /\ SureInv /\ [Next]_vars => (OutboxInv /\ SureInv)'
  BY OutboxStep, SureStep
<1> QED BY <1>1, <1>2, PTL DEF Spec

------------------------------------------------------------------------------
(* What the outbox promises.                                                *)

\* What Resend delivered under the keys it keeps was asked for, the rest it forgot.
LEMMA AskedOrForgotten ==
  ASSUME OutboxInv, NEW m \in Messages, transport = "resend"
  PROVE  delivered[m] <= 1 + resends[m] + forgot[m]
<1>1. delivered[m] <= Cardinality(kept[m]) + forgot[m]
  BY DEF OutboxInv, KeysOK
<1> QED BY <1>1, KeptIsFinite

LEMMA SentFollows == OutboxInv => SentWasDelivered
<1>1. OutboxInv => TypeOK
  BY Types
<1> QED BY <1>1 DEF OutboxInv, RowsOK, Delivered, SentWasDelivered

\* A customer gets a message more often than asked only if Resend forgot a key of it
\* (late workers and retries repeat the key, which moves on with sent_at alone, and only
\* Resend lets out a row that has a sent_at), and over either transport only if a reply
\* was lost or a lease ran out: for any number of workers, attempts, crashes, resends
\* and requeues.
THEOREM DeliveredAsAskedHolds == Spec => []DeliveredAsAsked
<1>1. OutboxInv /\ SureInv => DeliveredAsAsked
  <2> SUFFICES ASSUME OutboxInv, SureInv, NEW m \in Messages
               PROVE  /\ transport = "resend" => delivered[m] <= 1 + resends[m] + forgot[m]
                      /\ ~unsure[m] => delivered[m] <= 1 + resends[m]
    BY DEF DeliveredAsAsked
  <2>1. ~unsure[m] => delivered[m] <= 1 + resends[m]
    BY DEF SureInv, Sure
  <2> QED BY <2>1, AskedOrForgotten
<1> QED BY <1>1, SureInvHolds, PTL

\* Rows, workers and deliveries are well typed, and what any worker marked sent was
\* delivered.
THEOREM SentWasDeliveredHolds == Spec => []SentWasDelivered
  BY OutboxInvHolds, SentFollows, PTL

\* A sent notice is never queued again, no retired challenge revived and no deleted row
\* brought back, by a late worker, a resend or the owner.
THEOREM OutcomeStandsHolds == Spec => OutcomeStands
<1>1. Stands =>
        \A m \in Messages :
          /\ Notice(m) /\ row[m].status = "sent" => row'[m].status \in {"sent", "gone"}
          /\ ~Notice(m) /\ row[m].status = "dead" => row'[m].status \in {"dead", "gone"}
          /\ row[m].status = "gone" => row'[m].status = "gone"
  BY DEF Stands, Follows, Notice
<1>2. OutboxInv /\ [Next]_vars =>
        [\A m \in Messages :
          /\ Notice(m) /\ row[m].status = "sent" => row'[m].status \in {"sent", "gone"}
          /\ ~Notice(m) /\ row[m].status = "dead" => row'[m].status \in {"dead", "gone"}
          /\ row[m].status = "gone" => row'[m].status = "gone"]_vars
  BY <1>1, OutboxStep
<1> QED BY <1>2, OutboxInvHolds, PTL DEF Spec, OutcomeStands

=============================================================================
