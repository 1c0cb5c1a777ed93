----------------------------- MODULE EmailOutbox -----------------------------
(***************************************************************************)
(* The durable e-mail outbox (audit/store.py, audit/mail.py).  A purchase  *)
(* commits its notice with the charge; a buyer's request commits a         *)
(* challenge (verify, change or reset).  Workers of every replica lease    *)
(* one due row at a time, check the recipient again, call the transport    *)
(* with no transaction open, and write the outcome.  A worker can stop     *)
(* anywhere, and a slow one can outlive its lease: finish_email_delivery   *)
(* and retry_email_delivery ask only that the row is being sent, not that  *)
(* the lease is still theirs.                                              *)
(*                                                                         *)
(* The transport is Resend or SMTP (send_email).  Resend does not deliver  *)
(* again what comes under an idempotency key it still keeps, which it does *)
(* for 24 hours; SMTP delivers whatever it is given.                       *)
(*                                                                         *)
(* Times are kept as the comparisons the code makes with them: has the     *)
(* lease run out, is the next attempt due, has the row expired.            *)
(***************************************************************************)
EXTENDS Integers, FiniteSets

CONSTANTS
    Messages,     \* email_outbox.id
    Workers,      \* mail workers
    MaxAttempts,  \* tries of one message: 8 in the code
    Transports,   \* how the service may be set up: "resend", "smtp"
    MaxResends,   \* bound: resends a customer asks for, per challenge
    MaxForgets,   \* bound: keys of a message that Resend forgets
    MaxDelivered, \* bound: deliveries of a message
    None          \* no message

ASSUME OutboxSets ==
    /\ None \notin Messages
    /\ Transports \subseteq {"resend", "smtp"}
    /\ MaxAttempts \in Nat \ {0}
    /\ MaxResends \in Nat /\ MaxForgets \in Nat /\ MaxDelivered \in Nat

VARIABLES
    row,        \* email_outbox
    recipient,  \* does the account still fit the row: yes, no, or later
    worker,     \* what each worker is doing
    resends,    \* resends the customer asked for
    transport,  \* what the service sends with
    kept,       \* the keys of each message that the transport still keeps
    delivered,  \* how often each message was delivered
    forgot,     \* how many keys of it the transport has forgotten
    unsure      \* was a reply about it lost, or did a lease on it run out?

post == <<transport, kept, delivered, forgot, unsure>>
vars == <<row, recipient, worker, resends, post>>

Keys == 0..(MaxResends + 1)

\* The kinds verify, change and reset are challenges, the three kinds of purchase
\* notices one.  A row that was deleted is "gone": its id is never used again.
\* `sent` numbers the values sent_at takes: 0 while it is empty.  It names the
\* message at the provider (mail.message_key).
Row == [kind : {"notice", "challenge"},
        status : {"none", "queued", "sending", "sent", "dead", "gone"},
        attempts : 0..MaxAttempts, leased : BOOLEAN, due : BOOLEAN,
        expired : BOOLEAN, used : BOOLEAN, sent : Keys, old : BOOLEAN]

WorkerState == [pc : {"idle", "claimed", "sending", "sent", "failed", "retry"},
                msg : Messages \cup {None}, attempts : 0..MaxAttempts, key : Keys]

NoRow == [kind |-> "challenge", status |-> "none", attempts |-> 0, leased |-> FALSE,
          due |-> FALSE, expired |-> FALSE, used |-> FALSE, sent |-> 0, old |-> FALSE]
Idle == [pc |-> "idle", msg |-> None, attempts |-> 0, key |-> 0]

Init ==
    /\ row = [m \in Messages |-> NoRow]
    /\ recipient = [m \in Messages |-> "yes"]
    /\ worker = [w \in Workers |-> Idle]
    /\ resends = [m \in Messages |-> 0]
    /\ transport \in Transports
    /\ kept = [m \in Messages |-> {}]
    /\ delivered = [m \in Messages |-> 0]
    /\ forgot = [m \in Messages |-> 0]
    /\ unsure = [m \in Messages |-> FALSE]

Notice(m) == row[m].kind = "notice"
Exists(m) == row[m].status \notin {"none", "gone"}
Live(m) == ~row[m].used /\ ~row[m].expired

\* What sets a row back to a full set of tries, due at once.
Requeued(r) == [r EXCEPT !.status = "queued", !.attempts = 0, !.due = TRUE, !.leased = FALSE]

------------------------------------------------------------------------------
(* Customers and the owner.                                                 *)

\* _queue_purchase_notice_in_tx, and _enqueue_email for a new challenge.
Queue(m) ==
    /\ row[m].status = "none"
    /\ \E kind \in {"notice", "challenge"} :
          row' = [row EXCEPT ![m] = Requeued([NoRow EXCEPT !.kind = kind])]
    /\ UNCHANGED <<recipient, worker, resends, post>>

\* sent ten minutes ago or more
Resendable(m) == row[m].status = "sent" /\ row[m].old

\* out of tries, and no worker holds it
Stalled(m) ==
    /\ row[m].attempts = MaxAttempts
    /\ row[m].status = "queued" \/ (row[m].status = "sending" /\ ~row[m].leased)

\* _enqueue_email for a challenge asked for again.
Resend(m) ==
    /\ ~Notice(m)
    /\ Live(m)
    /\ Resendable(m) \/ Stalled(m)
    /\ resends[m] < MaxResends
    /\ resends' = [resends EXCEPT ![m] = @ + 1]
    /\ row' = [row EXCEPT ![m] = Requeued(@)]
    /\ UNCHANGED <<recipient, worker, post>>

\* confirm_email_challenge, consume_email_reset: the link is used once.
Confirm(m) ==
    /\ ~Notice(m)
    /\ Exists(m) /\ Live(m) /\ row[m].status # "dead"
    /\ recipient[m] = "yes"
    /\ row' = [row EXCEPT ![m].used = TRUE]
    /\ recipient' = [recipient EXCEPT ![m] = "no"]
    /\ UNCHANGED <<worker, resends, post>>

\* request_email_change for another address retires the pending change.
Retire(m) ==
    /\ ~Notice(m)
    /\ Exists(m) /\ ~row[m].used
    /\ row' = [row EXCEPT ![m].used = TRUE, ![m].status = "dead"]
    /\ UNCHANGED <<recipient, worker, resends, post>>

\* requeue_purchase_email: the owner retries a dead notice.
Requeue(m) ==
    /\ Notice(m)
    /\ row[m].status = "dead" /\ ~row[m].used /\ row[m].sent = 0
    /\ recipient[m] = "yes"
    /\ row' = [row EXCEPT ![m] = [Requeued(@) EXCEPT !.expired = FALSE]]
    /\ UNCHANGED <<recipient, worker, resends, post>>

\* The account's address changes, is not verified yet, or is verified.
AccountChanges(m) ==
    /\ recipient[m] # "no"
    /\ \E fit \in (IF Notice(m) THEN {"yes", "no", "later"} ELSE {"no"}) \ {recipient[m]} :
          recipient' = [recipient EXCEPT ![m] = fit]
    /\ UNCHANGED <<row, worker, resends, post>>

\* delete_account removes the account's rows, whoever is sending them; the
\* retention purge removes expired ones.
Remove(m) ==
    /\ Exists(m)
    /\ row' = [row EXCEPT ![m].status = "gone", ![m].leased = FALSE]
    /\ recipient' = [recipient EXCEPT ![m] = "no"]
    /\ UNCHANGED <<worker, resends, post>>

------------------------------------------------------------------------------
(* deliver_pending, one worker.                                             *)

\* Mutant of Claimable: a lease that ran out is not looked for.
ClaimableQueued(m) ==
    /\ Live(m)
    /\ row[m].attempts < MaxAttempts
    /\ row[m].status = "queued" /\ row[m].due

Claimable(m) ==
    /\ Live(m)
    /\ row[m].attempts < MaxAttempts
    /\ row[m].status = "queued" \/ (row[m].status = "sending" /\ ~row[m].leased)
    /\ row[m].due

\* claim_email_delivery: the row is locked or skipped, and leased for 90 s.
Claim(w, m) ==
    /\ worker[w].pc = "idle"
    /\ Claimable(m)
    /\ row' = [row EXCEPT ![m].status = "sending", ![m].attempts = @ + 1, ![m].leased = TRUE]
    /\ worker' = [worker EXCEPT ![w] = [pc |-> "claimed", msg |-> m,
                                        attempts |-> row[m].attempts + 1, key |-> 0]]
    /\ UNCHANGED <<recipient, resends, post>>

Step(w, pc) == worker' = [worker EXCEPT ![w].pc = pc]
Rests(w) == worker' = [worker EXCEPT ![w] = Idle]

\* The row is still the one this worker claimed.
StillMine(w) ==
    LET m == worker[w].msg IN
    row[m].status = "sending" /\ row[m].attempts = worker[w].attempts

\* Mutant of Prepare: each attempt gets a name of its own.
PrepareNamesAttempt(w) ==
    LET m == worker[w].msg IN
    /\ worker[w].pc = "claimed"
    /\ StillMine(w) /\ Live(m) /\ recipient[m] = "yes"
    /\ worker' = [worker EXCEPT ![w].pc = "sending", ![w].key = row[m].attempts - 1]
    /\ UNCHANGED <<row, recipient, resends, post>>

\* prepare_email_delivery: check the recipient again.  A notice whose account is
\* waiting to verify an address can be requeued later; anything else is final.
Prepare(w) ==
    LET m == worker[w].msg IN
    /\ worker[w].pc = "claimed"
    /\ \/ /\ ~StillMine(w)
          /\ Rests(w)
          /\ UNCHANGED row
       \/ /\ StillMine(w) /\ Live(m) /\ recipient[m] = "yes"
          /\ worker' = [worker EXCEPT ![w].pc = "sending", ![w].key = row[m].sent]
          /\ UNCHANGED row
       \/ /\ StillMine(w) /\ ~(Live(m) /\ recipient[m] = "yes")
          /\ row' = [row EXCEPT ![m].status = "dead", ![m].leased = FALSE,
                       ![m].used = @ \/ ~(Live(m) /\ recipient[m] = "later")]
          /\ Rests(w)
    /\ UNCHANGED <<recipient, resends, post>>

\* The check itself fails: deliver_pending puts the message back like a failed send.
PrepareFails(w) ==
    /\ worker[w].pc = "claimed"
    /\ Step(w, "failed")
    /\ UNCHANGED <<row, recipient, resends, post>>

\* The transport takes message m under the key k.  send_resend sends the key along,
\* and Resend keeps it; send_smtp has nothing to recognise a message by.
Takes(m, k) ==
    /\ \/ /\ k \in kept[m]
          /\ UNCHANGED <<kept, delivered>>
       \/ /\ k \notin kept[m]
          /\ delivered[m] < MaxDelivered
          /\ delivered' = [delivered EXCEPT ![m] = @ + 1]
          /\ kept' = IF transport = "resend" THEN [kept EXCEPT ![m] = @ \cup {k}] ELSE kept
    /\ UNCHANGED <<transport, forgot>>

\* A day later Resend no longer keeps the key.
Forgets(m) ==
    /\ forgot[m] < MaxForgets
    /\ \E k \in kept[m] : kept' = [kept EXCEPT ![m] = @ \ {k}]
    /\ forgot' = [forgot EXCEPT ![m] = @ + 1]
    /\ UNCHANGED <<row, recipient, worker, resends, transport, delivered, unsure>>

\* Mutant of Send: an error of the transport counts as delivered.
SendSwallows(w) ==
    /\ worker[w].pc = "sending"
    /\ \/ Takes(worker[w].msg, worker[w].key) /\ UNCHANGED unsure
       \/ UNCHANGED post
    /\ Step(w, "sent")
    /\ UNCHANGED <<row, recipient, resends>>

\* send_email: the transport refuses, or takes the message and says so, or its
\* reply is lost.
Send(w) ==
    LET m == worker[w].msg IN
    /\ worker[w].pc = "sending"
    /\ \/ Step(w, "failed") /\ UNCHANGED post
       \/ /\ Takes(m, worker[w].key)
          /\ \/ Step(w, "sent") /\ UNCHANGED unsure
             \/ Step(w, "failed") /\ unsure' = [unsure EXCEPT ![m] = TRUE]
    /\ UNCHANGED <<row, recipient, resends>>

\* finish_email_delivery: a row being sent, by anyone.
Finish(w) ==
    LET m == worker[w].msg IN
    /\ worker[w].pc = "sent"
    /\ row' = IF row[m].status = "sending"
              THEN [row EXCEPT ![m].status = "sent", ![m].sent = @ + 1,
                               ![m].old = FALSE, ![m].leased = FALSE]
              ELSE row
    /\ Rests(w)
    /\ UNCHANGED <<recipient, resends, post>>

\* retry_email_delivery reads the count of attempts ...
ReadAttempts(w) ==
    /\ worker[w].pc = "failed"
    /\ IF Exists(worker[w].msg)
       THEN worker' = [worker EXCEPT ![w].pc = "retry",
                                     ![w].attempts = row[worker[w].msg].attempts]
       ELSE Rests(w)
    /\ UNCHANGED <<row, recipient, resends, post>>

\* Mutant of WriteRetry: the row need not be in sending.
WriteRetryAlways(w) ==
    LET m == worker[w].msg IN
    /\ worker[w].pc = "retry"
    /\ row' = [row EXCEPT ![m].status = IF worker[w].attempts >= MaxAttempts
                                        THEN "dead" ELSE "queued",
                          ![m].due = FALSE, ![m].leased = FALSE]
    /\ Rests(w)
    /\ UNCHANGED <<recipient, resends, post>>

\* ... and puts a row being sent, by anyone, back in the queue or to rest.
WriteRetry(w) ==
    LET m == worker[w].msg IN
    /\ worker[w].pc = "retry"
    /\ row' = IF row[m].status = "sending"
              THEN [row EXCEPT ![m].status = IF worker[w].attempts >= MaxAttempts
                                             THEN "dead" ELSE "queued",
                               ![m].due = FALSE, ![m].leased = FALSE]
              ELSE row
    /\ Rests(w)
    /\ UNCHANGED <<recipient, resends, post>>

\* The worker's process stops, or a write of its outcome fails: the lease is all that is
\* left of it.
Crash(w) ==
    /\ worker[w].pc # "idle"
    /\ Rests(w)
    /\ UNCHANGED <<row, recipient, resends, post>>

------------------------------------------------------------------------------
(* Time.                                                                    *)

LeaseRunsOut(m) ==
    /\ row[m].leased
    /\ row' = [row EXCEPT ![m].leased = FALSE]
    /\ unsure' = [unsure EXCEPT ![m] = TRUE]
    /\ UNCHANGED <<recipient, worker, resends, transport, kept, delivered, forgot>>

BecomesDue(m) ==
    /\ row[m].status = "queued" /\ ~row[m].due
    /\ row' = [row EXCEPT ![m].due = TRUE]
    /\ UNCHANGED <<recipient, worker, resends, post>>

TenMinutesPass(m) ==
    /\ row[m].status = "sent" /\ ~row[m].old
    /\ row' = [row EXCEPT ![m].old = TRUE]
    /\ UNCHANGED <<recipient, worker, resends, post>>

Expires(m) ==
    /\ Exists(m) /\ ~row[m].expired
    /\ row' = [row EXCEPT ![m].expired = TRUE]
    /\ UNCHANGED <<recipient, worker, resends, post>>

------------------------------------------------------------------------------
Ends(w) ==
    Prepare(w) \/ PrepareFails(w) \/ Send(w) \/ Finish(w) \/ ReadAttempts(w) \/ WriteRetry(w)

Next ==
    \/ \E m \in Messages :
        \/ Queue(m) \/ Resend(m) \/ Confirm(m) \/ Retire(m) \/ Requeue(m)
        \/ AccountChanges(m) \/ Remove(m)
        \/ LeaseRunsOut(m) \/ BecomesDue(m) \/ TenMinutesPass(m) \/ Expires(m) \/ Forgets(m)
        \/ \E w \in Workers : Claim(w, m)
    \/ \E w \in Workers : Ends(w) \/ Crash(w)

Spec == Init /\ [][Next]_vars

\* Time passes, a worker's step ends in its outcome or in a crash, and some
\* worker polls: a row that can be claimed again and again is claimed.
Fairness ==
    /\ \A m \in Messages : WF_vars(LeaseRunsOut(m)) /\ WF_vars(BecomesDue(m))
    /\ \A w \in Workers : WF_vars(Ends(w) \/ Crash(w))
    /\ \A m \in Messages : SF_vars(\E w \in Workers : Claim(w, m))

FairSpec == Spec /\ Fairness

------------------------------------------------------------------------------
(* Properties.                                                             *)

\* Rows and workers have their fields.
TypeOK ==
    /\ row \in [Messages -> Row]
    /\ recipient \in [Messages -> {"yes", "no", "later"}]
    /\ worker \in [Workers -> WorkerState]
    /\ resends \in [Messages -> 0..MaxResends]
    /\ transport \in Transports
    /\ kept \in [Messages -> SUBSET Keys]
    /\ delivered \in [Messages -> 0..MaxDelivered]
    /\ forgot \in [Messages -> 0..MaxForgets]
    /\ unsure \in [Messages -> BOOLEAN]

\* Who gets a message more often than they asked for it (once, and once for each
\* resend)?  Over Resend only as often as Resend has forgotten a key: late workers,
\* crashes and requeues repeat the key (mail.message_key).  Over any transport nobody,
\* as long as every reply arrives and no lease runs out: the claims of the workers,
\* the retries and the owner's requeues alone never send a message again.
DeliveredAsAsked ==
    \A m \in Messages :
        /\ transport = "resend" => delivered[m] <= 1 + resends[m] + forgot[m]
        /\ ~unsure[m] => delivered[m] <= 1 + resends[m]

\* A row marked sent was delivered at least once, whichever worker marked it.
SentWasDelivered ==
    /\ TypeOK
    /\ \A m \in Messages : row[m].status = "sent" => delivered[m] > 0

\* What came to rest stays until it is deleted: a late worker's retry never queues
\* a notice that was sent, no worker, late or not, and no resend revives a retired
\* challenge, and nothing brings back a deleted row.
OutcomeStands ==
    [][\A m \in Messages :
          /\ Notice(m) /\ row[m].status = "sent" => row'[m].status \in {"sent", "gone"}
          /\ ~Notice(m) /\ row[m].status = "dead" => row'[m].status \in {"dead", "gone"}
          /\ row[m].status = "gone" => row'[m].status = "gone"]_vars

\* A message comes to rest: what is queued or being sent is one day sent, dead,
\* used or expired, or it has had all its tries and no worker holds it (the case
\* of CrashedLeaseIsReleased).
EveryMessageSettles ==
    \A m \in Messages :
        row[m].status \in {"queued", "sending"} ~>
            row[m].status \in {"sent", "dead", "gone"} \/ ~Live(m) \/ Stalled(m)

------------------------------------------------------------------------------
(* What comments say and runs refute.                                       *)

\* store.py, claim_email_delivery: "A crashed worker releases after 90 seconds".
\* A notice whose lease ran out leaves that state before it expires.
CrashedLeaseIsReleased ==
    \A m \in Messages :
        Notice(m) /\ row[m].status = "sending" /\ ~row[m].leased ~>
            row[m].status # "sending" \/ row[m].leased \/ ~Live(m)

\* mail.message_key: "Automatic retries of one message leave that time untouched and
\* keep its name: a retry after a lost reply is never delivered twice."  A message
\* nobody asked to have resent is delivered at most once.
RetryNeverDeliveredTwice ==
    \A m \in Messages : resends[m] = 0 => delivered[m] <= 1

==============================================================================
