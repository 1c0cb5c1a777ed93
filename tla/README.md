# Verification of quant-trade

TLA+ models of quant-trade, the TLC runs that check them on small instances, and
TLAPS proofs that hold for every instance. quant-trade is a Python system in two
halves: a web service that sells audit reports of trading records
(`src/quant_trade/audit`, the larger and the concurrent half) and a research and
paper-trading toolkit around it. Paths below are relative to
`src/src/quant_trade/` unless they start with `docs/`.

`PROJECT.json` holds, for machines, what this file says for readers: the
components, the runs with their properties, the line each definition translates
(`map`), a mutant of the code for every property (a change that TLC must find),
the findings, the hazards and the theorems.

## 1. Inventory

| Component | State it keeps | Operations | What is hard | What makes it correct |
|---|---|---|---|---|
| Card checkout (`audit/web.py` 8034-8162, `audit/store.py` 1330-1831, `audit/payments.py` 374-521) | `checkout_orders`, `checkout_order_markets`, `checkout_slots`; sessions at Stripe | reserve an order, open a session, attach it, list and expire the sessions it supersedes | two clicks, two languages, a timed-out call repeated, a status read without a lock | an order has one session; a slow request neither undoes a payment nor closes the current page |
| Fulfilment (`payments.fulfil`, `settle_card_payment`, `record_market_review`) | `audits.stripe_session_id`, `stripe_payment_intents`, `refused_payments` | settle, hold for review, refuse, record the market | webhooks and return pages race and repeat; two charges for one report; deletion in between | delivered once, every charge recorded, held or second charges unlock nothing |
| Access codes and packs | `access_codes`, `credit_grants` | create, disable, redeem, grant a pack | the last credit, a credit against a card, a repeated delivery | a credit is spent exactly when it unlocks; a pack comes exactly with its charge |
| Refund ledger (`record_stripe_refund`, `record_payment_intent_in_tx`) | `stripe_refunds` | record a snapshot, link the charge | snapshots late, twice, out of order; READ COMMITTED | status is the merge of the snapshots, booked on its own charge |
| E-mail outbox (`audit/store.py` 3226-3838, `audit/mail.py`) | `email_outbox`, leases | queue, resend, confirm, retire, claim, prepare, send, finish, retry | crashes, workers later than their lease, lost replies, a provider that forgets, a transport that never knew | delivered more often than asked only after one of these, settles, outcomes stand |
| Live paper loop (`live/loop.py`, `paper/state.py`) | `latest_state.json`, `loop_state.json`, history files, kill switch | one cycle: load, mark, halt or execute, decide, save twice, append | a kill between or inside the writes; halts and restarts on one day | next-open causality, one execution per target, day limits, halts that stay |
| Accounts and credits (`audit/store.py` 2116-2253, 3856-3926, 4880-5141; `payments._fulfil_credits`) | `accounts`, `account_codes`, `referrals`, `referral_global_slots`, credit orders | record an invite, reward it, buy credits, put a code on an account, delete the account | unique keys as slots inside savepoints; a deletion that is many statements at READ COMMITTED | caps hold, a reward is whole, bought credits arrive once, no invite is forgotten |
| Free tier (`audit/web.py` 2960-3100, 5600-6130; `claim_free` and its rows in `audit/store.py`) | `free_claims`, `welcome_reports`, `free_previews`, `welcome_pending`, `account_audits`, `card_checks` | upload, confirm, change address, check a card, sign up with a preview, leave | a decision read first, claimed later, granted after the run, given back on every way out | one free report for an account, an inbox, a file, a browser; the month's limits; no claim leaks |
| Sealed track record (`audit/track_seal_service.py`, `audit/store_hooks.py`) | `track_seals`, `track_seal_uploads`, `track_seal_quota` | open, add an upload, end, publish, unpublish, hide, delete, purge | a report audited for long between the read and the write; deletions of report, account and record meanwhile; no row lock | the chain verifies, what ended stays, what was public leaves a tombstone, five openings |
| Personal paper engine (`personal_paper/`) | SQLite: manifest, bars, books, events | register, catch up closes, expire, quote, fill, dividends, pause, resume | runs at any time, late, repeated, from inputs read before | fills only at the next opening; a dividend once; limits pause; no book blocks another |
| v9 paper session (`v9/paper_session.py`, `v9/paper_engine.py`) | journal, checkpoint, lease | start, resume, advance, report, stop | a kill anywhere, also inside an append; orders that are not in the checkpoint | every tick once, the journal ahead of the checkpoint, a breaker is final |
| Shadow portfolio (`opportunities/shadow.py`) | events, snapshots, checkpoint, state | start, advance, reconcile, status, stop | three files written apart; every command repairs, also the reading ones | recovery accepts what a kill leaves and applies nothing twice |
| Research ledger and holdout seal (`research/`) | chained trials, reveals | register, reveal | a look, then an append | one reveal |
| Cloud locks, kill switch, jobs (`cloud/`) | lock file or DynamoDB row with a time to live | acquire, run, release | look-then-create, expiry under a running job | one job at a time |
| Market data, carry, evidence, ops | caches, observations, receipts | collect, append, verify | a collector's lease | append once |
| Backtest, strategies, costs, research pipelines, audit engine and pages | none that is shared | compute, render | none here: pure numeric code and HTML | numeric, not a matter for these tools |

How they interact: a click, a webhook thread and a return page share only the
database and Stripe; a settlement queues the purchase notice in its own
transaction and links the PaymentIntent that refunds are booked by; the mail
workers of all replicas share `email_outbox`. Deleting an account or a report
runs through orders, codes, invites and sealed records, statement by statement,
while any of their own requests is at work. The paper loop, the v9 session, the
shadow portfolio and the personal engine share nothing with each other; each
shares files with its own next process, with an operator, or with a command
that only reads.

Section 7 says what is not modelled and why; `PROJECT.json` lists all 22
components with their status, and under `hazards` the line where each difficulty
bites.

## 2. Modules

| Module | Models | Extends / used by |
|---|---|---|
| `Entitlement` | the promise of the payment code, without orders, sessions or requests | instantiated by `CardPayments` |
| `DurableBooks` | the promise of a durable session, without journal, lease or processes | instantiated by `PaperSession` |
| `CardPayments` | checkout, fulfilment, codes and deletion, against Stripe | `MCCardPayments` (instances), `CardPayments_proofs` (theorems) |
| `RefundLedger` | refund snapshots against settlements | `MCRefundLedger`, `RefundLedger_proofs` (theorems) |
| `EmailOutbox` | outbox rows, mail workers and their leases | checked directly; `EmailOutbox_proofs` (theorems) |
| `PaperLoop` | the paper loop, its two files, kills and operators | `MCPaperLoop`, `PaperTrading_proofs` (theorems) |
| `AccountCredits` | what puts credits on an account, against the account's deletion | `MCAccountCredits`, `AccountCredits_proofs` (theorems) |
| `FreeReports` | the free tier: claims, grants, returns | `MCFreeReports`, `FreeReports_proofs` (theorems) |
| `TrackSeal` | the sealed track record at READ COMMITTED | `MCTrackSeal`, `TrackSeal_proofs` (theorems) |
| `PaperSession` | the v9 session: journal, checkpoint, lease | `MCPaperSession`, `PaperTrading_proofs` (theorems) |
| `ShadowJournal` | the shadow portfolio's files and the commands on them | checked directly; `Portfolios_proofs` (theorems) |
| `PersonalPaper` | the prospective mode of the personal engine | `MCPersonalPaper`, `Portfolios_proofs` (theorems) |

### CardPayments

The database is one variable per table: `order` (`checkout_orders` joined with
`checkout_order_markets`), `slot`, `unlock` (what paid `audits`), `deleted`,
`code`, `link`, `refused`. `stripe` is what Stripe knows of each session and
`onPage` the page a buyer was sent to. `click[k]` and `hook[h]` are program
counters of the checkout handler and of `fulfil` with the values each read.

*One action is one transaction* where the transaction locks the rows it decides
on or decides inside its `UPDATE`; `attach_checkout_session` reads first and
writes later, so it is `AttachRead` and `AttachWrite`. Between two actions of a
request anything else happens.

| Code | Actions |
|---|---|
| `checkout` in web.py, `reserve_checkout` | `Reserve` (`ReuseOrder`, `NewOrder`) |
| `stripe_checkout` | `OpenSession`; the idempotency key makes it return the same session |
| `attach_checkout_session` | `AttachRead`, `AttachWrite` |
| `expire_superseded`, `stripe_expire_session`, `mark_checkout_expired` | `ListSuperseded`, `ExpireSession`, `MarkExpired` |
| `payments.fulfil` up to its first transaction | `Fulfil` (`Refusal`, `OutsideMarket`) |
| `settle_card_payment` | `Settle` (`RecordedOn`, `PaidRow`, `Outcome`, `EnsurePack`) |
| `record_market_review`, `record_checkout_market` | `HoldForReview`, `RecordMarket` |
| `create_access_code`, `disable_access_code`, `redeem_for_audit` | `CreateCode`, `DisableCode`, `Redeem` |
| `delete_audit` | `DeleteReport` |
| a process that stops, a transaction the database aborts | `ClickDies`, `HookDies` |
| Stripe and the buyer (external) | `Pay`, `SessionTimesOut`, `OpenPaymentLink`, `OpenSecondSession` |

Abstractions: amounts are "the full price or not" (`full`); `expires_at` is
whether it has passed (`live`); a session has one PaymentIntent; the expiry date
of a code and the choice among several codes of an account are left out.
`delete_audit` is one action although its statements run at READ COMMITTED. The
order in which transactions lock rows is not modelled: two that wait on each
other are `HookDies`.

### RefundLedger

`row` is `stripe_refunds`, `linked` the committed `stripe_payment_intents`,
`settling` settlements that have run their `UPDATE` and not committed, with the
refund rows they hold locked. `create_engine` (store.py 436) sets no isolation
level, so each statement sees what was committed before it: `ReadLink` and the
write of the refund are apart, and so are a settlement's update and its commit.

### EmailOutbox

A row has its kind (a purchase notice, or a challenge: verify, change, reset),
its status and attempts, and three clocks kept as the comparisons made with
them: `leased`, `due`, `expired`. `sent` numbers the values of `sent_at`, which
is what names the message at the provider (`mail.message_key`). `transport` is
what `send_email` chooses: under Resend `kept` holds the names it has taken and
does not deliver again, until `Forgets` (external: the 24-hour window of mail.py
289-291); over SMTP nothing is kept and each message handed over is `delivered`.
`Send` is refused, or `Takes` the message, with or without its reply. `unsure` is
not in the code: it remembers that a reply about a message was lost or a lease on
it ran out. The transport does not change while the model runs. `worker[w]`
follows `deliver_pending`: `Claim`, `Prepare` or `PrepareFails`, `Send`, then
`Finish` or `ReadAttempts` and `WriteRetry`.
`Crash` leaves only the lease; `LeaseRunsOut` can happen while the worker lives,
so a worker can be late. `_enqueue_email`'s look and conditional update are one
action. Institutional messages use the same rows and are left out.

### PaperLoop

`sessionFile` and `loopFile` are the two state files, `torn` the ones a kill
left truncated (`Path.write_text` truncates, then writes), `proc` the copy in
memory with its program counter. `Start` loads and looks at the kill switch
(TRUE also when its storage cannot be read), `Process(b)` is the rest of
`run_cycle` up to the saves, in the code's order: `Marked`, `OnDay`, the two
breakers, `Executed`, `Decided`; then `SaveSession`, `SaveLoop`, `AppendHistory`.
A cycle that halts before executing leaves `last_processed_timestamp` alone, as
in the code, so after `Clear` the same bar is processed again.

The portfolio is one position that moves with the level of the bar's open; how
many orders a target needs (up to `MaxTrades`) and whether the portfolio is
invested afterwards are any value. Loss and drawdown are compared as the code
compares them, in whole hundredths. `level` fixes the market when a behaviour
begins; the provider may serve any bar as the newest one, so it can lag and skip.
A value the code may not have yet (`worth`) is a set of at most one number.
`splits` and `opened` are not in the code: they count the kills between the two
writes and remember a day's opening, for the properties to refer to.

### AccountCredits

A transaction of `reward_referral` or `delete_account` is split at the statements
where another can come in between; what it wrote and has not committed is in
`reward` and `erase`, and whoever needs a row or a unique key it holds waits.
`Claim`, `TakeSlot`, `TakeBudget`, `Decide` are the reward: the invite's row, a
slot of the inviter's month, a slot of the shared budget, the grant. `Join` is
`record_referral`; `Welcome` and `Confirm` are the two requests that look at an
invite afterwards (`asked`). `EraseOrders`, `EraseCodes`, `EraseInvites` and
`EraseCommit` are `delete_account` in its order. `Buy`, `Pay`, `Deliver`,
`Settle`, `Review` and `Refuse` are a credit order and `_fulfil_credits`;
`LinkCode` is every other way a code comes to an account. One calendar month.

### FreeReports

`claims` is `free_claims`: a unique key (account, inbox, browser, file, network,
the numbered slots of a month or a day) with the reservation that took it.
An upload is `Start` (`_first_look`), `Check`, `ClaimWelcome` or `ClaimSlots`,
`Run`, then `GrantWelcome`, `Redeem` or `Finish`; `GiveBack`, `Reclaim`, `Drop`,
`Note`, `Pend` are its ways out. `Choose` to `ClearPending` are
`_grant_pending_welcome`, `Attach` to `TakeAttached` are `_anon_to_account`;
one of each at a time for an account. `UploadDies`, `OpeningDies` and
`AttachDies` are processes that stop. One month and one day; the seven days a
pending preview may wait and uploads with a typed code are left out.

### TrackSeal

What a request reads and what it writes are two actions (`AddLook`, `AddRows`,
`AddRecheck` and `AddWrite` for `add_upload`, which reads in three statements and
writes in a fourth), because nothing locks what a transaction only read; `Tomb`
and `DeleteWrite` are the UPDATE and the DELETE of `withdraw_seals`. `Locked` is
the one wait there is: for a row that an open transaction has updated. A
statement is the number of its cut-off, and a hash is the sequence of operations
it was made from, so that two hashes are equal exactly when the code's would be.
`raced` remembers the records that two transactions were at work on at once, and
`late` the reports and accounts deleted under a request that had read them: the
safety properties hold except there, and section 6 says what happens there.
`Forget...` is `delete_audit`, `Leave...` is `delete_account`. Mismatch counts,
the sealed stretch and freshness are left out. The pages are behind
`TRACK_SEAL_ENABLED`, which is off.

### PaperSession

`mem[w]` is the session in a process, and the checkpoint is the same without the
broker's orders, as in the code. `Feed` computes the records of a tick,
`AppendNext` appends them one by one, `WriteCheckpoint` follows; `Kill` can come
at any of them, and leave a torn line. `Open`, `Acquire`, `Restore`, `Replay`,
`Resumed` and `Save` are resume; `Report`, `Stop`, `SaveStopped`, `ReleaseLease`
and `Exit` the other commands. The market (`wants`, `thin`, `gaps`) is fixed for
a behaviour. Prices, fees, funding and the breakers on them are left out, so a
reconciliation compares fills; an order still in flight (paper_engine.py 365-366) is
not told from one that meets a thin tick, since neither fills. `cut` remembers that a process was killed between
a tick's first record and its checkpoint. `Durable` is the refinement mapping: the
books of the checkpoint, whichever process wrote it.

### ShadowJournal

A file is its lines and whether the last lacks its newline; a record keeps what
it follows, which is what its hash stands for. A command reads the events
(`ReadEvents`), then the snapshots (`ReadSnapshots`), repairs (`Repair`), and then
does its own part (`Skip`, `RefuseEvent`, `ApplyEvent`, `ApplySnapshot`,
`ApplyCheckpoint`, `Finish`). `Dies` stops it between two writes, `DiesWriting`
inside an append. `overlap` and `cuts` remember whether commands overlapped and
appends were cut, so that each property says under which of them it holds.

### PersonalPaper

A session takes four ticks: two within the 300 seconds after its opening, one
after, and the close. `Run` is one run of the engine, one SQLite transaction from
inputs (`Panels`, `Quotes`) that were read before it, so possibly older than the
clock; a run that fails or dies is no step. Inside it, in the code's order:
expiry (`Expired`), the consumed closes (`CaughtUp`, `AtClose`), quotes and fills
(`AtOpen`, `Filled`), risk (`Risk`). `Pause` and `Resume` are the operator's. One
asset in one currency; an order may fill in any part that the cash pays for, which
stands for costs, caps and bands; splits, exchange rates and the development mode
are left out, and so is a close that reports another dividend than its session's
opening, for which the run refuses (actions.py 60-61). `began` and `eased` are not in the code: they remember what a day
began with and that a book was resumed, for `LimitsHold` to refer to.
`Late` lets a quote come before the day before has closed.

## 3. Runs

| Run | Question | Distinct states |
|---|---|---|
| `CardClicks` | two racing clicks in two languages and two countries, each able to close the other's session: is a recorded charge ever lost, undone or booked wrongly? | 1.55 M |
| `CardRedelivery` | two runs of `fulfil` over two paid sessions of one report, with links, wrong amounts, packs, codes, deletion | 1.85 M |
| `CardCredits` | two reports, a pack's code and an owner's code; the inductive invariant; refinement of `Entitlement`; is every charge recorded in the end (liveness)? | 714 k |
| `RefundRaces` | any two snapshots, again and again, against two settlements | 2.40 M |
| `Outbox` | a message under two workers, over Resend or SMTP, with crashes, lost replies, a forgotten name, a resend, deletion; how often is it delivered, and does it settle (safety and liveness)? | 557 k |
| `LoopCycles` | four bars of two days, halts, operators, kills anywhere, two of them between the writes | 937 k |
| `Credits` | invites at both caps, a purchase with two sessions and two runs, codes, each against the deletion of the account | 230 k |
| `Free` | two accounts and a visitor with every limit at one: uploads, confirmations, cards, sign-ups, deletions | 1.49 M |
| `Seal` | two accounts, three reports, five requests, two at work at once, each of which may end before it commits | 371 k |
| `Session` | four ticks, three processes one after the other, killed anywhere, thin markets and a gap; refinement of `DurableBooks` | 5.08 M |
| `Shadow` | four commands over two events, two at a time, killed anywhere, one append cut short | 932 k |
| `Personal` | three sessions, two books, four markets, runs at any time from older inputs | 668 k |

Each takes between twelve seconds and some eighty on two workers. The other .cfg
files are counterexamples, run by hand with `tlc -config <name>.cfg <module>`:
section 6 names them.

**Properties** worth a word:

- `DeliveredOnce` relates every order to the report's payment, held and second
  charges included, and `UnlockIsPaid` every payment to a full charge: breaking
  one takes two requests, or two charges, or an order cleared between a check
  and a write.
- `ChargeIsKept`: a recorded charge survives a slow checkout, a clean-up and a
  deletion, and stays what its PaymentIntent is linked to.
- `CreditsBalance`, `KeepsPromise`, `Inductive`: credits, codes and packs.
- `StatusIsMerge`: the refund's status depends on the set of snapshots only.
  `BookedOnItsCharge`, `BookingIsFinal`.
- `DeliveredAsAsked`: who gets a message more often than asked (once, and once for
  each resend)? Over Resend only as often as it forgot a name: late workers and
  requeues repeat the name, although resends set the attempt count back, so that
  the count no longer tells two workers apart. Over SMTP only when a reply was lost
  or a lease ran out: the claims, retries and requeues alone never send again. It
  is what is left of "never delivered twice" (finding 5). `OutcomeStands`, `EveryMessageSettles`.
- `FillsInOrder`: causality, over restarts and cleared halts. `OncePerCrash` and
  `DayCap` say by how much a kill between the writes can loosen "once" and
  `max_orders_per_day`; without one they are the plain limits. `BreakerHolds` is
  the daily-loss limit measured against the day's real opening.
- `RewardLimits`: both caps, and that a reward is all or nothing (credit, slot
  of the month, slot of the budget). `BoughtOnce`: credits once per order, on the
  account exactly as long as there is one. `NoInviteForgotten`: of three requests
  that each commit their own part and then look, the last sees the rest.
- `OneFreeReport`: no two free reports share account, inbox, file or browser.
  `NothingLeaks`: a claim outlives its upload only for what it stands for.
- `ChainHolds`, `FrozenStays`, `SealLimits`, `NothingOrphaned`: the chain of every
  record verifies, an ended record and a tombstone stay what they are, openings
  and public records are limited, and no open record outlives its report or its
  account.
- `TicksOnce`, `WriteAhead`, `ReconcilesUnlessCut`: what the journal and the
  checkpoint keep, whatever is killed. `KeepsBooks` (the refinement) relates each
  checkpoint to the one before it, perhaps of another process: the books never go
  back, even when the journal has become unreadable, and a recorded breaker is
  final (`HaltIsFinal`, a theorem of its own, is that part of it).
- `RecoversAlone`: what kills leave behind a command that ran alone is always
  accepted and completed. `EventsOutliveReaders`: reading commands that repair
  beside a writer never harm the events. `HaltHolds`.
- `NextOpenOnly`: every fill belongs to a decision of the close before, made
  before its price could be seen, and inside the window. `DividendOnce`,
  `LimitsHold`, `NeverBlocked`.

The type invariants are conjuncts of `Inductive`, `FreeCaps`, `RewardLimits`,
`ChainHolds`, `TicksOnce`, `EventsOutliveReaders`, `LimitsHold` and of the like.

**Bounds.** Card runs: `MaxReserved` (one or two rows the clicks may create), one
or two reports, sessions, clicks and hooks: the races here are between two
actors, and the code treats further orders of a report the same way; three order
ids where a Payment Link needs a row of its own. `MaxEvents` = 2: the merge is
pairwise, and a snapshot is replayed any number of times. `MaxAttempts` = 3 (8 in
the code): first, middle and last attempt. `MaxResends` = 1 lets the attempt
count start again while a worker of the first round is late (2 resends and 2
forgotten names, 2.75 M states, hold as well); `MaxForgets` = 1, and `MaxDelivered`
= 4, one more than any of that explains. `MaxBar` = 4 with `BarsPerDay` = 2: two days, and two bars
after a killed cycle; `MaxSplits` = 2. Loop numbers (cash 10, opens 8 and 10,
cost 1, limits 15 and 40 hundredths) reach each breaker from a market move and
from costs. `Credits`: `MonthlyCap` 1 and `Budget` 2 (5 and 100) put two invitees
of one inviter at one slot and three inviters at two; one request dies; a
behaviour is about invites, purchases or codes, which meet only in the deletion.
`Free`: two accounts and two uploads with every cap at 1, so that the second
upload is always at the limit; a behaviour is about cards, addresses or visitors,
the three ways around a limit. `Seal`: `MaxRecords` 2 (5), three reports of which
one continues another and one repeats it in a second account; with six requests
instead of five (3.2 M states) it holds as well. `Session`: `LastTick` 4 is a
decision, its fill, the way out and a tick more; `Target` 2 lets an order fill in
part. `Shadow`: two events, so that one can follow a repair; four commands.
`Personal`: `LastSession` 3 is a decision, its fill, and a decision after it;
`MaxResumes` 1.

**Symmetry** permutes clicks, hooks, languages, countries (card runs), workers,
intents, amounts (refunds) and requests (`Seal`); none of them is named by a
definition. It is not used in runs with fairness.

**Deadlock** is checked for the refunds and for the loop. The other models may
really stop (everything sold, deleted, at rest, or the feed at its end), so those
runs do not ask.

## 4. Fairness

- `CardPayments!Fairness`: a run of `fulfil` ends (in a commit or by being
  stopped), and Stripe delivers the event of a paid session until it is answered
  (an exception in web.py 8164-8186 becomes a 500, which makes Stripe repeat it), so
  a run keeps being started and is not stopped for ever before its commit.
  Nothing is assumed of buyers or clicks.
- `EmailOutbox!Fairness`: time passes (leases run out, a retry becomes due); a
  worker's step ends in an outcome or a crash; polling workers claim a row that
  is claimable again and again (`MailWorker` polls for ever; strong fairness
  because other transactions make the row unclaimable in between).

The other modules state safety only: nothing in the code makes a buyer, an
operator, a cron job or a request come again.

## 5. Proofs

Eight modules named `..._proofs` hold theorems that TLAPS checks for every value
of the constants. Each keeps one shape: an inductive invariant, a lemma for what
`Init` gives, a lemma for each action (or for a group that leaves the same things
alone), one that puts the actions together, and the temporal theorem. TLC checked
every inductive invariant on the instance of the component's run first.

| Module | For any | Assumption |
|---|---|---|
| `CardPayments_proofs` | finite sets of orders and reports, sessions, codes, requests, runs of `fulfil` | `SetsAssumption`, `PackCodeAssumption`: different sessions have different pack codes (an HMAC of the session id) |
| `RefundLedger_proofs` | finite sets of refunds, PaymentIntents, amounts; any threads | `RefundSets` |
| `EmailOutbox_proofs` | rows, workers, caps on attempts and resends | `OutboxSets` |
| `PaperTrading_proofs`: `PaperLoop` | bars, levels, costs, limits, kills | `LoopNumbers`: naturals, the first three not zero |
| `PaperTrading_proofs`: `PaperSession` | feeds, markets, targets, processes, kills, torn lines | `SessionConstants`: naturals, the target not zero; and `[]OneWriter`, see below |
| `AccountCredits_proofs` | accounts, invites, orders, sessions, codes, caps | `AccountSets`: an invite has an inviter, an order a buyer; what was rewarded before fits the caps |
| `FreeReports_proofs` | accounts, inboxes, browsers, files, networks, cards, caps, uploads | `FreeConstants` |
| `TrackSeal_proofs` | accounts, reports, statements, records, requests | `SealConstants` |
| `Portfolios_proofs`: `ShadowJournal` | processes, events, commands, cut appends | `ShadowConstants`: a torn line is no record, which is what the journals' JSON decoding tells apart |
| `Portfolios_proofs`: `PersonalPaper` | books, strategies, markets, calendars, capitals, limits, resumes | `PaperConstants`: prices and dividends are naturals; capital and limits positive (`load_config` refuses others); the 300 seconds are over before the session is |

The assumptions not explained say that numbers are naturals and that the `None`
of a model is none of its ids.

### CardPayments

| Theorem | Says |
|---|---|
| `TypeCorrect` | `Spec => []TypeOK` |
| `InductiveHolds` | `Spec => []Inductive` |
| `PackGrantedHolds` | a pack's code exists exactly when its charge unlocked |
| `UnlockIsFinalHolds` | what paid for a report is never replaced |
| `PromiseKept` | `CardPayments` implements `Entitlement` |
| `ChargeIsKeptHolds` | a recorded charge is never lost or moved |
| `DeliveredOnceHolds` | a delivered order is what its report was paid with; a held or second charge unlocked nothing |
| `UnlockIsPaidHolds` | a report a card unlocked was paid in full, for that report, from the declared country |
| `CreditsBalanceHolds` | credits left and reports unlocked add up to what the code was sold with |

There are three invariants, each resting on the ones before it.

`Inductive == TypeOK /\ ClickOK /\ HookOK /\ SessionOK /\ UnlockedByOwnCharge /\
CodeOK /\ PackGranted` (TLC checks it in `CardCredits`). Types cannot be proved
alone, because a later step of a request uses the report, order or session an
earlier one put in its program counter (`ClickOK`, `HookOK`), and a paid session
must name a report to be settled (`SessionOK`). `PackGranted` is not inductive
alone either: a settlement must not find its pack's code already there, or
granted by another session's unlock, so a charge unlocks only its own report
(`UnlockedByOwnCharge`) and a code nobody created is unused and not disabled
(`CodeOK`). `QuietSteps` shows that only `Settle` and the code actions touch
what this invariant is about.

`Ledger == OrdersOK /\ OpenedOK /\ ClicksOK /\ LinksOK /\ RunsOK` is what
`ChargeIsKept` needs: which session an order can carry, that Stripe's record of a
session names the order it was opened for, and that what a click remembers
between its read and its late write is the session of that order or harmless.
The recorded charge survives because a write that comes late can change the
order's state but not the session a charge is recorded under.

`Delivery == DeliveredOnce /\ UnlockIsPaid /\ ClearedOK`: a settlement reads the
report's payment and the order's session in one transaction. `ClearedOK` covers
the deletion, after which the order of the charge no longer has the report.

`CreditsBalance` counts: `SpentOK` says that the reports a code unlocked are a
finite set with as many members as the code has uses, and no more than its
credits; `Redeem` adds one report that was not in it.

### RefundLedger

`StatusIsMergeHolds`, `BookedOnItsChargeHolds` and the action property
`BookingIsFinalHolds`. `LedgerInv` says of every refund that its row is the merge
of the snapshots whose transactions committed (`Merges`). That alone is not
kept, because a transaction writes what an earlier statement read: the thread's
order is the snapshot's PaymentIntent and was linked when it read it
(`ReadIsLinked`), and a settlement that has not committed holds only rows of its
own charge (`HoldsOwn`).

### EmailOutbox

`DeliveredAsAskedHolds`, `SentWasDeliveredHolds` and the action property
`OutcomeStandsHolds`. `OutboxInv` follows the name a message has at the provider:
a row that can still be sent has had at most one `sent_at` for each resend before
this one (`RowsOK`), a worker's key was its row's `sent_at` when it prepared, and
a worker that is going to write `sent` has delivered (`MailersOK`); Resend keeps no
name newer than the row's resends, and what it delivered is covered by the names it
keeps and those it forgot (`KeysOK`). A late worker can repeat a name but not
invent one, so over Resend a message has at most one delivery for each resend, one
more, and one for each forgotten name. `SureInv` is for both transports: as long as
no reply about a message was lost and no lease on it ran out, at most one worker is
on it, its row is being sent or at rest for good, and while the row or the worker
can still go out the message was delivered less often than asked (`Sure`).

### PaperLoop

`LoopAlways` (`Spec => []LoopInv`), `FillsInOrderHolds`, `OncePerCrashHolds`,
`DayCapHolds`, `BreakerHoldsAlways`. `LoopInv == TypeOK /\ FilesOK /\ CycleOK`: the
two files and the copy in memory agree on which target is waiting (`Awaits`), how
often it was executed (`Tally`, one more per kill between the writes), how many
orders a day has had (`Counted`, against `loop.filled` on the loop's own day;
`Behind`: the loop is not on a later day than the session, or a day would start at
zero twice), in what order (`InOrder`), and, while no such kill happened, on the
day's opening (`InDay`) and on having stayed within the loss limit (`Within`).
`CycleOK` says at which program counter which file is already the new one; this is
where a kill is decided.

### AccountCredits

`CreditsAlways` (`Spec => []CreditInv`), `RewardLimitsHold`, `BoughtOnceHolds`,
`NoInviteForgottenHolds`. `CreditInv == TypeOK /\ Leaving /\ InviteInv /\ SaleInv`.
The caps hold because slots of one inviter's invites are disjoint, whether
committed or only in an open transaction (`MonthSlots`), and because there are as
many slots of the budget as credited rewards (`BudgetSlotsOK`, a counting
argument over finite sets); a reward is whole in each row (`Whole`), and what an
open transaction holds fits the row it has locked (`Rewarding`). `BoughtOnce` needs
what a payment can no longer become (`Settled`: one that was turned down stays
so) and, for the deletion, that a transaction that has read the links of the
account knows every session granted to it (`OnAccount`, `Leaving`).

### FreeReports

| Theorem | Says |
|---|---|
| `FreeTypes` | `Spec => []TypeOK`, and with it that a key is claimed once |
| `OneFreeReportHolds` | no two free reports share account, inbox, file or browser |
| `FreeCapsHold` | network, account and preview limits of a month |
| `NothingLeaksHolds` | a claim outlives its upload only for what it stands for |

The first invariant is `FreeInv == Shape /\ Promises`. *Shape* (`Rows`,
`ClaimsOK`, `Uploading`, `Openings`, `Attaching`) is what each request remembers.
*Promises* says why two reports cannot share anything: whoever is about to grant
holds the claims on account, inbox, file and, without a card, browser
(`UploadHolds`, `OpeningHolds`), every granted report still has them (`Granted`),
and an upload's file and browser do not change (`Known`). Since a key is unique,
two grants with a common key would be one reservation's, and a reservation
grants once.

The second, `SlotInv`, is about how many: every row that counts against a limit
has a numbered slot of that limit under its own reservation (`WelcomeSlots`,
`PreviewSlots`), and so has every request on its way to such a row
(`UploadSlots`, `OpeningSlots`, `AttachSlots`); an upload that has ended has kept
only what it stands for (`Ended`, `Settled`). Slots are numbered up to the limit
and a key is taken once, so rows map one to one into the limit.

### TrackSeal

`SealAlways` (`Spec => []SealInv`), `ChainHoldsAlways`, `SealLimitsHold`,
`NothingOrphanedHolds` and the action property `FrozenStaysHolds`. `SealInv ==
Tables /\` every request at work is `Watched`: nothing locks what a transaction
only read, so the proof says of each request what of its reading is still true
(`Reads`), that the record it names is one of its account (`ReqOK`, `Named`), and
that a record it has opened or is going to publish is still as it saw it
(`Opened`, `Publishing`), each time unless the race was remembered in `raced` or
`late`. `Evolves` is what any step may do to a record; the reading of every other
request is shown to survive it once, not for each pair of actions.

### ShadowJournal

| Theorem | Says |
|---|---|
| `ShadowAlways` | `Spec => []ShadowInv` |
| `RecoversAloneHolds` | commands one after the other, dying between any writes, leave files that recover |
| `EventsOutliveReadersHolds` | a reported event is applied once, whatever only reads beside an advance |
| `HaltHoldsAlways` | halted or stopped is never running again and takes no more events |

`ShadowInv` is layered by what the files have been through, since no lock keeps
commands apart. Always (`Shape`, `MemOK`): what a command has read is sound by
itself, because it checked it. As long as no append was cut (`Uncut`, `Held`):
the lines are records, and what a command knows or reported is in the journal.
If besides no two advances overlapped (`Beside`, `Partly`): one process writes,
every other has read a prefix of the journal, and the checkpoint names a prefix.
If no two commands overlapped at all (`Alone`): what the command at work knows is
what the files say. `HaltHolds` needs the first layer, `EventsOutliveReaders` the
first three and `RecoversAlone` all.

### PaperSession

| Theorem | Says |
|---|---|
| `SessionAlways` | `SessionSpec /\ []OneWriter => []SessionInv` |
| `TicksOnceHolds` | memory and checkpoint have every tick once and in order |
| `WriteAheadHolds` | a tick of the checkpoint is in the journal, unless a line was torn |
| `ReconcilesHolds` | the journal's fills give the running books, unless a tick was cut |
| `HaltIsFinalHolds` | a recorded breaker stays and the books do not move |
| `KeepsBooksHolds` | `PaperSession` implements `DurableBooks` |
| `OneProcessKeepsBooks` | with one writer, all of this from the specification alone |

The theorems suppose `[]OneWriter`, that two processes are never inside the session
at once. The lease does not guarantee it (finding 17), and without it `TicksOnce`,
`ReconcilesUnlessCut` and `KeepsBooks` are false: a process takes the ticks another
has appended, or writes its older checkpoint over a newer one. It holds whenever commands are run one
after the other, which is how `Session.cfg` runs them; `OneProcessKeepsBooks` states
that case without the hypothesis. Within it, nothing is supposed of when processes
are killed, which lines they tear or what the market does.

`SessionInv` ties three things together. The journal has its ticks in order and
each with a greater number (`TicksInOrder`; records of fills may repeat numbers,
finding 16). A session's sequence number tells exactly which of these ticks it has
(`Agrees`, `Covers`), so a replay can skip by number and yet apply each tick once;
while it is at work, its remaining records are the end of the journal
(`Replaying`). A process is never behind its checkpoint, and has not moved if that
recorded a breaker (`Ahead`): that one conjunct is what the refinement rests on.
For `ReconcilesHolds`, what is still to be appended is the rest of the fills in
memory (`Pending`).

### PersonalPaper

| Theorem | Says |
|---|---|
| `EngineAlways` | `EngineSpec => []EngineInv` |
| `NextOpenOnlyHolds` | a fill is of the decision of the close before, in its window, once, never from before a resume |
| `DividendOnceHolds` | a dividend is credited once, to what was held before the session's own fill |
| `NeverBlockedHolds` | no run is refused for a decision some book still has |
| `LimitsHoldAlways` | unless `Late`, a book beyond a limit is paused |

`EngineInv` says of every book `BookOK`, with the number of closes consumed, the
registration, the clock and the resumes as parameters, so that one lemma for each
thing that happens to a book (`AtCloseKeeps`, `DropKeeps`, `AtOpenKeeps`,
`FillKeeps`) serves every run, whatever it catches up with. Its parts: decisions
and fills belong to different closes, and those of fills come before that of the
pending decision (`OrdersOK`), or a second fill of a session could not be ruled
out; units are what the log adds up to (`UnitsOK`); every consumed session has been
`seen`, and a seen session has its one dividend (`SeenOK`, `CreditsOK`), on what was
held before it, which a fill of that session does not change; a book at rest beyond a
limit is paused (`LimitsOK`). It has too that a book's cash never gets below zero.
`NeverBlocked` needs the arithmetic of the calendar: a decision that has not
expired and is in time for an opening is of the close just before it
(`InTimeIsNext`), because the window ends before the session does.

`LimitsHold` is proved for `Late = FALSE` only, since `PersonalLate.cfg` refutes it
otherwise: `DaysOK`, that days go by in order, is where the case is used. The other
theorems, and the drawdown half in `LimitsOK`, need no such hypothesis.

### Induction

The library's induction theorems take a statement as an operator, which these
provers cannot instantiate. `Least` and `Induction` get it for a *set* of numbers,
from the well-foundedness of inclusion among finite sets, and with it the recursive
functions of `PaperSession` and `PersonalPaper` are shown to satisfy their equations
(`PositionType`, `HeldIs`, `CaughtUpIs` and others) and statements about journals and
logs of any length are proved.

### Only model-checked

- Liveness (`ChargeIsRecorded` in `CardCredits`, `EveryMessageSettles` in `Outbox`):
  TLAPS proves no liveness under fairness.
- What a .cfg refutes (section 6) has no theorem, of course; nor has
  `PaperSession` with two processes inside at once.

## 6. Findings

Where the code does not do what a comment, a docstring or a document of the
repository says. `PROJECT.json` quotes the text and tells the run; each has a
property in its module and, where named, a .cfg in which TLC finds the
counterexample.

Payments and e-mail:

1. **`CardResold`** (store.py 1754). A slow `attach_checkout_session` writes
   `open` over `paid_review`; the held charge no longer blocks a second sale.
2. **`CardClosedPage`** (payments.py 505, store.py 1767). The clean-up compares
   creation times, but a reserved order can be handed out again: it closes the
   session the buyer has just been sent back to.
3. **`RefundUnlinked`** (store.py 2385, 616). A refund and the settlement of its
   charge each read before the other commits; the refund stays unlinked.
4. **`OutboxLastCrash`** (store.py 3635, 3644). The claim counts the attempt and
   wants fewer than eight, so a worker that dies in the last one leaves the row
   in `sending`, and a notice has no other way out.
5. **`OutboxTwice`** (`RetryNeverDeliveredTwice`, mail.py 317, 192). "A retry after
   a lost reply is never delivered twice": over SMTP it is, since `send_smtp` has
   no idempotency key and the Message-ID prevents nothing; over Resend
   (`Transports = {"resend"}` in the same .cfg) it is when the retry or the requeue
   comes after the 24 hours that `send_resend` itself names.

Accounts and the free tier:

6. **`CreditsOrphaned`** (`LinksHaveAccounts`, store.py 3907). `delete_account`
   removes the links to codes before it waits for what a reward holds: a link
   that commits in between stays behind the account.
7. `RefusedUnlockedNothing` (store.py 2154). After a deletion, a repeated
   delivery of a purchase that was granted is listed among the payments that
   "unlocked nothing"; the property is checked with this case excepted.
8. **`FreePreviewKept`** (`PreviewGivenBack`, web.py 3056). Opening a preview in
   full gives the month's row back, but not the claim, and the claim is what the
   next upload is counted by.

Sealed track record:

9. **`SealTwice`** (`EveryChainHolds`, track_seal_service.py 1091). Two uploads
   that re-check at once, or one that read record and rows around the commit of
   another, break the chain.
10. **`SealPurged`** (`NeverPurged`, store_hooks.py 262). A publication between
   the purge's look and its delete goes with it; between the two statements of
   a deletion it leaves a public record without entries.
11. **`SealPublicTwice`** (`OnePublicRecord`, track_seal_service.py 1257). A
    public record that is continued keeps the hash of its first publication, so
    two public records can have the same latest operations; no race is needed.
12. **`SealForgotten`** (`DeletedReportsEnd`, store_hooks.py 222). A report
    deleted while a request audits it becomes a link of an open record
    afterwards.

Paper trading:

13. **`LoopCrash`** (live/loop.py 169, docs/PAPER_PHASE_PLAN.md 200). A kill
    between the two writes: the target is executed again at the next bar and the
    one decided in the killed cycle is lost.
14. **`SessionFlips`** (`NeverReversed`, paper_session.py 536). The strategy looks
    at the position and not at its open orders: after a partial fill it closes
    twice and ends in the reverse of the carry.
15. **`SessionRestart`** (`SamePlace`, paper_session.py 339). A restart replays
    without the open orders and without the strategy: not "the same place".
16. `SequencesIncrease` (paper_session.py 456). The restart uses the numbers of
    fills the killed process had already journaled.
17. `OneWriter` (paper_session.py 140). With `Writers = {w1, w2}` both get the
    lease: it is read, judged and then overwritten.
18. **`ShadowCut`** (`RecoversFromCut`, shadow.py 62). An append cut by a power
    loss makes the file unreadable for every later command.
19. **`ShadowReaders`** (`RecoversBesideReaders`, shadow.py 186). A status or a
    reconciliation beside an advance writes the same snapshot again or halts the
    session.

Noticed besides: a session delivered, its report deleted and the event repeated
is listed among `refused_payments`, whose comment (store.py 563) speaks of
charges that "unlocked nothing". A total-drawdown halt (loop.py 407) comes back
at the first bar after every clear, since `max_drawdown` only grows. `paper
resume` (cli.py 705-728) writes under `state/paper`, and the loop's default is
`state/paper_loop`, where docs/CLOUD_DEPLOYMENT_PLAN.md says never to edit by
hand: the model's `Clear` is therefore marked external. Nothing prevents two
loop processes on one session. None of the v9 commands but `paper-stop` releases
the lease. `shadow_status` reads a torn event file a second time in its `except`
branch (shadow.py 394), so it raises instead of halting. `end_seals` can write
`ended` over a tombstone. In the personal engine, a catch-up of two deciding
closes replaces the first decision without an event. `PersonalLate.cfg` shows
what delayed data can do to `LimitsHold`; docs/PERSONAL_PAPER.md 35-39 makes that
exception itself, so it is no finding, and `NextOpenOnly`, `DividendOnce` and
`NeverBlocked` hold with it too.

## 7. Not modelled

Most of this repository's lines are numeric code over data frames (metrics,
backtests, costs, stress, research and allocation pipelines), the statistics,
wording, translations and HTML of reports and pages, and parsers of statements
and downloads. Their properties are about real numbers or text, they run one
after the other on data nobody else touches, and neither a model checker nor
these provers say more of them than their tests. That is why the models, which
cover the parts with shared state, stand for a small share of the lines.

Of the parts with state: sign-in, sessions, two-step codes, passkeys and
recovery of accounts (one conditional UPDATE or DELETE each); files, private
links and the retention purge of reports, which are I/O around `delete_audit`;
the cloud locks, which no job works under today (`broker_submit_paper`, the one
that takes a lock, raises while it holds it, and `LocalFileLock`'s look before
its write is plain to see); the holdout's reveal, a look and an append without a
lock; the collector's lease, of the same kind; the research ledger and the carry
store, whose one lock covers the read and the append; and of the personal engine
the development mode, the event chain, budget, backup and the economic review.

## 8. Plan

Done: every module of section 2, each with its proofs; every safety invariant and
every action property that a run checks is a theorem.

Left to model, least important last: two loop processes on one session, with an
operator's read-modify-write; the lock around a cloud job, once submission is
wired (abstract specification: mutual exclusion; run: expiry under a running
job); the holdout's reveal; the development mode of the personal engine.

Theorems next: more refinements beside `PromiseKept` and `KeepsBooksHolds` (an event
log that applies once for `ShadowJournal`, a chain without transactions for
`TrackSeal`).
