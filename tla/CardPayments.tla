---------------------------- MODULE CardPayments ----------------------------
(***************************************************************************)
(* Card payments for one audit report (audit/payments.py, audit/store.py,  *)
(* the checkout handler of audit/web.py).                                  *)
(*                                                                         *)
(* A buyer's click reserves a frozen order, opens a Checkout session at    *)
(* Stripe, attaches it to the order and, after the redirect, closes the    *)
(* session the buyer left in another language.  A paid session comes back  *)
(* as a webhook or as the return page, any number of times; each one runs  *)
(* `fulfil`.  Access codes unlock the same reports with a credit.          *)
(*                                                                         *)
(* A transaction that takes the rows it decides on with FOR UPDATE, or     *)
(* decides inside its UPDATE statement, is one action.  One that reads a   *)
(* row without a lock and writes it later (attach_checkout_session) is two *)
(* actions, and so is every gap between two transactions of one request.   *)
(***************************************************************************)
EXTENDS Integers, FiniteSets

CONSTANTS
    Reports,        \* audits.id
    Orders,         \* checkout_orders.id, numbered in the order of created_at
    MaxReserved,    \* bound: rows the buyer's clicks may create
    Sessions,       \* Checkout sessions at Stripe; each has one PaymentIntent
    Codes,          \* access codes
    PackCode,       \* the code derived from a paid session (payments.pack_code)
    PlansOnSale,    \* "single", and "pack" while a pack price is set
    Langs,          \* report languages; part of the reuse slot
    Countries,      \* the approved billing countries
    Clicks,         \* concurrent checkout requests
    Hooks,          \* concurrent runs of fulfil: webhook threads, return pages
    SecondSessions, \* may Stripe open a second session for an order's metadata?
    PayUnattached,  \* may a session be paid before its order has it?
    None            \* no order, no session, no report, no reference

Plans == {"single", "pack"}
PackCredits == 2

ASSUME SetsAssumption ==
    /\ Orders \subseteq Nat /\ IsFiniteSet(Orders)
    /\ MaxReserved \in Nat
    /\ PlansOnSale \subseteq Plans
    /\ None \notin Reports \cup Orders \cup Sessions \cup Codes \cup Countries
    /\ Sessions \cap Codes = {}
    /\ SecondSessions \in BOOLEAN /\ PayUnattached \in BOOLEAN

\* payments.pack_code is an HMAC of the session id: no two sessions share one.
ASSUME PackCodeAssumption ==
    /\ PackCode \in [Sessions -> Codes]
    /\ \A s, t \in Sessions : PackCode[s] = PackCode[t] => s = t

VARIABLES
    order,    \* checkout_orders joined with checkout_order_markets
    slot,     \* checkout_slots: the reusable order of a report, plan, language
    unlock,   \* audits.stripe_session_id of a paid report, None while unpaid
    deleted,  \* reports whose row delete_audit removed
    code,     \* access_codes
    link,     \* stripe_payment_intents: the order a session's PaymentIntent paid
    refused,  \* refused_payments
    stripe,   \* what Stripe knows of each session
    onPage,   \* the session the latest request handed to the report's buyer again
    click,    \* where each checkout request is
    hook      \* where each run of fulfil is

db == <<order, slot, unlock, deleted, code, link, refused>>
vars == <<order, slot, unlock, deleted, code, link, refused, stripe, onPage, click, hook>>

------------------------------------------------------------------------------
Statuses == {"none", "creating", "open", "paid_review", "delivered", "duplicate"}

OrderRow ==
    [status : Statuses, report : Reports \cup {None}, plan : Plans,
     session : Sessions \cup {None}, url : BOOLEAN, live : BOOLEAN,
     charged : BOOLEAN, country : Countries \cup {None},
     billing : Countries \cup {None}]

Slots == Reports \X Plans \X Langs

CodeRow == [credits : Nat, used : Nat, disabled : BOOLEAN]

\* A session's metadata is frozen when it is created; "expired" is Stripe's own
\* timeout, "closed" an expiry this service asked for.
SessionRow ==
    [state : {"none", "open", "paid", "expired", "closed"},
     order : Orders \cup {None}, report : Reports \cup {None}, plan : Plans,
     billing : Countries \cup {None}, full : BOOLEAN]

ClickState ==
    [pc : {"idle", "create", "read", "write", "list", "expire", "mark"},
     report : Reports \cup {None}, order : Orders \cup {None},
     session : Sessions \cup {None},
     seen : Statuses, todo : SUBSET (Orders \X Sessions)]

HookState ==
    [pc : {"idle", "settle", "review", "market"},
     session : Sessions \cup {None}, order : Orders \cup {None}]

NoRow == [status |-> "none", report |-> None, plan |-> "single", session |-> None,
          url |-> FALSE, live |-> FALSE, charged |-> FALSE, country |-> None,
          billing |-> None]
NoCode == [credits |-> 0, used |-> 0, disabled |-> FALSE]
NoStripeSession == [state |-> "none", order |-> None, report |-> None,
                    plan |-> "single", billing |-> None, full |-> TRUE]
IdleClick == [pc |-> "idle", report |-> None, order |-> None, session |-> None,
              seen |-> "none", todo |-> {}]
IdleHook == [pc |-> "idle", session |-> None, order |-> None]

Init ==
    /\ order = [o \in Orders |-> NoRow]
    /\ slot = [x \in Slots |-> None]
    /\ unlock = [r \in Reports |-> None]
    /\ deleted = {}
    /\ code = [c \in Codes |-> NoCode]
    /\ link = [s \in Sessions |-> None]
    /\ refused = {}
    /\ stripe = [s \in Sessions |-> NoStripeSession]
    /\ onPage = [r \in Reports |-> None]
    /\ click = [k \in Clicks |-> IdleClick]
    /\ hook = [h \in Hooks |-> IdleHook]

------------------------------------------------------------------------------
(* Rows.                                                                   *)

Used == {o \in Orders : order[o].status # "none"}

\* The next order id: rows are numbered as they are created.
Fresh(o) ==
    /\ order[o].status = "none"
    /\ \A p \in Orders : p < o => order[p].status # "none"

Unpaid(r) == r \notin deleted /\ unlock[r] = None

\* has_checkout_review
UnderReview(r) == \E o \in Orders : order[o].report = r /\ order[o].status = "paid_review"

\* An unpaid order whose session can still be handed out again.
Reusable(o) == order[o].status \in {"creating", "open"} /\ order[o].live

Usable(c) == ~code[c].disabled /\ code[c].used < code[c].credits

PackCodes == {PackCode[s] : s \in Sessions}

------------------------------------------------------------------------------
(* POST /audits/{id}/checkout.                                             *)

\* reserve_checkout refuses a paid or removed report and one under review.
CanSell(r) == Unpaid(r) /\ ~UnderReview(r)

\* What reserve_checkout returns to the request.
Creating(r, o) == [IdleClick EXCEPT !.pc = "create", !.report = r, !.order = o]

\* The slot's order is still usable and for the same country: reuse it.  With a
\* session attached the buyer is redirected to it at once.
ReuseOrder(k, r, p, l, c) ==
    LET o == slot[<<r, p, l>>] IN
    /\ click[k].pc = "idle"
    /\ CanSell(r)
    /\ o # None
    /\ Reusable(o)
    /\ order[o].country = c
    /\ IF order[o].url
       THEN /\ onPage' = [onPage EXCEPT ![r] = order[o].session]
            /\ UNCHANGED click
       ELSE /\ click' = [click EXCEPT ![k] = Creating(r, o)]
            /\ onPage' = [onPage EXCEPT ![r] = None]
    /\ UNCHANGED <<db, stripe, hook>>

\* No order to reuse: freeze a new one and point the slot at it.
NewOrder(k, r, p, l, c) ==
    LET old == slot[<<r, p, l>>] IN
    /\ click[k].pc = "idle"
    /\ CanSell(r)
    /\ old # None => ~Reusable(old)
    /\ Cardinality(Used) < MaxReserved
    /\ \E o \in Orders :
        /\ Fresh(o)
        /\ order' = [order EXCEPT ![o] =
             [NoRow EXCEPT !.status = "creating", !.report = r, !.plan = p,
                           !.live = TRUE, !.country = c]]
        /\ slot' = [slot EXCEPT ![<<r, p, l>>] = o]
        /\ click' = [click EXCEPT ![k] = Creating(r, o)]
    /\ onPage' = [onPage EXCEPT ![r] = None]
    /\ UNCHANGED <<unlock, deleted, code, link, refused, stripe, hook>>

Reserve(k) ==
    \E r \in Reports, p \in PlansOnSale, l \in Langs, c \in Countries :
        ReuseOrder(k, r, p, l, c) \/ NewOrder(k, r, p, l, c)

\* Mutant of OpenSession: no idempotency key, so each request opens a session.
OpenSessionAnew(k) ==
    LET o == click[k].order IN
    /\ click[k].pc = "create"
    /\ \E s \in Sessions :
        /\ stripe[s].state = "none"
        /\ stripe' = [stripe EXCEPT ![s] =
             [NoStripeSession EXCEPT !.state = "open", !.order = o,
              !.report = click[k].report, !.plan = order[o].plan]]
        /\ click' = [click EXCEPT ![k].pc = "read", ![k].session = s]
    /\ UNCHANGED <<db, onPage, hook>>

\* The order id is Stripe's idempotency key: a second request for the same
\* order gets the session the first one made.
OpenSession(k) ==
    LET o == click[k].order
        made == {s \in Sessions : stripe[s].order = o} IN
    /\ click[k].pc = "create"
    /\ \E s \in Sessions :
        /\ IF made # {}
           THEN s \in made /\ UNCHANGED stripe
           ELSE /\ stripe[s].state = "none"
                /\ stripe' = [stripe EXCEPT ![s] =
                     [NoStripeSession EXCEPT !.state = "open", !.order = o,
                      !.report = click[k].report, !.plan = order[o].plan]]
        /\ click' = [click EXCEPT ![k].pc = "read", ![k].session = s]
    /\ UNCHANGED <<db, onPage, hook>>

\* attach_checkout_session, its SELECT: no lock is taken on the row.
AttachRead(k) ==
    LET row == order[click[k].order] IN
    /\ click[k].pc = "read"
    /\ click' = [click EXCEPT ![k] =
         IF row.session \in {None, click[k].session}
         THEN [click[k] EXCEPT !.pc = "write", !.seen = row.status]
         ELSE IdleClick]
    /\ UNCHANGED <<db, stripe, onPage, hook>>

Attached(o, s, seen) ==
    [order[o] EXCEPT !.session = s, !.url = TRUE,
                     !.live = (stripe[s].state # "expired"),
                     !.status = IF seen = "creating" THEN "open" ELSE @]

\* ... and its UPDATE, from the status the SELECT saw.  session_id is UNIQUE.
AttachWrite(k) ==
    LET o == click[k].order
        s == click[k].session
        taken == \E p \in Orders \ {o} : order[p].session = s IN
    /\ click[k].pc = "write"
    /\ IF taken
       THEN /\ click' = [click EXCEPT ![k] = IdleClick]
            /\ UNCHANGED order
       ELSE /\ order' = [order EXCEPT ![o] = Attached(o, s, click[k].seen)]
            /\ click' = [click EXCEPT ![k].pc = "list"]
    /\ UNCHANGED <<slot, unlock, deleted, code, link, refused, stripe, onPage, hook>>

------------------------------------------------------------------------------
(* After the redirect: expire_superseded.                                  *)

\* superseded_checkouts: open sessions of the same purchase, in another slot,
\* made no later than order o, once o has a page of its own.
Superseded(o) ==
    LET new == order[o] IN
    IF new.status # "open" \/ ~new.url \/ new.report = None THEN {}
    ELSE {x \in Orders \X Sessions :
            /\ x[1] # o
            /\ x[1] <= o
            /\ \E l \in Langs : slot[<<new.report, new.plan, l>>] = x[1]
            /\ order[x[1]].report = new.report
            /\ order[x[1]].plan = new.plan
            /\ order[x[1]].status = "open"
            /\ order[x[1]].session = x[2]
            /\ order[x[1]].live}

ListSuperseded(k) ==
    LET old == Superseded(click[k].order) IN
    /\ click[k].pc = "list"
    /\ click' = [click EXCEPT ![k] =
         IF old = {} THEN IdleClick ELSE [click[k] EXCEPT !.pc = "expire", !.todo = old]]
    /\ UNCHANGED <<db, stripe, onPage, hook>>

\* stripe_expire_session: Stripe closes an open session, confirms one that is
\* already over and refuses one that was paid.
ExpireSession(k) ==
    /\ click[k].pc = "expire"
    /\ \E x \in click[k].todo :
        LET s == x[2]
            rest == click[k].todo \ {x} IN
        IF stripe[s].state = "paid"
        THEN /\ click' = [click EXCEPT ![k] =
                  IF rest = {} THEN IdleClick ELSE [click[k] EXCEPT !.todo = rest]]
             /\ UNCHANGED stripe
        ELSE /\ stripe' = [stripe EXCEPT ![s].state = IF @ = "open" THEN "closed" ELSE @]
             /\ click' = [click EXCEPT ![k] =
                  [@ EXCEPT !.pc = "mark", !.order = x[1], !.session = s, !.todo = rest]]
    /\ UNCHANGED <<db, onPage, hook>>

\* mark_checkout_expired: only an order still open with that session.
MarkExpired(k) ==
    LET o == click[k].order IN
    /\ click[k].pc = "mark"
    /\ order' = [order EXCEPT ![o].live =
         IF order[o].status = "open" /\ order[o].session = click[k].session THEN FALSE ELSE @]
    /\ click' = [click EXCEPT ![k] =
         IF click[k].todo = {} THEN IdleClick ELSE [click[k] EXCEPT !.pc = "expire"]]
    /\ UNCHANGED <<slot, unlock, deleted, code, link, refused, stripe, onPage, hook>>

\* The request ends early: Stripe fails, the hourly expiry limit is reached,
\* the process stops.  What it committed stays.
ClickDies(k) ==
    /\ click[k].pc # "idle"
    /\ click' = [click EXCEPT ![k] = IdleClick]
    /\ UNCHANGED <<db, stripe, onPage, hook>>

------------------------------------------------------------------------------
(* payments.fulfil: one run of it per webhook delivery or return page.      *)

\* Mutant of Refusal: the amount is not compared with the price.
RefusalAnyAmount(s) ==
    \/ stripe[s].report \in deleted
    \/ stripe[s].order # None /\ order[stripe[s].order].report # stripe[s].report

\* Why a paid session is refused before anything is written: the report is
\* gone, the order was cleared with it, or the payment is below the price.
Refusal(s) ==
    \/ stripe[s].report \in deleted
    \/ stripe[s].order # None /\ order[stripe[s].order].report # stripe[s].report
    \/ ~stripe[s].full

\* The billing country is not the one declared at checkout.
OutsideMarket(s) ==
    stripe[s].order # None /\ stripe[s].billing # order[stripe[s].order].country

\* Mutants of Fulfil: an event of an unpaid session is fulfilled; a refused charge
\* is not recorded.
FulfilUnpaid(h, s) ==
    /\ hook[h].pc = "idle"
    /\ stripe[s].state # "none" /\ ~Refusal(s)
    /\ hook' = [hook EXCEPT ![h] =
         [pc |-> IF OutsideMarket(s) THEN "review" ELSE "settle", session |-> s, order |-> None]]
    /\ UNCHANGED <<db, stripe, onPage, click>>

FulfilSilently(h, s) ==
    /\ hook[h].pc = "idle"
    /\ stripe[s].state = "paid" /\ ~Refusal(s)
    /\ hook' = [hook EXCEPT ![h] =
         [pc |-> IF OutsideMarket(s) THEN "review" ELSE "settle", session |-> s, order |-> None]]
    /\ UNCHANGED <<db, stripe, onPage, click>>

Fulfil(h, s) ==
    /\ hook[h].pc = "idle"
    /\ stripe[s].state = "paid"
    /\ IF Refusal(s)
       THEN refused' = refused \cup {s} /\ UNCHANGED hook
       ELSE /\ hook' = [hook EXCEPT ![h] =
                 [pc |-> IF OutsideMarket(s) THEN "review" ELSE "settle",
                  session |-> s, order |-> None]]
            /\ UNCHANGED refused
    /\ UNCHANGED <<order, slot, unlock, deleted, code, link, stripe, onPage, click>>

\* The row a paid session is recorded on: its own, else its order while that
\* has no session, else a new one.
RecordedOn(s, o) ==
    \/ order[o].session = s
    \/ /\ \A p \in Orders : order[p].session # s
       /\ IF stripe[s].order # None /\ order[stripe[s].order].session = None
          THEN o = stripe[s].order
          ELSE Fresh(o)

\* The row settle_card_payment locks, or the one it has just inserted.
PaidRow(s, o) ==
    IF order[o].status = "none"
    THEN [NoRow EXCEPT !.status = "creating", !.report = stripe[s].report,
                       !.plan = stripe[s].plan, !.session = s]
    ELSE order[o]

\* record_payment_intent_in_tx: a PaymentIntent pays one order.
LinkAgrees(s, o) == link[s] \in {None, o}

Disagrees(s, o) ==
    \/ PaidRow(s, o).report # stripe[s].report
    \/ PaidRow(s, o).plan # stripe[s].plan
    \/ ~LinkAgrees(s, o)

\* links.order_id is UNIQUE: another PaymentIntent on the row fails the run.
LinkTaken(s, o) == \E t \in Sessions \ {s} : link[t] = o

\* Mutant of Outcome: a report something else unlocked is delivered again.
OutcomeAlwaysDelivers(s, o) ==
    IF order[o].status = "duplicate" THEN "duplicate" ELSE "delivered"

\* What the charge becomes.  A report it already unlocked stays delivered; one
\* that something else unlocked, or that is gone, makes it a duplicate.
Outcome(s, o) ==
    LET r == stripe[s].report IN
    CASE order[o].status = "delivered" -> "delivered"
      [] r \notin deleted /\ unlock[r] = s -> "delivered"
      [] order[o].status = "duplicate" -> "duplicate"
      [] OTHER -> IF Unpaid(r) THEN "delivered" ELSE "duplicate"

SettledRow(s, o) ==
    IF order[o].status \in {"delivered", "duplicate"}
    THEN [order[o] EXCEPT !.status = Outcome(s, o)]
    ELSE [PaidRow(s, o) EXCEPT !.status = Outcome(s, o), !.session = s, !.charged = TRUE]

\* ensure_pack: the session's code gets its two credits once.
EnsurePack(s) ==
    IF code[PackCode[s]].credits = 0
    THEN [code EXCEPT ![PackCode[s]] = [NoCode EXCEPT !.credits = PackCredits]]
    ELSE code

\* Mutant of Delivers: a second charge counts as a delivery.
DeliversDuplicates(s, o) == order[o].status # "delivered"

Delivers(s, o) == order[o].status # "delivered" /\ Outcome(s, o) = "delivered"

\* settle_card_payment: record the charge, unlock the report if it is unpaid,
\* grant the pack and link the PaymentIntent, in one transaction.
Settle(h) ==
    LET s == hook[h].session
        r == stripe[s].report IN
    /\ hook[h].pc = "settle"
    /\ \E o \in Orders :
        /\ RecordedOn(s, o)
        /\ IF Disagrees(s, o)
           THEN /\ refused' = refused \cup {s}
                /\ hook' = [hook EXCEPT ![h] = IdleHook]
                /\ UNCHANGED <<order, unlock, code, link>>
           ELSE /\ ~LinkTaken(s, o)
                /\ order' = [order EXCEPT ![o] = SettledRow(s, o)]
                /\ unlock' = IF Delivers(s, o) /\ Unpaid(r)
                             THEN [unlock EXCEPT ![r] = s] ELSE unlock
                /\ code' = IF Delivers(s, o) /\ stripe[s].plan = "pack"
                           THEN EnsurePack(s) ELSE code
                /\ link' = [link EXCEPT ![s] = o]
                /\ hook' = [hook EXCEPT ![h] =
                     IF stripe[s].order = None THEN IdleHook
                     ELSE [pc |-> "market", session |-> s, order |-> o]]
                /\ UNCHANGED refused
    /\ UNCHANGED <<slot, deleted, stripe, onPage, click>>

\* record_checkout_market: the countries of the order that was settled.
RecordMarket(h) ==
    LET s == hook[h].session IN
    /\ hook[h].pc = "market"
    /\ order' = [order EXCEPT ![hook[h].order] =
         [@ EXCEPT !.country = order[stripe[s].order].country,
                   !.billing = stripe[s].billing]]
    /\ hook' = [hook EXCEPT ![h] = IdleHook]
    /\ UNCHANGED <<slot, unlock, deleted, code, link, refused, stripe, onPage, click>>

\* The row record_market_review holds the charge on.
ReviewRow(s, o) ==
    LET row == IF order[o].status = "none"
               THEN [NoRow EXCEPT !.report = stripe[s].report, !.plan = stripe[s].plan,
                                  !.country = order[stripe[s].order].country]
               ELSE order[o] IN
    [row EXCEPT !.status = "paid_review", !.session = s, !.charged = TRUE,
                !.billing = stripe[s].billing]

\* record_market_review: hold the charge for the owner, unless it was already
\* delivered or recorded as a second charge.
HoldForReview(h) ==
    LET s == hook[h].session IN
    /\ hook[h].pc = "review"
    /\ order[stripe[s].order].report = stripe[s].report
    /\ \E o \in Orders :
        /\ RecordedOn(s, o)
        /\ LinkAgrees(s, o) /\ ~LinkTaken(s, o)
        /\ IF order[o].status \in {"delivered", "duplicate"}
           THEN UNCHANGED <<order, refused>>
           ELSE /\ order' = [order EXCEPT ![o] = ReviewRow(s, o)]
                /\ refused' = refused \cup {s}
        /\ link' = [link EXCEPT ![s] = o]
    /\ hook' = [hook EXCEPT ![h] = IdleHook]
    /\ UNCHANGED <<slot, unlock, deleted, code, stripe, onPage, click>>

\* The run ends before its transaction commits: the process stops, the database
\* refuses the transaction (a lost lock order, a unique key, a missing row).
\* Stripe delivers the event again.
HookDies(h) ==
    /\ hook[h].pc # "idle"
    /\ hook' = [hook EXCEPT ![h] = IdleHook]
    /\ UNCHANGED <<db, stripe, onPage, click>>

------------------------------------------------------------------------------
(* Access codes, deletion, and what happens at Stripe.                      *)

\* create_access_code: an owner's code of one credit.
CreateCode(c) ==
    /\ c \notin PackCodes
    /\ code[c].credits = 0
    /\ code' = [code EXCEPT ![c] = [NoCode EXCEPT !.credits = 1]]
    /\ UNCHANGED <<order, slot, unlock, deleted, link, refused, stripe, onPage, click, hook>>

\* disable_access_code
DisableCode(c) ==
    /\ code[c].credits > 0 /\ ~code[c].disabled
    /\ code' = [code EXCEPT ![c].disabled = TRUE]
    /\ UNCHANGED <<order, slot, unlock, deleted, link, refused, stripe, onPage, click, hook>>

\* Mutants of Redeem: one of its two UPDATEs without its condition.
RedeemPaid(r, c) ==
    /\ r \notin deleted
    /\ Usable(c)
    /\ code' = [code EXCEPT ![c].used = @ + 1]
    /\ unlock' = [unlock EXCEPT ![r] = c]
    /\ UNCHANGED <<order, slot, deleted, link, refused, stripe, onPage, click, hook>>

RedeemSpent(r, c) ==
    /\ Unpaid(r)
    /\ code[c].credits > 0 /\ ~code[c].disabled
    /\ code' = [code EXCEPT ![c].used = @ + 1]
    /\ unlock' = [unlock EXCEPT ![r] = c]
    /\ UNCHANGED <<order, slot, deleted, link, refused, stripe, onPage, click, hook>>

\* redeem_for_audit / redeem_with_account: both conditions are in the UPDATEs.
Redeem(r, c) ==
    /\ Unpaid(r)
    /\ Usable(c)
    /\ code' = [code EXCEPT ![c].used = @ + 1]
    /\ unlock' = [unlock EXCEPT ![r] = c]
    /\ UNCHANGED <<order, slot, deleted, link, refused, stripe, onPage, click, hook>>

\* delete_audit: the report goes, its orders stay for accounting without it.
DeleteReport(r) ==
    /\ r \notin deleted
    /\ deleted' = deleted \cup {r}
    /\ order' = [o \in Orders |-> IF order[o].report = r
                                  THEN [order[o] EXCEPT !.report = None, !.url = FALSE]
                                  ELSE order[o]]
    /\ slot' = [x \in Slots |-> IF x[1] = r THEN None ELSE slot[x]]
    /\ UNCHANGED <<unlock, code, link, refused, stripe, onPage, click, hook>>

\* The buyer pays a session that is open, from some country.  The service shows
\* the page once the order has the session; fulfil also takes one paid earlier.
Pay(s, c) ==
    /\ stripe[s].state = "open"
    /\ \/ PayUnattached \/ SecondSessions
       \/ \E o \in Orders : order[o].session = s
    /\ stripe' = [stripe EXCEPT ![s].state = "paid", ![s].billing = c]
    /\ UNCHANGED <<db, onPage, click, hook>>

SessionTimesOut(s) ==
    /\ stripe[s].state = "open"
    /\ stripe' = [stripe EXCEPT ![s].state = "expired"]
    /\ UNCHANGED <<db, onPage, click, hook>>

\* expires_at passes.
OrderTimesOut(o) ==
    /\ order[o].live
    /\ order' = [order EXCEPT ![o].live = FALSE]
    /\ UNCHANGED <<slot, unlock, deleted, code, link, refused, stripe, onPage, click, hook>>

\* A Payment Link of an older deployment: no order, and the report's id is
\* whatever the link's address says, so the amount may be another product's.
OpenPaymentLink(s, r, p, full) ==
    /\ SecondSessions
    /\ stripe[s].state = "none"
    /\ stripe' = [stripe EXCEPT ![s] = [NoStripeSession EXCEPT
                    !.state = "open", !.report = r, !.plan = p, !.full = full]]
    /\ UNCHANGED <<db, onPage, click, hook>>

\* Stripe's idempotency window is finite: past it an order's metadata can be on
\* a second session.  No request is still working on the order by then.
OpenSecondSession(s, o) ==
    /\ SecondSessions
    /\ stripe[s].state = "none"
    /\ order[o].session # None
    /\ \A k \in Clicks : click[k].order # o
    /\ \E t \in Sessions :
        /\ stripe[t].order = o
        /\ stripe' = [stripe EXCEPT ![s] = [NoStripeSession EXCEPT
             !.state = "open", !.order = o, !.report = stripe[t].report,
             !.plan = stripe[t].plan]]
    /\ UNCHANGED <<db, onPage, click, hook>>

------------------------------------------------------------------------------
CheckoutStep(k) ==
    \/ Reserve(k) \/ OpenSession(k) \/ AttachRead(k) \/ AttachWrite(k)
    \/ ListSuperseded(k) \/ ExpireSession(k) \/ MarkExpired(k) \/ ClickDies(k)

FulfilStep(h) ==
    \/ \E s \in Sessions : Fulfil(h, s)
    \/ Settle(h) \/ RecordMarket(h) \/ HoldForReview(h) \/ HookDies(h)

CodeStep ==
    \/ \E c \in Codes : CreateCode(c) \/ DisableCode(c)
    \/ \E r \in Reports, c \in Codes : Redeem(r, c)

StripeStep ==
    \/ \E s \in Sessions, c \in Countries : Pay(s, c)
    \/ \E s \in Sessions : SessionTimesOut(s)
    \/ \E s \in Sessions, r \in Reports, p \in PlansOnSale, full \in BOOLEAN :
          OpenPaymentLink(s, r, p, full)
    \/ \E s \in Sessions, o \in Orders : OpenSecondSession(s, o)

Next ==
    \/ \E k \in Clicks : CheckoutStep(k)
    \/ \E h \in Hooks : FulfilStep(h)
    \/ CodeStep
    \/ \E r \in Reports : DeleteReport(r)
    \/ \E o \in Orders : OrderTimesOut(o)
    \/ StripeStep

Spec == Init /\ [][Next]_vars
------------------------------------------------------------------------------
(* Fairness: a run of fulfil ends, and Stripe delivers the event of a paid   *)
(* session again until one run for it gets through, so a run that keeps      *)
(* being stopped before its transaction commits is not stopped for ever.     *)
(* Nothing else needs to happen: a buyer need not pay, a click may die.      *)

Ends(h) == Settle(h) \/ RecordMarket(h) \/ HoldForReview(h) \/ HookDies(h)
Records(h, s) == hook[h].session = s /\ (Settle(h) \/ HoldForReview(h))

Fairness ==
    /\ \A h \in Hooks : WF_vars(Ends(h))
    /\ \A s \in Sessions :
        /\ SF_vars(\E h \in Hooks : Fulfil(h, s))
        /\ SF_vars(\E h \in Hooks : Records(h, s))

FairSpec == Spec /\ Fairness

------------------------------------------------------------------------------
(* Properties.                                                             *)

\* Every row has the columns its table declares and every request is at a
\* known point of its handler.
TypeOK ==
    /\ order \in [Orders -> OrderRow]
    /\ slot \in [Slots -> Orders \cup {None}]
    /\ unlock \in [Reports -> Sessions \cup Codes \cup {None}]
    /\ deleted \subseteq Reports
    /\ code \in [Codes -> CodeRow]
    /\ link \in [Sessions -> Orders \cup {None}]
    /\ refused \subseteq Sessions
    /\ stripe \in [Sessions -> SessionRow]
    /\ onPage \in [Reports -> Sessions \cup {None}]
    /\ click \in [Clicks -> ClickState]
    /\ hook \in [Hooks -> HookState]

\* "Deliver at most once" (settle_card_payment): however many sessions are paid
\* for a report and however often each is redelivered, one order is delivered,
\* and it is the one whose session the report names as its payment; a charge held
\* for the owner's review or recorded as a second charge has unlocked nothing.
DeliveredOnce ==
    \A o \in Orders :
        LET s == order[o].session IN
        /\ order[o].status = "delivered" =>
            /\ s # None
            /\ unlock[stripe[s].report] = s
            /\ \A p \in Orders \ {o} : order[p].session # s
        /\ order[o].status \in {"paid_review", "duplicate"} =>
            \A r \in Reports : unlock[r] # s

\* A report a card unlocked was paid in full, for that report, from the country
\* declared at checkout, and the charge is on an order (fulfil and its checks,
\* against orders cleared, replaced or settled in between).
UnlockIsPaid ==
    \A r \in Reports, s \in Sessions : unlock[r] = s =>
        /\ stripe[s].state = "paid" /\ stripe[s].full
        /\ stripe[s].report = r
        /\ ~OutsideMarket(s)
        /\ \E o \in Orders : order[o].session = s /\ order[o].charged

\* A credit is spent only when a report flips to paid, and never beyond the
\* code's total (redeem_for_audit, redeem_with_account, _redeem).
CreditsBalance ==
    \A c \in Codes :
        /\ code[c].used = Cardinality({r \in Reports : unlock[r] = c})
        /\ code[c].used <= code[c].credits

\* A pack's code exists exactly when its session unlocked the report it was
\* bought with: a duplicate or a held charge grants no credits, and a delivered
\* one is never left without them (ensure_pack).
PackGranted ==
    \A s \in Sessions :
        code[PackCode[s]].credits > 0 <=>
            \E r \in Reports : unlock[r] = s /\ stripe[s].plan = "pack"

\* A report is unlocked once: no later payment, credit, retry or deletion
\* replaces what paid for it.
UnlockIsFinal ==
    [][\A r \in Reports : unlock[r] # None => unlock'[r] = unlock[r]]_vars

\* A recorded charge stays on its order under its session for ever, also after
\* the report is deleted and when a slow checkout request writes the row late;
\* and a PaymentIntent points at the order that recorded its charge and no other,
\* so a refund is never booked on another one (record_payment_intent_in_tx).
ChargeIsKept ==
    [][/\ \A o \in Orders : order[o].charged =>
              order'[o].charged /\ order'[o].session = order[o].session
       /\ \A s \in Sessions : link'[s] # None =>
              order'[link'[s]].session = s /\ order'[link'[s]].charged]_vars

\* Whatever Stripe charged is recorded: on an order (delivered, duplicate or
\* under review) or as a refused payment the owner sees.
ChargeIsRecorded ==
    \A s \in Sessions :
        stripe[s].state = "paid" ~>
            s \in refused \/ \E o \in Orders : order[o].session = s /\ order[o].charged

\* A request that is under way names a report and an order, and a session once
\* it has opened one.
ClickOK ==
    \A k \in Clicks : click[k].pc # "idle" =>
        /\ click[k].report \in Reports /\ click[k].order \in Orders
        /\ click[k].pc # "create" => click[k].session \in Sessions

\* A run of fulfil that is under way holds a paid session, and an order where it
\* is going to read or write one.
HookOK ==
    \A h \in Hooks : hook[h].pc # "idle" =>
        LET s == hook[h].session IN
        /\ s \in Sessions /\ stripe[s].state = "paid"
        /\ hook[h].pc # "settle" => stripe[s].order \in Orders
        /\ hook[h].pc = "market" => hook[h].order \in Orders

\* A session that exists names a report; one that does not names no order.
SessionOK ==
    \A s \in Sessions :
        IF stripe[s].state = "none" THEN stripe[s].order = None
                                    ELSE stripe[s].report \in Reports

\* A charge unlocks only the report it was made for, once it is paid.
UnlockedByOwnCharge ==
    \A r \in Reports, s \in Sessions : unlock[r] = s =>
        stripe[s].state = "paid" /\ stripe[s].report = r

\* Only a code that exists can be disabled or have been used.
CodeOK ==
    \A c \in Codes : code[c].credits = 0 => ~code[c].disabled /\ code[c].used = 0

\* What every step preserves (CardPayments_proofs).
Inductive ==
    TypeOK /\ ClickOK /\ HookOK /\ SessionOK /\ UnlockedByOwnCharge /\ CodeOK /\ PackGranted

------------------------------------------------------------------------------
(* The payment code keeps the promise of Entitlement.                       *)

Promise == INSTANCE Entitlement WITH
    Charges <- Sessions,
    owner   <- unlock,
    issued  <- {c \in Codes : code[c].credits > 0},
    balance <- [c \in Codes |-> code[c].credits - code[c].used],
    void    <- {c \in Codes : code[c].disabled}

\* Every step of every request, redelivery and code is a step of Entitlement or
\* leaves it unchanged: one unlock per report, one report per charge, two pack
\* credits with the charge that unlocked, one credit per unlock.
KeepsPromise == Promise!Spec

------------------------------------------------------------------------------
(* What the code's comments say and a run refutes.                          *)

\* store.py, superseded_checkouts: "a slow older request never closes the
\* session the buyer moved on to".
CurrentPageStaysOpen ==
    [][\A r \in Reports, s \in Sessions :
          onPage[r] = s /\ stripe[s].state = "open" => stripe'[s].state # "closed"]_vars

\* A charge held by record_market_review for a report that is still unpaid.
Held(s) ==
    /\ link[s] # None
    /\ s \in refused
    /\ Unpaid(stripe[s].report)

\* store.py, has_checkout_review: "A charged audit awaiting operator resolution
\* must not be sold again": no order is created for it.
HeldIsNotSoldAgain ==
    [][\A s \in Sessions : Held(s) =>
          \A o \in Orders : ~(/\ order[o].status = "none"
                               /\ order'[o].status = "creating"
                               /\ order'[o].report = stripe[s].report)]_vars

==============================================================================
