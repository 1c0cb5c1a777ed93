---------------------------- MODULE AccountCredits ----------------------------
(***************************************************************************)
(* What puts credits on an account, and the account's deletion             *)
(* (audit/store.py, audit/payments.py, audit/web.py).  A card purchase is  *)
(* settled by any number of webhook deliveries; the first free report of   *)
(* an invited colleague rewards the inviter, within a monthly cap and a    *)
(* shared budget; an access code is put on an account by its holder, or by *)
(* the card payment of a report.  delete_account removes the account       *)
(* meanwhile.                                                              *)
(*                                                                         *)
(* The engine runs at READ COMMITTED.  A transaction that others can       *)
(* interleave with is split at the statements where they can: what it      *)
(* wrote is kept in `reward` or `erase` until it commits, and whoever needs*)
(* a row or a unique key it holds waits.  One calendar month.              *)
(***************************************************************************)
EXTENDS Integers, FiniteSets

CONSTANTS
    Accounts,     \* accounts.id
    Invitees,     \* the accounts that sign up through an invite link
    InviterOf,    \* whose link it is
    Orders,       \* credit orders of "My account"
    BuyerOf,      \* whose order it is
    Sessions,     \* Checkout sessions
    OrderOf,      \* the order a session was opened for
    Codes,        \* access codes that end up on an account in another way
    Runs,         \* webhook deliveries and return pages at work
    MonthlyCap,   \* REFERRAL_MONTHLY_CAP: 5 in the code
    Budget,       \* referral_global_monthly_cap: 100 by default
    Early,        \* bound: accounts that signed up and confirmed at the start
    Rewarded,     \* bound: invitees, one per inviter, perhaps credited at the start
    Leavers,      \* bound: accounts that are ever deleted
    MaxDeaths,    \* bound: requests about an invite that die
    None

ASSUME AccountSets ==
    /\ Invitees \subseteq Accounts /\ InviterOf \in [Invitees -> Accounts \ Invitees]
    /\ BuyerOf \in [Orders -> Accounts] /\ OrderOf \in [Sessions -> Orders]
    /\ MonthlyCap \in Nat /\ Budget \in Nat
    /\ Rewarded \subseteq Early /\ Early \subseteq Accounts
    /\ Rewarded \subseteq Invitees /\ IsFiniteSet(Rewarded) /\ Cardinality(Rewarded) <= Budget
    /\ \A i, j \in Rewarded : InviterOf[i] = InviterOf[j] => i = j
    /\ Rewarded # {} => MonthlyCap > 0
    /\ Leavers \subseteq Accounts /\ MaxDeaths \in Nat
    /\ None \notin Sessions /\ Sessions \cap (Invitees \cup Codes) = {}

VARIABLES
    account,    \* accounts: new, open or gone
    erase,      \* delete_account's transaction: how far it is and what it found
    links,      \* account_codes
    confirmed,  \* verified_emails that match the account's address
    welcomed,   \* the invitees that have their free first report
    invite,     \* referrals
    asked,      \* invitees a request is about to look at
    reward,     \* reward_referral's transaction for an invitee
    dropped,    \* invitees whose request died before it decided
    budget,     \* referral_global_slots
    granted,    \* credit_grants of the origins purchase and referral
    order,      \* checkout_orders: the session a credit order has, None before
    detached,   \* orders whose account_id was cleared
    paid,       \* sessions the buyer paid, with whether the country is approved
    outcome,    \* what the order of a paid session says of it
    refused,    \* refused_payments
    run         \* payments._fulfil_credits, per run

people == <<account, erase, links>>
invites == <<confirmed, welcomed, invite, asked, reward, dropped, budget>>
sales == <<order, detached, paid, outcome, refused, run>>
vars == <<people, invites, sales, granted>>

Slots == 0..(MonthlyCap - 1)
BudgetSlots == 0..(Budget - 1)

Grants == Invitees \cup Sessions
Linkable == Grants \cup Codes

Invite == [outcome : {"none", "pending", "credited", "self", "cap", "budget", "gone"},
           slot : Slots \cup {-1}]
Reward == [pc : {"none", "slot", "budget", "commit"},
           outcome : {"", "credited", "self", "cap", "budget"},
           slot : Slots \cup {-1}, budget : BudgetSlots \cup {-1}]
Erase == [pc : {"no", "orders", "codes", "invites"},
          links : SUBSET (Linkable \X Accounts), rows : SUBSET Invitees]

NoReward == [pc |-> "none", outcome |-> "", slot |-> -1, budget |-> -1]
NoErase == [pc |-> "no", links |-> {}, rows |-> {}]
NoRun == [pc |-> "idle", session |-> None]

Init ==
    /\ account = [a \in Accounts |-> IF a \in Invitees \ Early THEN "new" ELSE "open"]
    /\ erase = [a \in Accounts |-> NoErase]
    /\ confirmed = Early /\ asked = {} /\ dropped = {}
    /\ reward = [i \in Invitees |-> NoReward]
    /\ \E done \in SUBSET Rewarded :
        /\ invite = [i \in Invitees |->
              [outcome |-> IF i \in done THEN "credited"
                           ELSE IF i \in Early \ Rewarded THEN "pending" ELSE "none",
               slot |-> IF i \in done THEN 0 ELSE -1]]
        /\ welcomed = Rewarded /\ granted = done
        /\ links = {<<i, InviterOf[i]>> : i \in done}
        /\ budget = 0..(Cardinality(done) - 1)
    /\ order = [o \in Orders |-> None] /\ detached = {}
    /\ paid = [s \in Sessions |-> "no"]
    /\ outcome = [s \in Sessions |-> "none"]
    /\ refused = {}
    /\ run = [r \in Runs |-> NoRun]

Open(a) == account[a] = "open"

\* The rows of referrals that delete_account removed and has not committed.
Erasing(i) == \E a \in Accounts : erase[a].pc = "invites" /\ i \in erase[a].rows

------------------------------------------------------------------------------
(* Invites.                                                                 *)

\* A colleague signs up; record_referral finds the inviter's account or notes nothing.
Join(i) ==
    /\ account[i] = "new"
    /\ account' = [account EXCEPT ![i] = "open"]
    /\ invite' = IF Open(InviterOf[i]) THEN [invite EXCEPT ![i].outcome = "pending"] ELSE invite
    /\ UNCHANGED <<erase, links, confirmed, welcomed, asked, reward, dropped, budget, granted, sales>>

\* grant_welcome committed; _reward_invite comes next in the same request.
Welcome(i) ==
    /\ Open(i) /\ i \notin welcomed
    /\ welcomed' = welcomed \cup {i}
    /\ asked' = asked \cup {i}
    /\ UNCHANGED <<people, confirmed, invite, reward, dropped, budget, granted, sales>>

\* The invites an account has a part in.
InvitesOf(a) == {i \in Invitees : a \in {i, InviterOf[i]}}

\* Mutant of Confirm: only the invitee's own confirmation looks at its invite.
ConfirmOwn(a) ==
    /\ Open(a) /\ a \notin confirmed
    /\ confirmed' = confirmed \cup {a}
    /\ asked' = asked \cup ({a} \cap Invitees)
    /\ UNCHANGED <<people, welcomed, invite, reward, dropped, budget, granted, sales>>

\* confirm_email_challenge committed; _settle_confirmed_invites comes next.
Confirm(a) ==
    /\ Open(a) /\ a \notin confirmed
    /\ confirmed' = confirmed \cup {a}
    /\ asked' = asked \cup InvitesOf(a)
    /\ UNCHANGED <<people, welcomed, invite, reward, dropped, budget, granted, sales>>

\* email_referral_candidates, and both addresses confirmed.
Ready(i) ==
    /\ invite[i].outcome = "pending" /\ i \in welcomed
    /\ {i, InviterOf[i]} \subseteq confirmed

\* _reward_invite: not ready, or reward_referral claims the row.  It waits for a
\* transaction that holds the row, and finds no pending invite after it.
Claim(i) ==
    /\ i \in asked
    /\ reward[i].pc = "none" /\ ~Erasing(i)
    /\ asked' = asked \ {i}
    /\ IF Ready(i)
       THEN \E same \in BOOLEAN :   \* a browser of the inviter
              reward' = [reward EXCEPT ![i] =
                  IF same THEN [NoReward EXCEPT !.pc = "commit", !.outcome = "self"]
                  ELSE [NoReward EXCEPT !.pc = "slot"]]
       ELSE UNCHANGED reward
    /\ UNCHANGED <<people, confirmed, welcomed, invite, dropped, budget, granted, sales>>

\* The first key that no committed row has.
FirstFree(keys, taken) ==
    IF keys \subseteq taken THEN -1
    ELSE CHOOSE n \in keys \ taken : \A m \in keys \ taken : n <= m

Colleagues(i) == {j \in Invitees : InviterOf[j] = InviterOf[i]}
Rows == {j \in Invitees : invite[j].outcome \notin {"none", "gone"}}
SlotsTaken(i) == {invite[j].slot : j \in Colleagues(i) \cap Rows}
SlotsHeld(i) == {reward[j].slot : j \in Colleagues(i) \ {i}}
BudgetHeld(i) == {reward[j].budget : j \in Invitees \ {i}}

\* Mutant of TakeSlot: every transaction counts the committed rows for itself.
TakeSlotCounting(i) ==
    /\ reward[i].pc = "slot"
    /\ LET n == FirstFree(Slots, SlotsTaken(i)) IN
       reward' = [reward EXCEPT ![i] =
           IF n = -1 THEN [@ EXCEPT !.pc = "commit", !.outcome = "cap"]
           ELSE [@ EXCEPT !.pc = "budget", !.slot = n]]
    /\ UNCHANGED <<people, confirmed, welcomed, invite, asked, dropped, budget, granted, sales>>

\* The inviter's slot of the month: a unique key, taken in a savepoint.  A key that
\* another open transaction holds is waited for.
TakeSlot(i) ==
    /\ reward[i].pc = "slot"
    /\ LET n == FirstFree(Slots, SlotsTaken(i)) IN
       /\ n = -1 \/ n \notin SlotsHeld(i)
       /\ reward' = [reward EXCEPT ![i] =
              IF n = -1 THEN [@ EXCEPT !.pc = "commit", !.outcome = "cap"]
              ELSE [@ EXCEPT !.pc = "budget", !.slot = n]]
    /\ UNCHANGED <<people, confirmed, welcomed, invite, asked, dropped, budget, granted, sales>>

\* A slot of the shared budget; a full one gives the inviter's slot back.
TakeBudget(i) ==
    /\ reward[i].pc = "budget"
    /\ LET n == FirstFree(BudgetSlots, budget) IN
       /\ n = -1 \/ n \notin BudgetHeld(i)
       /\ reward' = [reward EXCEPT ![i] =
              IF n = -1 THEN [@ EXCEPT !.pc = "commit", !.outcome = "budget", !.slot = -1]
              ELSE [@ EXCEPT !.pc = "commit", !.outcome = "credited", !.budget = n]]
    /\ UNCHANGED <<people, confirmed, welcomed, invite, asked, dropped, budget, granted, sales>>

\* The row, the slots, and for a credited invite the code and its link.
Decide(i) ==
    /\ reward[i].pc = "commit"
    /\ invite' = [invite EXCEPT ![i] = [outcome |-> reward[i].outcome, slot |-> reward[i].slot]]
    /\ IF reward[i].outcome = "credited"
       THEN /\ budget' = budget \cup {reward[i].budget}
            /\ granted' = granted \cup {i}
            /\ links' = links \cup {<<i, InviterOf[i]>>}
       ELSE UNCHANGED <<budget, granted, links>>
    /\ reward' = [reward EXCEPT ![i] = NoReward]
    /\ UNCHANGED <<account, erase, confirmed, welcomed, asked, dropped, sales>>

\* The process stops before the request looked at the invite, or in the transaction,
\* which is rolled back: _reward_invite logs an error and nothing tries again.
RewardDies(i) ==
    /\ i \in asked \/ reward[i].pc # "none"
    /\ Cardinality(dropped) < MaxDeaths
    /\ asked' = asked \ {i}
    /\ reward' = [reward EXCEPT ![i] = NoReward]
    /\ dropped' = dropped \cup {i}
    /\ UNCHANGED <<people, confirmed, welcomed, invite, budget, granted, sales>>

------------------------------------------------------------------------------
(* Codes put on an account in another way.                                  *)

\* link_code and ensure_pack: a code of no account, an account that was there when
\* the request looked.
LinkCode(c, a) ==
    /\ Open(a)
    /\ \A b \in Accounts : <<c, b>> \notin links
    /\ links' = links \cup {<<c, a>>}
    /\ UNCHANGED <<account, erase, invites, sales, granted>>

------------------------------------------------------------------------------
(* Credit purchases.                                                        *)

OnReview(a) == \E s \in Sessions : BuyerOf[OrderOf[s]] = a /\ outcome[s] = "review"

\* _buy_post: reserve, open a session, and attach it unless the request dies first.
Buy(s) ==
    LET o == OrderOf[s] IN
    /\ Open(BuyerOf[o]) /\ ~OnReview(BuyerOf[o]) /\ o \notin detached
    /\ paid[s] = "no" /\ order[o] = None
    /\ paid' = [paid EXCEPT ![s] = "open"]
    /\ order' \in {order, [order EXCEPT ![o] = s]}
    /\ UNCHANGED <<people, invites, detached, outcome, refused, run, granted>>

\* The buyer pays at Stripe, from an approved country or not.
Pay(s) ==
    /\ paid[s] = "open"
    /\ \E country \in {"approved", "other"} : paid' = [paid EXCEPT ![s] = country]
    /\ UNCHANGED <<people, invites, order, detached, outcome, refused, run, granted>>

\* _fulfil_credits up to its transaction.
Deliver(r, s) ==
    /\ run[r].pc = "idle"
    /\ paid[s] \in {"approved", "other"}
    /\ run' = [run EXCEPT ![r] =
           [pc |-> IF paid[s] = "approved" THEN "settle" ELSE "review", session |-> s]]
    /\ UNCHANGED <<people, invites, order, detached, paid, outcome, refused, granted>>

\* delete_account updated the order and has not committed: its row is locked.
Locked(o) == erase[BuyerOf[o]].pc # "no" /\ o \notin detached

Mine(s) == order[OrderOf[s]] \in {None, s}

\* What settle_credit_purchase asks before it writes: the account, and the order as
\* it was frozen.
Acceptable(s) == Open(BuyerOf[OrderOf[s]]) /\ OrderOf[s] \notin detached /\ Mine(s)

\* Mutant of Settle: the order's row is not locked.
SettleUnlocked(r) ==
    LET s == run[r].session  o == OrderOf[s] IN
    /\ run[r].pc = "settle"
    /\ Acceptable(s)
    /\ order' = [order EXCEPT ![o] = s]
    /\ outcome' = [outcome EXCEPT ![s] = "delivered"]
    /\ granted' = granted \cup {s}
    /\ links' = links \cup {<<s, BuyerOf[o]>>}
    /\ run' = [run EXCEPT ![r] = NoRun]
    /\ UNCHANGED <<account, erase, invites, detached, paid, refused>>

\* settle_credit_purchase, with the order's row locked: a repeated delivery finds it
\* delivered and grants nothing; a purchase it does not accept is refused after it.
Settle(r) ==
    LET s == run[r].session  o == OrderOf[s] IN
    /\ run[r].pc = "settle"
    /\ ~Locked(o)
    /\ \/ /\ ~Acceptable(s)
          /\ run' = [run EXCEPT ![r].pc = "refuse"]
          /\ UNCHANGED <<order, outcome, granted, links>>
       \/ /\ Acceptable(s)
          /\ order' = [order EXCEPT ![o] = s]
          /\ outcome' = [outcome EXCEPT ![s] = "delivered"]
          /\ IF outcome[s] = "delivered" THEN UNCHANGED <<granted, links>>
             ELSE /\ granted' = granted \cup {s}
                  /\ links' = links \cup {<<s, BuyerOf[o]>>}
          /\ run' = [run EXCEPT ![r] = NoRun]
    /\ UNCHANGED <<account, erase, invites, detached, paid, refused>>

\* record_market_review: the order, or a new one for a second session of it.
Review(r) ==
    LET s == run[r].session  o == OrderOf[s] IN
    /\ run[r].pc = "review"
    /\ ~Locked(o)
    /\ order' = IF Mine(s) THEN [order EXCEPT ![o] = s] ELSE order
    /\ outcome' = [outcome EXCEPT ![s] = "review"]
    /\ run' = [run EXCEPT ![r] = NoRun]
    /\ UNCHANGED <<people, invites, detached, paid, refused, granted>>

\* record_refused_payment, in a transaction of its own.
Refuse(r) ==
    /\ run[r].pc = "refuse"
    /\ refused' = refused \cup {run[r].session}
    /\ run' = [run EXCEPT ![r] = NoRun]
    /\ UNCHANGED <<people, invites, order, detached, paid, outcome, granted>>

RunDies(r) ==
    /\ run[r].pc # "idle"
    /\ run' = [run EXCEPT ![r] = NoRun]
    /\ UNCHANGED <<people, invites, order, detached, paid, outcome, refused, granted>>

------------------------------------------------------------------------------
(* delete_account, statement by statement.                                  *)

\* The account's orders.
EraseOrders(a) ==
    /\ Open(a) /\ erase[a].pc = "no" /\ a \in Leavers
    /\ erase' = [erase EXCEPT ![a].pc = "orders"]
    /\ UNCHANGED <<account, links, invites, sales, granted>>

\* The rows of account_codes it can see.
EraseCodes(a) ==
    /\ erase[a].pc = "orders"
    /\ erase' = [erase EXCEPT ![a].pc = "codes", ![a].links = {x \in links : x[2] = a}]
    /\ UNCHANGED <<account, links, invites, sales, granted>>

\* The rows of referrals, waiting for the rewards that hold them.
EraseInvites(a) ==
    /\ erase[a].pc = "codes"
    /\ \A i \in InvitesOf(a) : reward[i].pc = "none" /\ ~Erasing(i)
    /\ erase' = [erase EXCEPT ![a].pc = "invites", ![a].rows = InvitesOf(a) \cap Rows]
    /\ UNCHANGED <<account, links, invites, sales, granted>>

\* A decided invite of an account that leaves keeps its outcome and its slot.
Kept(i, a) == i = a /\ invite[i].outcome # "pending"

EraseCommit(a) ==
    /\ erase[a].pc = "invites"
    /\ account' = [account EXCEPT ![a] = "gone"]
    /\ links' = links \ erase[a].links
    /\ invite' = [i \in Invitees |->
                     IF i \in erase[a].rows /\ ~Kept(i, a)
                     THEN [outcome |-> "gone", slot |-> -1] ELSE invite[i]]
    /\ detached' = detached \cup {o \in Orders : BuyerOf[o] = a}
    /\ confirmed' = confirmed \ {a}
    /\ erase' = [erase EXCEPT ![a] = NoErase]
    /\ UNCHANGED <<welcomed, asked, reward, dropped, budget, order, paid, outcome, refused, run, granted>>

EraseDies(a) ==
    /\ erase[a].pc # "no"
    /\ erase' = [erase EXCEPT ![a] = NoErase]
    /\ UNCHANGED <<account, links, invites, sales, granted>>

------------------------------------------------------------------------------
Next ==
    \/ \E i \in Invitees : Join(i) \/ Welcome(i) \/ Claim(i) \/ TakeSlot(i) \/ TakeBudget(i)
                           \/ Decide(i) \/ RewardDies(i)
    \/ \E a \in Accounts : Confirm(a) \/ EraseOrders(a) \/ EraseCodes(a) \/ EraseInvites(a)
                           \/ EraseCommit(a) \/ EraseDies(a)
    \/ \E c \in Codes, a \in Accounts : LinkCode(c, a)
    \/ \E s \in Sessions : Buy(s) \/ Pay(s) \/ \E r \in Runs : Deliver(r, s)
    \/ \E r \in Runs : Settle(r) \/ Review(r) \/ Refuse(r) \/ RunDies(r)

Spec == Init /\ [][Next]_vars

------------------------------------------------------------------------------
(* Properties.                                                             *)

\* The tables and the open transactions have their columns.
TypeOK ==
    /\ account \in [Accounts -> {"new", "open", "gone"}]
    /\ erase \in [Accounts -> Erase]
    /\ links \subseteq Linkable \X Accounts
    /\ granted \subseteq Grants
    /\ confirmed \subseteq Accounts /\ welcomed \subseteq Invitees /\ asked \subseteq Invitees
    /\ dropped \subseteq Invitees
    /\ invite \in [Invitees -> Invite]
    /\ reward \in [Invitees -> Reward]
    /\ budget \subseteq BudgetSlots
    /\ order \in [Orders -> Sessions \cup {None}] /\ detached \subseteq Orders
    /\ paid \in [Sessions -> {"no", "open", "approved", "other"}]
    /\ outcome \in [Sessions -> {"none", "delivered", "review"}]
    /\ refused \subseteq Sessions
    /\ run \in [Runs -> [pc : {"idle", "settle", "review", "refuse"},
                         session : Sessions \cup {None}]]

\* A reward is all or nothing: the invite's row says credited exactly if the credit was
\* granted, each credit has its slot of the budget, and only a credited row keeps a slot
\* of the inviter's month (a full budget gave it back).
RewardIsWhole ==
    /\ \A i \in Invitees :
          /\ invite[i].outcome = "credited" => i \in granted
          /\ i \in granted => invite[i].outcome \in {"credited", "gone"}
          /\ (invite[i].slot # -1) = (invite[i].outcome = "credited")
    /\ Cardinality(budget) = Cardinality(granted \cap Invitees)

\* Simultaneous first reports, full months and colleagues that leave: an account is
\* never rewarded more often than the month's cap, nor all inviters together more
\* often than the shared budget; and every reward is whole.
RewardLimits ==
    LET rewards == granted \cap Invitees IN
    /\ TypeOK /\ RewardIsWhole
    /\ \A a \in Accounts :
          Open(a) => Cardinality({i \in rewards : InviterOf[i] = a}) <= MonthlyCap
    /\ Cardinality(rewards) <= Budget

\* record_refused_payment keeps "a charged payment that unlocked nothing": a session is
\* listed there although it was delivered only if its account was deleted meanwhile (the
\* delivery that Stripe repeats finds no account before it finds the order delivered).
RefusedUnlockedNothing ==
    \A s \in refused : outcome[s] # "review"
                       /\ (outcome[s] = "delivered" => ~Open(BuyerOf[OrderOf[s]]))

\* Bought credits are granted once per order, however often and by however many runs
\* its sessions are delivered, and they are on the buyer's account as long as there is
\* one: neither is an open account without them nor do they stay behind a deleted one, nor
\* is a payment that granted them listed as one that did not.
BoughtOnce ==
    /\ RefusedUnlockedNothing
    /\ \A o \in Orders : Cardinality({s \in granted \cap Sessions : OrderOf[s] = o}) <= 1
    /\ \A s \in granted \cap Sessions :
          (<<s, BuyerOf[OrderOf[s]]>> \in links) = Open(BuyerOf[OrderOf[s]])

\* The invite is looked at when the invitee's report exists, and again when either
\* address is confirmed, each time by a request that has committed its own part first:
\* whoever comes last sees the rest, so no invite that could be settled is forgotten,
\* unless the request that would settle it died.
NoInviteForgotten ==
    \A i \in Invitees :
        Ready(i) => i \in asked \cup dropped \/ reward[i].pc # "none"

------------------------------------------------------------------------------
(* What a docstring says and a run refutes.                                 *)

\* store.py, delete_account: "Remove an account, its sessions, reset links, links to
\* codes and column maps."  No code is linked to an account that is gone.
LinksHaveAccounts ==
    \A x \in links : account[x[2]] # "gone"

==============================================================================
