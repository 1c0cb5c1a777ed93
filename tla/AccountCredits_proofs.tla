------------------------ MODULE AccountCredits_proofs ------------------------
(***************************************************************************)
(* Proofs about AccountCredits, for any accounts, invites, orders, sessions*)
(* and codes, any caps and any number of deliveries: the unique slots keep *)
(* both caps of the rewards, bought credits arrive once, and no invite     *)
(* that could be settled is forgotten, whatever the deletion of an account *)
(* meets half done.                                                        *)
(***************************************************************************)
EXTENDS AccountCredits, FiniteSetTheorems, WellFoundedInduction, TLAPS

------------------------------------------------------------------------------
(* The inductive invariant.                                                 *)

\* An account that has not signed up has left no trace.
Newcomers ==
    \A i \in Invitees : account[i] = "new" =>
        /\ invite[i].outcome = "none" /\ i \notin welcomed /\ i \notin granted
        /\ reward[i].pc = "none"

\* What a transaction of reward_referral holds: a pending invite, and the slots taken so far.
Rewarding ==
    \A i \in Invitees :
        /\ reward[i].pc = "none" => reward[i] = NoReward
        /\ reward[i].pc # "none" => invite[i].outcome = "pending"
        /\ reward[i].pc = "slot" => reward[i].slot = -1
        /\ reward[i].pc = "budget" => reward[i].slot # -1
        /\ reward[i].pc \in {"slot", "budget"} => reward[i].budget = -1
        /\ reward[i].pc = "commit" =>
              /\ reward[i].outcome # ""
              /\ (reward[i].outcome = "credited") = (reward[i].slot # -1)
              /\ (reward[i].outcome = "credited") = (reward[i].budget # -1)

\* What a transaction of delete_account holds: an account that exists, links of its own, and
\* rows of invites it has a part in, of colleagues that signed up and no reward is at work on.
Leaving ==
    \A a \in Accounts :
        /\ erase[a].pc # "no" => Open(a)
        /\ \A x \in erase[a].links : x[2] = a
        /\ erase[a].rows \subseteq InvitesOf(a) /\ \A i \in erase[a].rows : account[i] # "new"
        /\ erase[a].pc = "invites" => \A i \in erase[a].rows : reward[i].pc = "none"

\* Each invite's row agrees with its credit; a row of an inviter that has not left keeps it.
Whole ==
    \A i \in Invitees :
        /\ invite[i].outcome = "credited" => i \in granted
        /\ i \in granted => invite[i].outcome \in {"credited", "gone"}
        /\ i \in granted /\ Open(InviterOf[i]) => invite[i].outcome = "credited"
        /\ (invite[i].slot # -1) = (invite[i].outcome = "credited")

\* The slots of its inviter's month that an invite has, committed or not.
SlotsOf(i) == {invite[i].slot, reward[i].slot} \ {-1}

\* No two invites of one inviter share a slot.
MonthSlots ==
    \A i, j \in Invitees : i # j /\ InviterOf[i] = InviterOf[j] => SlotsOf(i) \cap SlotsOf(j) = {}

\* No two rewards share a slot of the budget, and there are as many as credits.
BudgetSlotsOK ==
    /\ \A i \in Invitees : reward[i].budget \notin budget
    /\ \A i, j \in Invitees : i # j /\ reward[i].budget # -1 => reward[i].budget # reward[j].budget
    /\ IsFiniteSet(granted \cap Invitees)
    /\ Cardinality(budget) = Cardinality(granted \cap Invitees)

\* An order that a session was paid for has a buyer that signed up; only the orders of a buyer
\* that left are detached.
Buyers ==
    /\ \A s \in Sessions : paid[s] # "no" => account[BuyerOf[OrderOf[s]]] # "new"
    /\ \A o \in detached : account[BuyerOf[o]] = "gone"

\* A payment that settle_credit_purchase turned down once, and ever after.
TurnedDown(s) ==
    /\ paid[s] = "approved"
    /\ account[BuyerOf[OrderOf[s]]] = "gone" \/ order[OrderOf[s]] \notin {None, s}

\* The order of a delivered session is that session's, a session in review was paid from
\* another country, and what a run is about to do its session was paid for.
Settled ==
    /\ \A s \in Sessions :
          /\ outcome[s] = "delivered" <=> s \in granted
          /\ outcome[s] = "delivered" => order[OrderOf[s]] = s /\ paid[s] = "approved"
          /\ outcome[s] = "review" => paid[s] = "other"
    /\ \A s \in refused : TurnedDown(s)
    /\ \A r \in Runs :
          /\ run[r].pc # "idle" => run[r].session \in Sessions
          /\ run[r].pc = "settle" => paid[run[r].session] = "approved"
          /\ run[r].pc = "review" => paid[run[r].session] = "other"
          /\ run[r].pc = "refuse" => TurnedDown(run[r].session)

\* Bought credits are on the buyer's account as long as it exists; a deletion that has read
\* the links has all of them.
OnAccount ==
    \A s \in granted \cap Sessions :
        LET a == BuyerOf[OrderOf[s]] IN
        /\ (<<s, a>> \in links) = Open(a)
        /\ erase[a].pc \in {"codes", "invites"} => <<s, a>> \in erase[a].links

InviteInv == Newcomers /\ Rewarding /\ Whole /\ MonthSlots /\ BudgetSlotsOK /\ NoInviteForgotten

SaleInv == Buyers /\ Settled /\ OnAccount

CreditInv == TypeOK /\ Leaving /\ InviteInv /\ SaleInv
------------------------------------------------------------------------------
(* Types.                                                                   *)

\* The first free key is a key that nobody has.
LEMMA FirstFreeKey ==
  ASSUME NEW keys \in SUBSET Nat, NEW taken, FirstFree(keys, taken) # -1
  PROVE  FirstFree(keys, taken) \in keys \ taken
<1>1. ~(keys \subseteq taken)
  BY DEF FirstFree
<1>2. PICK n \in keys \ taken : \A m \in keys \ taken : ~(<<m, n>> \in OpToRel(<, Nat))
  <2>1. keys \ taken \in SUBSET Nat /\ keys \ taken # {}
    BY <1>1
  <2> QED BY <2>1, NatLessThanWellFounded, WFMin
<1>3. \A m \in keys \ taken : n <= m
  <2> SUFFICES ASSUME NEW m \in keys \ taken PROVE n <= m
    OBVIOUS
  <2>1. ~(m < n)
    BY <1>2 DEF OpToRel
  <2> QED BY <2>1
<1> QED BY <1>1, <1>3 DEF FirstFree

LEMMA Keys ==
  /\ Slots \in SUBSET Nat /\ -1 \notin Slots
  /\ BudgetSlots \in SUBSET Nat /\ -1 \notin BudgetSlots
BY AccountSets DEF Slots, BudgetSlots

\* Where an order and an invite belong.
LEMMA Belongs ==
  /\ \A s \in Sessions : OrderOf[s] \in Orders /\ BuyerOf[OrderOf[s]] \in Accounts
  /\ \A o \in Orders : BuyerOf[o] \in Accounts
  /\ \A i \in Invitees : i \in Accounts /\ InviterOf[i] \in Accounts /\ InviterOf[i] \notin Invitees
  /\ \A i \in Invitees : i \notin Sessions
  /\ \A c \in Codes : c \notin Sessions
BY AccountSets

LEMMA InviteTypes ==
  ASSUME TypeOK, Rewarding, NEW i \in Invitees,
         \/ Join(i) \/ Welcome(i) \/ Claim(i) \/ TakeSlot(i) \/ TakeBudget(i) \/ Decide(i)
         \/ RewardDies(i)
  PROVE  TypeOK'
<1> USE DEF TypeOK
<1>1. CASE Join(i)
  <2>1. invite' \in [Invitees -> Invite]
    BY <1>1 DEF Join, Invite
  <2>2. account' \in [Accounts -> {"new", "open", "gone"}]
    BY <1>1, Belongs DEF Join
  <2> QED BY <1>1, <2>1, <2>2 DEF Join, sales
<1>2. CASE Welcome(i)
  BY <1>2 DEF Welcome, people, sales
<1>3. CASE Claim(i)
  <2>1. \A same \in BOOLEAN :
          (IF same THEN [NoReward EXCEPT !.pc = "commit", !.outcome = "self"]
           ELSE [NoReward EXCEPT !.pc = "slot"]) \in Reward
    BY DEF NoReward, Reward
  <2>2. reward' \in [Invitees -> Reward]
    BY <1>3, <2>1 DEF Claim
  <2> QED BY <1>3, <2>2 DEF Claim, people, sales
<1>4. CASE TakeSlot(i)
  <2>1. PICK n : n = FirstFree(Slots, SlotsTaken(i))
    OBVIOUS
  <2>2. n = -1 \/ n \in Slots
    BY <2>1, FirstFreeKey, Keys
  <2>3. PICK w \in Reward : w = reward[i]
    OBVIOUS
  <2>4. /\ [w EXCEPT !.pc = "commit", !.outcome = "cap"] \in Reward
        /\ n # -1 => [w EXCEPT !.pc = "budget", !.slot = n] \in Reward
    BY <2>2 DEF Reward
  <2>5. reward' = [reward EXCEPT ![i] =
              IF n = -1 THEN [w EXCEPT !.pc = "commit", !.outcome = "cap"]
              ELSE [w EXCEPT !.pc = "budget", !.slot = n]]
    BY <1>4, <2>1, <2>3 DEF TakeSlot
  <2>6. reward' \in [Invitees -> Reward]
    BY <2>4, <2>5
  <2> QED BY <1>4, <2>6 DEF TakeSlot, people, sales
<1>5. CASE TakeBudget(i)
  <2>1. PICK n : n = FirstFree(BudgetSlots, budget)
    OBVIOUS
  <2>2. n = -1 \/ n \in BudgetSlots
    BY <2>1, FirstFreeKey, Keys
  <2>3. PICK w \in Reward : w = reward[i]
    OBVIOUS
  <2>4. /\ [w EXCEPT !.pc = "commit", !.outcome = "budget", !.slot = -1] \in Reward
        /\ n # -1 => [w EXCEPT !.pc = "commit", !.outcome = "credited", !.budget = n] \in Reward
    BY <2>2 DEF Reward
  <2>5. reward' = [reward EXCEPT ![i] =
              IF n = -1 THEN [w EXCEPT !.pc = "commit", !.outcome = "budget", !.slot = -1]
              ELSE [w EXCEPT !.pc = "commit", !.outcome = "credited", !.budget = n]]
    BY <1>5, <2>1, <2>3 DEF TakeBudget
  <2>6. reward' \in [Invitees -> Reward]
    BY <2>4, <2>5
  <2> QED BY <1>5, <2>6 DEF TakeBudget, people, sales
<1>6. CASE Decide(i)
  <2>1. reward[i] \in Reward /\ reward[i].outcome # ""
    BY <1>6 DEF Decide, Rewarding
  <2>2. invite' \in [Invitees -> Invite]
    BY <1>6, <2>1 DEF Decide, Invite, Reward
  <2>3. reward' \in [Invitees -> Reward]
    BY <1>6 DEF Decide, NoReward, Reward
  <2>4. budget' \subseteq BudgetSlots
    <3>1. CASE reward[i].outcome = "credited"
      <4>1. reward[i].budget \in BudgetSlots
        BY <1>6, <3>1, <2>1 DEF Decide, Rewarding, Reward
      <4> QED BY <1>6, <3>1, <4>1 DEF Decide
    <3>2. CASE reward[i].outcome # "credited"
      BY <1>6, <3>2 DEF Decide
    <3> QED BY <3>1, <3>2
  <2>5. granted' \subseteq Grants /\ links' \subseteq Linkable \X Accounts
    BY <1>6, Belongs DEF Decide, Grants, Linkable
  <2> QED BY <1>6, <2>2, <2>3, <2>4, <2>5 DEF Decide, sales
<1>7. CASE RewardDies(i)
  <2>1. reward' \in [Invitees -> Reward]
    BY <1>7 DEF RewardDies, NoReward, Reward
  <2> QED BY <1>7, <2>1 DEF RewardDies, people, sales
<1> QED BY <1>1, <1>2, <1>3, <1>4, <1>5, <1>6, <1>7

LEMMA AccountTypes ==
  ASSUME TypeOK, NEW a \in Accounts,
         \/ Confirm(a) \/ EraseOrders(a) \/ EraseCodes(a) \/ EraseInvites(a)
         \/ EraseCommit(a) \/ EraseDies(a) \/ \E c \in Codes : LinkCode(c, a)
  PROVE  TypeOK'
<1> USE DEF TypeOK
<1>1. CASE Confirm(a)
  BY <1>1 DEF Confirm, InvitesOf, people, sales
<1>2. CASE EraseOrders(a)
  <2>1. PICK w \in Erase : w = erase[a]
    OBVIOUS
  <2>2. [w EXCEPT !.pc = "orders"] \in Erase
    BY DEF Erase
  <2>3. erase' = [erase EXCEPT ![a] = [w EXCEPT !.pc = "orders"]]
    BY <1>2, <2>1 DEF EraseOrders
  <2>4. erase' \in [Accounts -> Erase]
    BY <2>2, <2>3
  <2> QED BY <1>2, <2>4 DEF EraseOrders, invites, sales
<1>3. CASE EraseCodes(a)
  <2>1. PICK mine \in SUBSET (Linkable \X Accounts) : mine = {x \in links : x[2] = a}
    OBVIOUS
  <2>2. PICK w \in Erase : w = erase[a]
    OBVIOUS
  <2>3. [w EXCEPT !.pc = "codes", !.links = mine] \in Erase
    BY DEF Erase
  <2>4. erase' = [erase EXCEPT ![a] = [w EXCEPT !.pc = "codes", !.links = mine]]
    BY <1>3, <2>1, <2>2 DEF EraseCodes
  <2>5. erase' \in [Accounts -> Erase]
    BY <2>3, <2>4
  <2> QED BY <1>3, <2>5 DEF EraseCodes, invites, sales
<1>4. CASE EraseInvites(a)
  <2>1. PICK mine \in SUBSET Invitees : mine = InvitesOf(a) \cap Rows
    BY DEF InvitesOf
  <2>2. PICK w \in Erase : w = erase[a]
    OBVIOUS
  <2>3. [w EXCEPT !.pc = "invites", !.rows = mine] \in Erase
    BY DEF Erase
  <2>4. erase' = [erase EXCEPT ![a] = [w EXCEPT !.pc = "invites", !.rows = mine]]
    BY <1>4, <2>1, <2>2 DEF EraseInvites
  <2>5. erase' \in [Accounts -> Erase]
    BY <2>3, <2>4
  <2> QED BY <1>4, <2>5 DEF EraseInvites, invites, sales
<1>5. CASE EraseCommit(a)
  <2>1. erase' \in [Accounts -> Erase]
    BY <1>5 DEF EraseCommit, Erase, NoErase
  <2>2. invite' \in [Invitees -> Invite]
    <3> SUFFICES ASSUME NEW i \in Invitees
                 PROVE  (IF i \in erase[a].rows /\ ~Kept(i, a)
                         THEN [outcome |-> "gone", slot |-> -1] ELSE invite[i]) \in Invite
      BY <1>5 DEF EraseCommit
    <3> QED BY DEF Invite
  <2> QED BY <1>5, <2>1, <2>2 DEF EraseCommit
<1>6. CASE EraseDies(a)
  <2>1. erase' \in [Accounts -> Erase]
    BY <1>6 DEF EraseDies, Erase, NoErase
  <2> QED BY <1>6, <2>1 DEF EraseDies, invites, sales
<1>7. ASSUME NEW c \in Codes, LinkCode(c, a) PROVE TypeOK'
  BY <1>7 DEF LinkCode, Linkable, invites, sales
<1> QED BY <1>1, <1>2, <1>3, <1>4, <1>5, <1>6, <1>7

LEMMA SaleTypes ==
  ASSUME TypeOK, Settled,
         \/ \E s \in Sessions : Buy(s) \/ Pay(s) \/ \E r \in Runs : Deliver(r, s)
         \/ \E r \in Runs : Settle(r) \/ Review(r) \/ Refuse(r) \/ RunDies(r)
  PROVE  TypeOK'
<1> USE DEF TypeOK
<1>1. ASSUME NEW s \in Sessions, Buy(s) PROVE TypeOK'
  BY <1>1, Belongs DEF Buy, people, invites
<1>2. ASSUME NEW s \in Sessions, Pay(s) PROVE TypeOK'
  BY <1>2 DEF Pay, people, invites
<1>3. ASSUME NEW s \in Sessions, NEW r \in Runs, Deliver(r, s) PROVE TypeOK'
  BY <1>3 DEF Deliver, people, invites
<1>4. ASSUME NEW r \in Runs, run[r].pc # "idle" PROVE run[r].session \in Sessions
  BY <1>4 DEF Settled
<1>5. [pc |-> "idle", session |-> None] \in [pc : {"idle", "settle", "review", "refuse"},
                                            session : Sessions \cup {None}]
  OBVIOUS
<1>6. ASSUME NEW r \in Runs, Settle(r) PROVE TypeOK'
  <2>1. PICK s \in Sessions : s = run[r].session
    BY <1>4, <1>6 DEF Settle
  <2>2. CASE Acceptable(s)
    <3>1. granted' \subseteq Grants /\ links' \subseteq Linkable \X Accounts
      BY <1>6, <2>1, <2>2, Belongs DEF Settle, Grants, Linkable
    <3>2. order' \in [Orders -> Sessions \cup {None}]
      BY <1>6, <2>1, <2>2 DEF Settle
    <3>3. outcome' \in [Sessions -> {"none", "delivered", "review"}]
      BY <1>6, <2>1, <2>2 DEF Settle
    <3>4. run' \in [Runs -> [pc : {"idle", "settle", "review", "refuse"},
                             session : Sessions \cup {None}]]
      BY <1>5, <1>6, <2>1, <2>2 DEF Settle, NoRun
    <3> QED BY <1>6, <3>1, <3>2, <3>3, <3>4 DEF Settle, invites
  <2>3. CASE ~Acceptable(s)
    BY <1>6, <2>1, <2>3 DEF Settle, invites
  <2> QED BY <2>2, <2>3
<1>7. ASSUME NEW r \in Runs, Review(r) PROVE TypeOK'
  <2>1. PICK s \in Sessions : s = run[r].session
    BY <1>4, <1>7 DEF Review
  <2> QED BY <1>5, <1>7, <2>1 DEF Review, NoRun, people, invites
<1>8. ASSUME NEW r \in Runs, Refuse(r) PROVE TypeOK'
  <2>1. PICK s \in Sessions : s = run[r].session
    BY <1>4, <1>8 DEF Refuse
  <2> QED BY <1>5, <1>8, <2>1 DEF Refuse, NoRun, people, invites
<1>9. ASSUME NEW r \in Runs, RunDies(r) PROVE TypeOK'
  BY <1>5, <1>9 DEF RunDies, NoRun, people, invites
<1> QED BY <1>1, <1>2, <1>3, <1>6, <1>7, <1>8, <1>9
------------------------------------------------------------------------------
(* What a step keeps.                                                       *)

\* No deletion holds the row of an invite whose reward begins, and nobody else leaves.
LEMMA LeavingKept ==
  ASSUME Leaving, TypeOK, erase' = erase,
         \A a \in Accounts : account[a] # "new" => account'[a] = account[a],
         \A i \in Invitees : reward[i].pc = "none" /\ reward'[i].pc # "none" => ~Erasing(i)
  PROVE  Leaving'
<1> SUFFICES ASSUME NEW a \in Accounts
             PROVE  /\ erase[a].pc # "no" => account'[a] = "open"
                    /\ \A x \in erase[a].links : x[2] = a
                    /\ erase[a].rows \subseteq InvitesOf(a)
                    /\ \A i \in erase[a].rows : account'[i] # "new"
                    /\ erase[a].pc = "invites" => \A i \in erase[a].rows : reward'[i].pc = "none"
  BY DEF Leaving, Open, InvitesOf
<1>1. /\ erase[a].pc # "no" => account'[a] = "open"
      /\ \A x \in erase[a].links : x[2] = a
      /\ erase[a].rows \subseteq InvitesOf(a)
      /\ \A i \in erase[a].rows : account[i] # "new" /\ i \in Invitees
  BY DEF Leaving, Open, InvitesOf
<1>2. ASSUME erase[a].pc = "invites", NEW i \in erase[a].rows PROVE reward'[i].pc = "none"
  <2>1. i \in Invitees /\ reward[i].pc = "none"
    BY <1>1, <1>2 DEF Leaving, InvitesOf
  <2>2. Erasing(i)
    BY <1>2 DEF Erasing
  <2> QED BY <2>1, <2>2
<1>3. \A i \in erase[a].rows : account'[i] # "new"
  BY <1>1, Belongs
<1> QED BY <1>1, <1>2, <1>3

\* An invite that keeps its slots, or gives some back, stays clear of the others.
LEMMA MonthSlotsKept ==
  ASSUME MonthSlots,
         \A i \in Invitees : {invite'[i].slot, reward'[i].slot} \ {-1} \subseteq SlotsOf(i)
  PROVE  MonthSlots'
BY DEF MonthSlots, SlotsOf

LEMMA BudgetKept ==
  ASSUME TypeOK, BudgetSlotsOK, budget' = budget, granted' \cap Invitees = granted \cap Invitees,
         \A i \in Invitees : reward'[i].budget \in {reward[i].budget, -1}
  PROVE  BudgetSlotsOK'
<1>1. -1 \notin budget
  BY Keys DEF TypeOK
<1>2. \A i \in Invitees : reward'[i].budget \notin budget'
  BY <1>1 DEF BudgetSlotsOK
<1>3. ASSUME NEW i \in Invitees, NEW j \in Invitees, i # j, reward'[i].budget # -1
      PROVE  reward'[i].budget # reward'[j].budget
  BY <1>3 DEF BudgetSlotsOK
<1> QED BY <1>2, <1>3 DEF BudgetSlotsOK

\* A step that is not about invites.
LEMMA InvitesKept ==
  ASSUME TypeOK, InviteInv, granted' \cap Invitees = granted \cap Invitees,
         account' = account, invites' = invites
  PROVE  InviteInv'
<1>1. /\ confirmed' = confirmed /\ welcomed' = welcomed /\ invite' = invite /\ asked' = asked
      /\ reward' = reward /\ dropped' = dropped /\ budget' = budget
  BY DEF invites
<1>2. \A i \in Invitees : i \in granted' <=> i \in granted
  OBVIOUS
<1>3. Newcomers'
  BY <1>1, <1>2 DEF InviteInv, Newcomers
<1>4. Rewarding'
  BY <1>1 DEF InviteInv, Rewarding
<1>5. Whole'
  BY <1>1, <1>2 DEF InviteInv, Whole, Open
<1>6. MonthSlots'
  BY <1>1 DEF InviteInv, MonthSlots, SlotsOf
<1>7. BudgetSlotsOK'
  BY <1>1, BudgetKept DEF InviteInv
<1>8. NoInviteForgotten'
  BY <1>1 DEF InviteInv, NoInviteForgotten, Ready
<1> QED BY <1>3, <1>4, <1>5, <1>6, <1>7, <1>8 DEF InviteInv

\* A step that is neither about sales nor about a deletion.
LEMMA SalesKept ==
  ASSUME TypeOK, SaleInv, granted' \cap Sessions = granted \cap Sessions,
         \A a \in Accounts : account'[a] # account[a] => account[a] = "new" /\ account'[a] = "open",
         erase' = erase, sales' = sales,
         \A s \in Sessions, a \in Accounts : <<s, a>> \in links' <=> <<s, a>> \in links
  PROVE  SaleInv'
<1>1. /\ order' = order /\ detached' = detached /\ paid' = paid /\ outcome' = outcome
      /\ refused' = refused /\ run' = run
  BY DEF sales
<1>2. \A s \in Sessions : s \in granted' <=> s \in granted
  OBVIOUS
<1>3. Buyers'
  BY <1>1, Belongs DEF SaleInv, Buyers, TypeOK
<1>4. ASSUME NEW s \in Sessions, TurnedDown(s) PROVE TurnedDown(s)'
  BY <1>1, <1>4, Belongs DEF TurnedDown
<1>5. Settled'
  <2>1. \A s \in refused' : TurnedDown(s)'
    BY <1>1, <1>4 DEF SaleInv, Settled, TypeOK
  <2>2. \A r \in Runs : run'[r].pc = "refuse" => TurnedDown(run[r].session)'
                                                /\ run[r].session \in Sessions
    BY <1>1, <1>4 DEF SaleInv, Settled
  <2>3. \A r \in Runs : (run[r].pc = "refuse" => TurnedDown(run[r].session))'
    BY <1>1, <2>2 DEF TurnedDown
  <2>4. /\ \A s \in Sessions :
              /\ outcome'[s] = "delivered" <=> s \in granted'
              /\ outcome'[s] = "delivered" => order'[OrderOf[s]] = s /\ paid'[s] = "approved"
              /\ outcome'[s] = "review" => paid'[s] = "other"
        /\ \A r \in Runs :
              /\ run'[r].pc # "idle" => run'[r].session \in Sessions
              /\ run'[r].pc = "settle" => paid'[run'[r].session] = "approved"
              /\ run'[r].pc = "review" => paid'[run'[r].session] = "other"
    BY <1>1, <1>2 DEF SaleInv, Settled
  <2> QED BY <2>1, <2>3, <2>4 DEF Settled
<1>6. OnAccount'
  <2> SUFFICES ASSUME NEW s \in granted \cap Sessions, NEW a \in Accounts, a = BuyerOf[OrderOf[s]]
               PROVE  /\ (<<s, a>> \in links') = (account'[a] = "open")
                      /\ erase'[a].pc \in {"codes", "invites"} => <<s, a>> \in erase'[a].links
    BY Belongs DEF OnAccount, Open
  <2>1. account[a] # "new"
    <3>1. paid[s] = "approved"
      BY DEF SaleInv, Settled
    <3> QED BY <3>1 DEF SaleInv, Buyers
  <2>2. account'[a] = account[a]
    BY <2>1
  <2>3. /\ (<<s, a>> \in links) = Open(a)
        /\ erase[a].pc \in {"codes", "invites"} => <<s, a>> \in erase[a].links
    BY DEF SaleInv, OnAccount
  <2> QED BY <2>2, <2>3 DEF Open
<1> QED BY <1>3, <1>5, <1>6 DEF SaleInv
------------------------------------------------------------------------------
(* Invites.                                                                 *)

\* The slots of an invite that is not decided, and of one that no request is at work on.
LEMMA Undecided ==
  ASSUME TypeOK, InviteInv, NEW i \in Invitees
  PROVE  /\ invite[i].outcome # "credited" => invite[i].slot = -1
         /\ invite[i].outcome \notin {"credited", "gone"} => i \notin granted
         /\ reward[i].pc = "none" => reward[i] = NoReward
         /\ reward[i].pc # "none" => invite[i].outcome = "pending"
BY DEF InviteInv, Whole, Rewarding

LEMMA JoinStep ==
  ASSUME CreditInv, NEW i \in Invitees, Join(i)
  PROVE  Leaving' /\ InviteInv'
<1> USE DEF CreditInv
<1>1. /\ account[i] = "new" /\ account' = [account EXCEPT ![i] = "open"]
      /\ erase' = erase /\ confirmed' = confirmed /\ welcomed' = welcomed /\ asked' = asked
      /\ reward' = reward /\ dropped' = dropped /\ budget' = budget /\ granted' = granted
      /\ links' = links /\ sales' = sales
  BY DEF Join
<1>2. /\ invite[i].outcome = "none" /\ i \notin welcomed /\ i \notin granted
      /\ reward[i].pc = "none"
  BY <1>1 DEF InviteInv, Newcomers
<1>3. /\ \A j \in Invitees \ {i} : invite'[j] = invite[j]
      /\ invite'[i].outcome \in {"none", "pending"} /\ invite'[i].slot = invite[i].slot
  BY <1>2 DEF Join, TypeOK, Invite
<1>4. /\ \A j \in Invitees : account'[InviterOf[j]] = account[InviterOf[j]]
      /\ \A a \in Accounts : account[a] # "new" => account'[a] = account[a]
      /\ account'[i] = "open"
  BY <1>1, Belongs DEF TypeOK
<1>5. Leaving'
  BY <1>1, <1>4, LeavingKept
<1>6. Newcomers'
  <2> SUFFICES ASSUME NEW j \in Invitees, account'[j] = "new"
               PROVE  /\ invite'[j].outcome = "none" /\ j \notin welcomed' /\ j \notin granted'
                      /\ reward'[j].pc = "none"
    BY DEF Newcomers
  <2>1. j # i /\ account[j] = "new"
    BY <1>1, <1>4, Belongs DEF TypeOK
  <2> QED BY <1>1, <1>3, <2>1 DEF InviteInv, Newcomers
<1>7. Rewarding'
  BY <1>1, <1>2, <1>3 DEF InviteInv, Rewarding
<1>8. Whole'
  <2> SUFFICES ASSUME NEW j \in Invitees
               PROVE  /\ invite'[j].outcome = "credited" => j \in granted'
                      /\ j \in granted' => invite'[j].outcome \in {"credited", "gone"}
                      /\ j \in granted' /\ account'[InviterOf[j]] = "open"
                            => invite'[j].outcome = "credited"
                      /\ (invite'[j].slot # -1) = (invite'[j].outcome = "credited")
    BY DEF Whole, Open
  <2>1. CASE j = i
    BY <1>1, <1>2, <1>3, <2>1, Undecided
  <2>2. CASE j # i
    BY <1>1, <1>3, <1>4, <2>2 DEF InviteInv, Whole, Open
  <2> QED BY <2>1, <2>2
<1>9. MonthSlots'
  <2>1. \A j \in Invitees : {invite'[j].slot, reward'[j].slot} \ {-1} \subseteq SlotsOf(j)
    BY <1>1, <1>3 DEF SlotsOf
  <2> QED BY <2>1, MonthSlotsKept DEF InviteInv
<1>10. BudgetSlotsOK'
  BY <1>1, BudgetKept DEF InviteInv
<1>11. NoInviteForgotten'
  BY <1>1, <1>2, <1>3 DEF InviteInv, NoInviteForgotten, Ready
<1> QED BY <1>5, <1>6, <1>7, <1>8, <1>9, <1>10, <1>11 DEF InviteInv

LEMMA WelcomeStep ==
  ASSUME CreditInv, NEW i \in Invitees, Welcome(i)
  PROVE  Leaving' /\ InviteInv'
<1> USE DEF CreditInv
<1>1. /\ account[i] = "open" /\ account' = account /\ erase' = erase
      /\ confirmed' = confirmed /\ invite' = invite /\ reward' = reward /\ dropped' = dropped
      /\ budget' = budget /\ granted' = granted
      /\ welcomed' = welcomed \cup {i} /\ asked' = asked \cup {i}
  BY DEF Welcome, Open, people
<1>2. Leaving'
  BY <1>1, LeavingKept
<1>3. Newcomers'
  BY <1>1 DEF InviteInv, Newcomers
<1>4. Rewarding' /\ Whole'
  BY <1>1 DEF InviteInv, Rewarding, Whole, Open
<1>5. MonthSlots'
  BY <1>1 DEF InviteInv, MonthSlots, SlotsOf
<1>6. BudgetSlotsOK'
  BY <1>1, BudgetKept DEF InviteInv
<1>7. NoInviteForgotten'
  BY <1>1 DEF InviteInv, NoInviteForgotten, Ready
<1> QED BY <1>2, <1>3, <1>4, <1>5, <1>6, <1>7 DEF InviteInv

LEMMA ConfirmStep ==
  ASSUME CreditInv, NEW a \in Accounts, Confirm(a)
  PROVE  Leaving' /\ InviteInv'
<1> USE DEF CreditInv
<1>1. /\ account' = account /\ erase' = erase
      /\ welcomed' = welcomed /\ invite' = invite /\ reward' = reward /\ dropped' = dropped
      /\ budget' = budget /\ granted' = granted
      /\ confirmed' = confirmed \cup {a} /\ asked' = asked \cup InvitesOf(a)
  BY DEF Confirm, people
<1>2. Leaving'
  BY <1>1, LeavingKept
<1>3. Newcomers' /\ Rewarding' /\ Whole'
  BY <1>1 DEF InviteInv, Newcomers, Rewarding, Whole, Open
<1>4. MonthSlots'
  BY <1>1 DEF InviteInv, MonthSlots, SlotsOf
<1>5. BudgetSlotsOK'
  BY <1>1, BudgetKept DEF InviteInv
<1>6. NoInviteForgotten'
  BY <1>1 DEF InviteInv, NoInviteForgotten, Ready, InvitesOf
<1> QED BY <1>2, <1>3, <1>4, <1>5, <1>6 DEF InviteInv

LEMMA ClaimStep ==
  ASSUME CreditInv, NEW i \in Invitees, Claim(i)
  PROVE  Leaving' /\ InviteInv'
<1> USE DEF CreditInv
<1>1. /\ account' = account /\ erase' = erase /\ confirmed' = confirmed
      /\ welcomed' = welcomed /\ invite' = invite /\ dropped' = dropped
      /\ budget' = budget /\ granted' = granted /\ asked' = asked \ {i}
      /\ reward[i].pc = "none" /\ ~Erasing(i)
  BY DEF Claim, people
<1>2. \/ ~Ready(i) /\ reward' = reward
      \/ /\ Ready(i)
         /\ \A j \in Invitees \ {i} : reward'[j] = reward[j]
         /\ reward'[i].slot = -1 /\ reward'[i].budget = -1
         /\ \/ reward'[i].pc = "slot"
            \/ reward'[i].pc = "commit" /\ reward'[i].outcome = "self"
  BY DEF Claim, NoReward, TypeOK
<1>3. \A j \in Invitees : j # i => reward'[j] = reward[j]
  BY <1>2
<1>4. Leaving'
  BY <1>1, <1>3, LeavingKept
<1>5. Newcomers'
  BY <1>1, <1>2 DEF InviteInv, Newcomers, Ready
<1>6. Rewarding'
  <2> SUFFICES ASSUME NEW j \in Invitees
               PROVE  (/\ reward[j].pc = "none" => reward[j] = NoReward
                       /\ reward[j].pc # "none" => invite[j].outcome = "pending"
                       /\ reward[j].pc = "slot" => reward[j].slot = -1
                       /\ reward[j].pc = "budget" => reward[j].slot # -1
                       /\ reward[j].pc \in {"slot", "budget"} => reward[j].budget = -1
                       /\ reward[j].pc = "commit" =>
                             /\ reward[j].outcome # ""
                             /\ (reward[j].outcome = "credited") = (reward[j].slot # -1)
                             /\ (reward[j].outcome = "credited") = (reward[j].budget # -1))'
    BY DEF Rewarding
  <2>1. CASE j = i /\ Ready(i)
    BY <1>1, <1>2, <2>1 DEF Ready
  <2>2. CASE ~(j = i /\ Ready(i))
    BY <1>1, <1>2, <2>2 DEF InviteInv, Rewarding
  <2> QED BY <2>1, <2>2
<1>7. Whole'
  BY <1>1 DEF InviteInv, Whole, Open
<1>8. MonthSlots'
  <2>1. \A j \in Invitees : {invite'[j].slot, reward'[j].slot} \ {-1} \subseteq SlotsOf(j)
    BY <1>1, <1>2 DEF SlotsOf
  <2> QED BY <2>1, MonthSlotsKept DEF InviteInv
<1>9. BudgetSlotsOK'
  <2>1. \A j \in Invitees : reward'[j].budget \in {reward[j].budget, -1}
    BY <1>2
  <2> QED BY <1>1, <2>1, BudgetKept DEF InviteInv
<1>10. NoInviteForgotten'
  BY <1>1, <1>2 DEF InviteInv, NoInviteForgotten, Ready
<1> QED BY <1>4, <1>5, <1>6, <1>7, <1>8, <1>9, <1>10 DEF InviteInv

\* A step of the reward of one invite that is under way.
LEMMA RewardStep ==
  ASSUME CreditInv, NEW i \in Invitees, reward[i].pc # "none",
         account' = account, erase' = erase, confirmed' = confirmed, welcomed' = welcomed,
         invite' = invite, asked' = asked, dropped' = dropped, budget' = budget,
         granted' = granted,
         \A j \in Invitees \ {i} : reward'[j] = reward[j],
         \/ /\ reward'[i].pc = "budget"
            /\ reward'[i].slot # -1 /\ reward'[i].budget = -1
         \/ /\ reward'[i].pc = "commit" /\ reward'[i].outcome # ""
            /\ (reward'[i].outcome = "credited") = (reward'[i].slot # -1)
            /\ (reward'[i].outcome = "credited") = (reward'[i].budget # -1)
  PROVE  /\ Leaving' /\ Newcomers' /\ Rewarding' /\ Whole' /\ NoInviteForgotten'
<1> USE DEF CreditInv
<1>1. Leaving'
  BY LeavingKept
<1>2. Newcomers'
  BY DEF InviteInv, Newcomers
<1>3. Rewarding'
  <2> SUFFICES ASSUME NEW j \in Invitees
               PROVE  (/\ reward[j].pc = "none" => reward[j] = NoReward
                       /\ reward[j].pc # "none" => invite[j].outcome = "pending"
                       /\ reward[j].pc = "slot" => reward[j].slot = -1
                       /\ reward[j].pc = "budget" => reward[j].slot # -1
                       /\ reward[j].pc \in {"slot", "budget"} => reward[j].budget = -1
                       /\ reward[j].pc = "commit" =>
                             /\ reward[j].outcome # ""
                             /\ (reward[j].outcome = "credited") = (reward[j].slot # -1)
                             /\ (reward[j].outcome = "credited") = (reward[j].budget # -1))'
    BY DEF Rewarding
  <2>1. CASE j = i
    BY <2>1, Undecided
  <2>2. CASE j # i
    BY <2>2 DEF InviteInv, Rewarding
  <2> QED BY <2>1, <2>2
<1>4. Whole'
  BY DEF InviteInv, Whole, Open
<1>5. NoInviteForgotten'
  BY DEF InviteInv, NoInviteForgotten, Ready
<1> QED BY <1>1, <1>2, <1>3, <1>4, <1>5

\* The slot of the month: free of the committed rows, and of the open transactions.
LEMMA TakeSlotStep ==
  ASSUME CreditInv, NEW i \in Invitees, TakeSlot(i)
  PROVE  Leaving' /\ InviteInv'
<1> USE DEF CreditInv
<1>1. PICK n : n = FirstFree(Slots, SlotsTaken(i))
  OBVIOUS
<1>2. n # -1 => n \in Slots \ SlotsTaken(i) /\ n \notin SlotsHeld(i)
  BY <1>1, FirstFreeKey, Keys DEF TakeSlot
<1>3. /\ account' = account /\ erase' = erase /\ confirmed' = confirmed /\ welcomed' = welcomed
      /\ invite' = invite /\ asked' = asked /\ dropped' = dropped /\ budget' = budget
      /\ granted' = granted /\ reward[i].pc = "slot"
  BY DEF TakeSlot, people
<1>4. reward' = [reward EXCEPT ![i] =
              IF n = -1 THEN [@ EXCEPT !.pc = "commit", !.outcome = "cap"]
              ELSE [@ EXCEPT !.pc = "budget", !.slot = n]]
  BY <1>1 DEF TakeSlot
<1>5. reward[i].slot = -1 /\ reward[i].budget = -1 /\ reward[i] \in Reward
  BY <1>3 DEF InviteInv, Rewarding, TypeOK
<1>6. /\ \A j \in Invitees \ {i} : reward'[j] = reward[j]
      /\ reward'[i].slot = n /\ reward'[i].budget = -1
      /\ n = -1 => reward'[i].pc = "commit" /\ reward'[i].outcome = "cap"
      /\ n # -1 => reward'[i].pc = "budget"
  BY <1>4, <1>5 DEF TypeOK, Reward
<1>7. Leaving' /\ Newcomers' /\ Rewarding' /\ Whole' /\ NoInviteForgotten'
  BY <1>3, <1>6, RewardStep
<1>8. ASSUME n # -1, NEW j \in Invitees, j # i, InviterOf[j] = InviterOf[i]
      PROVE  n # invite[j].slot /\ n # reward[j].slot
  <2>1. j \in Colleagues(i)
    BY <1>8 DEF Colleagues
  <2>2. n # reward[j].slot
    BY <1>2, <1>8, <2>1 DEF SlotsHeld
  <2>3. CASE j \in Rows
    BY <1>2, <1>8, <2>1, <2>2, <2>3 DEF SlotsTaken
  <2>4. CASE j \notin Rows
    <3>1. invite[j].slot = -1
      BY <2>4, Undecided DEF Rows
    <3> QED BY <1>8, <2>2, <3>1
  <2> QED BY <2>2, <2>3, <2>4
<1>9. MonthSlots'
  <2> SUFFICES ASSUME NEW j \in Invitees, NEW k \in Invitees, j # k,
                      InviterOf[j] = InviterOf[k]
               PROVE  ({invite'[j].slot, reward'[j].slot} \ {-1})
                          \cap ({invite'[k].slot, reward'[k].slot} \ {-1}) = {}
    BY DEF MonthSlots, SlotsOf
  <2>1. ({invite[j].slot, reward[j].slot} \ {-1})
            \cap ({invite[k].slot, reward[k].slot} \ {-1}) = {}
    BY DEF InviteInv, MonthSlots, SlotsOf
  <2>2. CASE j # i /\ k # i
    BY <1>3, <1>6, <2>1, <2>2
  <2>3. CASE j = i
    BY <1>3, <1>6, <1>8, <2>1, <2>3
  <2>4. CASE k = i
    BY <1>3, <1>6, <1>8, <2>1, <2>4
  <2> QED BY <2>2, <2>3, <2>4
<1>10. BudgetSlotsOK'
  <2>1. \A j \in Invitees : reward'[j].budget \in {reward[j].budget, -1}
    BY <1>6
  <2> QED BY <1>3, <2>1, BudgetKept DEF InviteInv
<1> QED BY <1>7, <1>9, <1>10 DEF InviteInv

\* A slot of the shared budget, or the inviter's slot given back.
LEMMA TakeBudgetStep ==
  ASSUME CreditInv, NEW i \in Invitees, TakeBudget(i)
  PROVE  Leaving' /\ InviteInv'
<1> USE DEF CreditInv
<1>1. PICK n : n = FirstFree(BudgetSlots, budget)
  OBVIOUS
<1>2. n # -1 => n \notin budget /\ n \notin BudgetHeld(i)
  BY <1>1, FirstFreeKey, Keys DEF TakeBudget
<1>3. /\ account' = account /\ erase' = erase /\ confirmed' = confirmed /\ welcomed' = welcomed
      /\ invite' = invite /\ asked' = asked /\ dropped' = dropped /\ budget' = budget
      /\ granted' = granted /\ reward[i].pc = "budget"
  BY DEF TakeBudget, people
<1>4. reward' = [reward EXCEPT ![i] =
              IF n = -1 THEN [@ EXCEPT !.pc = "commit", !.outcome = "budget", !.slot = -1]
              ELSE [@ EXCEPT !.pc = "commit", !.outcome = "credited", !.budget = n]]
  BY <1>1 DEF TakeBudget
<1>5. reward[i].slot # -1 /\ reward[i].budget = -1 /\ reward[i] \in Reward
  BY <1>3 DEF InviteInv, Rewarding, TypeOK
<1>6. /\ \A j \in Invitees \ {i} : reward'[j] = reward[j]
      /\ reward'[i].pc = "commit" /\ reward'[i].budget = n
      /\ n = -1 => reward'[i].outcome = "budget" /\ reward'[i].slot = -1
      /\ n # -1 => reward'[i].outcome = "credited" /\ reward'[i].slot = reward[i].slot
  BY <1>4, <1>5 DEF TypeOK, Reward
<1>7. Leaving' /\ Newcomers' /\ Rewarding' /\ Whole' /\ NoInviteForgotten'
  BY <1>3, <1>5, <1>6, RewardStep
<1>8. MonthSlots'
  <2>1. \A j \in Invitees : {invite'[j].slot, reward'[j].slot} \ {-1} \subseteq SlotsOf(j)
    BY <1>3, <1>6 DEF SlotsOf
  <2> QED BY <2>1, MonthSlotsKept DEF InviteInv
<1>9. BudgetSlotsOK'
  <2>1. -1 \notin budget
    BY Keys DEF TypeOK
  <2>2. \A j \in Invitees : reward'[j].budget \notin budget'
    BY <1>2, <1>3, <1>6, <2>1 DEF InviteInv, BudgetSlotsOK
  <2>3. ASSUME NEW j \in Invitees, NEW k \in Invitees, j # k, reward'[j].budget # -1
        PROVE  reward'[j].budget # reward'[k].budget
    <3>1. \A l \in Invitees \ {i} : n # -1 => n # reward[l].budget
      BY <1>2 DEF BudgetHeld
    <3>2. \A l, m \in Invitees : l # m /\ reward[l].budget # -1 => reward[l].budget # reward[m].budget
      BY DEF InviteInv, BudgetSlotsOK
    <3> QED BY <1>6, <2>3, <3>1, <3>2
  <2> QED BY <1>3, <2>2, <2>3 DEF InviteInv, BudgetSlotsOK
<1> QED BY <1>7, <1>8, <1>9 DEF InviteInv

\* The decision moves a slot from the transaction to the row.
LEMMA DecideStep ==
  ASSUME CreditInv, NEW i \in Invitees, Decide(i)
  PROVE  Leaving' /\ InviteInv'
<1> USE DEF CreditInv
<1>1. PICK r \in Reward : r = reward[i]
  BY DEF TypeOK
<1>2. /\ account' = account /\ erase' = erase /\ confirmed' = confirmed /\ welcomed' = welcomed
      /\ asked' = asked /\ dropped' = dropped
      /\ \A j \in Invitees \ {i} : reward'[j] = reward[j] /\ invite'[j] = invite[j]
      /\ reward'[i] = NoReward
      /\ invite'[i] = [outcome |-> r.outcome, slot |-> r.slot]
      /\ r.pc = "commit"
  BY <1>1 DEF Decide, TypeOK
<1>3. /\ r.outcome = "credited" => granted' = granted \cup {i} /\ budget' = budget \cup {r.budget}
      /\ r.outcome # "credited" => granted' = granted /\ budget' = budget
  BY <1>1 DEF Decide
<1>4. /\ r.outcome # "" /\ (r.outcome = "credited") = (r.slot # -1)
      /\ (r.outcome = "credited") = (r.budget # -1)
      /\ invite[i].outcome = "pending" /\ i \notin granted
  BY <1>1, <1>2, Undecided DEF InviteInv, Rewarding
<1>5. invite'[i].outcome \in {"credited", "self", "cap", "budget"} /\ invite'[i].slot = r.slot
      /\ invite'[i].outcome = r.outcome
  <2>1. r.outcome \in {"", "credited", "self", "cap", "budget"}
    BY <1>1 DEF Reward
  <2>2. invite'[i].slot = r.slot /\ invite'[i].outcome = r.outcome
    BY <1>2
  <2> QED BY <1>4, <2>1, <2>2
<1>6. NoReward.pc = "none" /\ NoReward.slot = -1 /\ NoReward.budget = -1
  BY DEF NoReward
<1>7. Leaving'
  BY <1>2, <1>6, LeavingKept
<1>8. Newcomers'
  BY <1>2, <1>3, <1>4 DEF InviteInv, Newcomers
<1>9. Rewarding'
  BY <1>2, <1>6 DEF InviteInv, Rewarding
<1>10. Whole'
  <2> SUFFICES ASSUME NEW j \in Invitees
               PROVE  /\ invite'[j].outcome = "credited" => j \in granted'
                      /\ j \in granted' => invite'[j].outcome \in {"credited", "gone"}
                      /\ j \in granted' /\ account'[InviterOf[j]] = "open"
                            => invite'[j].outcome = "credited"
                      /\ (invite'[j].slot # -1) = (invite'[j].outcome = "credited")
    BY DEF Whole, Open
  <2>1. CASE j = i
    BY <1>3, <1>4, <1>5, <2>1
  <2>2. CASE j # i
    BY <1>2, <1>3, <2>2 DEF InviteInv, Whole, Open
  <2> QED BY <2>1, <2>2
<1>11. MonthSlots'
  <2>1. \A j \in Invitees : {invite'[j].slot, reward'[j].slot} \ {-1} \subseteq SlotsOf(j)
    BY <1>1, <1>2, <1>5, <1>6 DEF SlotsOf
  <2> QED BY <2>1, MonthSlotsKept DEF InviteInv
<1>12. BudgetSlotsOK'
  <2>1. /\ \A j \in Invitees : reward[j].budget \notin budget
        /\ \A j, k \in Invitees : j # k /\ reward[j].budget # -1 => reward[j].budget # reward[k].budget
        /\ IsFiniteSet(granted \cap Invitees)
        /\ Cardinality(budget) = Cardinality(granted \cap Invitees)
    BY DEF InviteInv, BudgetSlotsOK
  <2>2. -1 \notin budget /\ IsFiniteSet(budget)
    <3>1. PICK all : all = 0..(Budget - 1)
      OBVIOUS
    <3>2. IsFiniteSet(all)
      BY <3>1, FS_Interval, AccountSets
    <3>3. budget \in SUBSET all /\ -1 \notin budget
      BY <3>1, AccountSets DEF TypeOK, BudgetSlots
    <3> QED BY <3>2, <3>3, FS_Subset
  <2>3. \A j \in Invitees : reward'[j].budget \notin budget'
    <3> SUFFICES ASSUME NEW j \in Invitees PROVE reward'[j].budget \notin budget'
      OBVIOUS
    <3>1. CASE j = i
      BY <1>2, <1>3, <1>4, <1>6, <2>2, <3>1
    <3>2. CASE j # i
      <4>1. reward[j].budget \notin budget /\ (r.budget # -1 => reward[j].budget # r.budget)
        BY <1>1, <2>1, <3>2
      <4>2. reward'[j] = reward[j]
        BY <1>2, <3>2
      <4>3. CASE r.outcome = "credited"
        BY <1>3, <1>4, <4>1, <4>2, <4>3
      <4>4. CASE r.outcome # "credited"
        BY <1>3, <4>1, <4>2, <4>4
      <4> QED BY <4>3, <4>4
    <3> QED BY <3>1, <3>2
  <2>4. \A j, k \in Invitees : j # k /\ reward'[j].budget # -1 => reward'[j].budget # reward'[k].budget
    BY <1>2, <1>6, <2>1
  <2>5. CASE r.outcome = "credited"
    <3>1. r.budget \notin budget /\ i \notin granted \cap Invitees
      BY <1>1, <1>4, <2>1
    <3>2. /\ IsFiniteSet((granted \cap Invitees) \cup {i})
          /\ Cardinality((granted \cap Invitees) \cup {i}) = Cardinality(granted \cap Invitees) + 1
      BY <2>1, <3>1, FS_AddElement
    <3>3. Cardinality(budget \cup {r.budget}) = Cardinality(budget) + 1
      BY <2>2, <3>1, FS_AddElement
    <3>4. granted' \cap Invitees = (granted \cap Invitees) \cup {i} /\ budget' = budget \cup {r.budget}
      BY <1>3, <2>5
    <3> QED BY <2>1, <2>3, <2>4, <3>2, <3>3, <3>4 DEF BudgetSlotsOK
  <2>6. CASE r.outcome # "credited"
    BY <1>3, <2>1, <2>3, <2>4, <2>6 DEF BudgetSlotsOK
  <2> QED BY <2>5, <2>6
<1>13. NoInviteForgotten'
  BY <1>2, <1>5 DEF InviteInv, NoInviteForgotten, Ready
<1> QED BY <1>7, <1>8, <1>9, <1>10, <1>11, <1>12, <1>13 DEF InviteInv

LEMMA RewardDiesStep ==
  ASSUME CreditInv, NEW i \in Invitees, RewardDies(i)
  PROVE  Leaving' /\ InviteInv'
<1> USE DEF CreditInv
<1>1. /\ account' = account /\ erase' = erase /\ confirmed' = confirmed /\ welcomed' = welcomed
      /\ invite' = invite /\ budget' = budget /\ granted' = granted
      /\ asked' = asked \ {i} /\ dropped' = dropped \cup {i}
      /\ \A j \in Invitees \ {i} : reward'[j] = reward[j]
      /\ reward'[i] = NoReward
  BY DEF RewardDies, people, TypeOK
<1>2. NoReward.pc = "none" /\ NoReward.slot = -1 /\ NoReward.budget = -1
  BY DEF NoReward
<1>3. Leaving'
  BY <1>1, <1>2, LeavingKept
<1>4. Newcomers' /\ Whole'
  BY <1>1, <1>2 DEF InviteInv, Newcomers, Whole, Open
<1>5. Rewarding'
  BY <1>1, <1>2 DEF InviteInv, Rewarding
<1>6. MonthSlots'
  <2>1. \A j \in Invitees : {invite'[j].slot, reward'[j].slot} \ {-1} \subseteq SlotsOf(j)
    BY <1>1, <1>2 DEF SlotsOf
  <2> QED BY <2>1, MonthSlotsKept DEF InviteInv
<1>7. BudgetSlotsOK'
  <2>1. \A j \in Invitees : reward'[j].budget \in {reward[j].budget, -1}
    BY <1>1, <1>2
  <2> QED BY <1>1, <2>1, BudgetKept DEF InviteInv
<1>8. NoInviteForgotten'
  BY <1>1 DEF InviteInv, NoInviteForgotten, Ready
<1> QED BY <1>3, <1>4, <1>5, <1>6, <1>7, <1>8 DEF InviteInv
------------------------------------------------------------------------------
(* Deletions.                                                               *)

\* What was turned down stays turned down, and buyers that left stay away.
LEMMA SettledKept ==
  ASSUME TypeOK, SaleInv, granted' \cap Sessions = granted \cap Sessions,
         \A a \in Accounts : account'[a] # account[a] => account[a] = "open" /\ account'[a] = "gone",
         \A o \in detached' \ detached : o \in Orders /\ account'[BuyerOf[o]] = "gone",
         order' = order, paid' = paid, outcome' = outcome, refused' = refused, run' = run
  PROVE  Buyers' /\ Settled'
<1>1. \A a \in Accounts : /\ account[a] = "gone" => account'[a] = "gone"
                          /\ account'[a] = "new" => account[a] = "new"
  OBVIOUS
<1>2. Buyers'
  <2>1. \A s \in Sessions : paid[s] # "no" => account'[BuyerOf[OrderOf[s]]] # "new"
    BY <1>1, Belongs DEF SaleInv, Buyers
  <2>2. \A o \in detached' : account'[BuyerOf[o]] = "gone"
    BY <1>1, Belongs DEF SaleInv, Buyers, TypeOK
  <2> QED BY <2>1, <2>2 DEF Buyers
<1>3. ASSUME NEW s \in Sessions, TurnedDown(s) PROVE TurnedDown(s)'
  BY <1>1, <1>3, Belongs DEF TurnedDown
<1>4. \A s \in Sessions : s \in granted' <=> s \in granted
  OBVIOUS
<1>5. /\ \A s \in refused : TurnedDown(s)'
      /\ \A r \in Runs : run[r].pc = "refuse" => TurnedDown(run[r].session)'
  BY <1>3 DEF SaleInv, Settled, TypeOK
<1>6. Settled'
  <2>1. \A s \in refused' : TurnedDown(s)'
    BY <1>5
  <2>2. \A r \in Runs : (run[r].pc = "refuse" => TurnedDown(run[r].session))'
    BY <1>5 DEF TurnedDown
  <2>3. /\ \A s \in Sessions :
              /\ outcome'[s] = "delivered" <=> s \in granted'
              /\ outcome'[s] = "delivered" => order'[OrderOf[s]] = s /\ paid'[s] = "approved"
              /\ outcome'[s] = "review" => paid'[s] = "other"
        /\ \A r \in Runs :
              /\ run'[r].pc # "idle" => run'[r].session \in Sessions
              /\ run'[r].pc = "settle" => paid'[run'[r].session] = "approved"
              /\ run'[r].pc = "review" => paid'[run'[r].session] = "other"
    BY <1>4 DEF SaleInv, Settled
  <2> QED BY <2>1, <2>2, <2>3 DEF Settled
<1> QED BY <1>2, <1>6

\* A step of delete_account that has not committed.
LEMMA ErasingStep ==
  ASSUME CreditInv, NEW a \in Accounts,
         \A b \in Accounts \ {a} : erase'[b] = erase[b],
         \/ erase'[a].pc = "no" /\ erase'[a].links = {} /\ erase'[a].rows = {}
         \/ /\ Open(a) /\ erase'[a].pc = "orders"
            /\ erase'[a].links = erase[a].links /\ erase'[a].rows = erase[a].rows
         \/ /\ erase[a].pc = "orders" /\ erase'[a].pc = "codes"
            /\ erase'[a].links = {x \in links : x[2] = a} /\ erase'[a].rows = erase[a].rows
         \/ /\ erase[a].pc = "codes" /\ erase'[a].pc = "invites"
            /\ \A i \in InvitesOf(a) : reward[i].pc = "none"
            /\ erase'[a].links = erase[a].links /\ erase'[a].rows = InvitesOf(a) \cap Rows,
         account' = account, links' = links, invites' = invites, sales' = sales,
         granted' = granted
  PROVE  Leaving' /\ InviteInv' /\ SaleInv'
<1> USE DEF CreditInv
<1>1. InviteInv'
  BY InvitesKept
<1>2. Buyers' /\ Settled'
  <2>1. /\ order' = order /\ detached' = detached /\ paid' = paid /\ outcome' = outcome
        /\ refused' = refused /\ run' = run
    BY DEF sales
  <2> QED BY <2>1, SettledKept
<1>3. reward' = reward
  BY DEF invites
<1>4. \A i \in Rows : account[i] # "new"
  BY DEF Rows, InviteInv, Newcomers
<1>5. \A b \in Accounts :
        /\ erase[b].pc # "no" => Open(b)
        /\ \A x \in erase[b].links : x[2] = b
        /\ erase[b].rows \subseteq InvitesOf(b) /\ \A i \in erase[b].rows : account[i] # "new"
        /\ erase[b].pc = "invites" => \A i \in erase[b].rows : reward[i].pc = "none"
  BY DEF Leaving
<1>6. Leaving'
  <2> SUFFICES ASSUME NEW b \in Accounts
               PROVE  /\ erase'[b].pc # "no" => account[b] = "open"
                      /\ \A x \in erase'[b].links : x[2] = b
                      /\ erase'[b].rows \subseteq InvitesOf(b)
                      /\ \A i \in erase'[b].rows : account[i] # "new"
                      /\ erase'[b].pc = "invites" => \A i \in erase'[b].rows : reward[i].pc = "none"
    BY <1>3 DEF Leaving, Open, InvitesOf
  <2>1. CASE b # a
    BY <1>5, <2>1 DEF Open
  <2>2. CASE b = a
    BY <1>4, <1>5, <2>2 DEF Open
  <2> QED BY <2>1, <2>2
<1>7. OnAccount'
  <2> SUFFICES ASSUME NEW s \in granted \cap Sessions, NEW b \in Accounts, b = BuyerOf[OrderOf[s]]
               PROVE  /\ (<<s, b>> \in links) = (account[b] = "open")
                      /\ erase'[b].pc \in {"codes", "invites"} => <<s, b>> \in erase'[b].links
    BY Belongs DEF OnAccount, Open
  <2>1. /\ (<<s, b>> \in links) = (account[b] = "open")
        /\ erase[b].pc \in {"codes", "invites"} => <<s, b>> \in erase[b].links
    BY DEF SaleInv, OnAccount, Open
  <2>2. CASE b # a
    BY <2>1, <2>2
  <2>3. CASE b = a /\ erase'[a].pc = "codes" /\ erase[a].pc = "orders"
    <3>1. Open(a) /\ erase'[a].links = {x \in links : x[2] = a}
      BY <1>5, <2>3
    <3> QED BY <2>1, <2>3, <3>1 DEF Open
  <2>4. CASE b = a /\ ~(erase'[a].pc = "codes" /\ erase[a].pc = "orders")
    BY <2>1, <2>4
  <2> QED BY <2>2, <2>3, <2>4
<1> QED BY <1>1, <1>2, <1>6, <1>7 DEF SaleInv

\* The commit of a deletion.
LEMMA EraseCommitStep ==
  ASSUME CreditInv, NEW a \in Accounts, EraseCommit(a)
  PROVE  Leaving' /\ InviteInv' /\ SaleInv'
<1> USE DEF CreditInv
<1>1. PICK rows : rows = erase[a].rows
  OBVIOUS
<1>2. PICK lost : lost = erase[a].links
  OBVIOUS
<1>3. /\ account[a] = "open" /\ \A x \in lost : x[2] = a
      /\ rows \subseteq Invitees /\ \A i \in rows : a \in {i, InviterOf[i]}
      /\ \A i \in rows : account[i] # "new" /\ reward[i].pc = "none"
  BY <1>1, <1>2 DEF EraseCommit, Leaving, Open, InvitesOf
<1>4. /\ account'[a] = "gone" /\ \A b \in Accounts \ {a} : account'[b] = account[b]
      /\ links' = links \ lost
      /\ erase'[a] = NoErase /\ \A b \in Accounts \ {a} : erase'[b] = erase[b]
      /\ detached' = detached \cup {o \in Orders : BuyerOf[o] = a}
      /\ confirmed' = confirmed \ {a} /\ erase[a].pc = "invites"
      /\ welcomed' = welcomed /\ asked' = asked /\ reward' = reward /\ dropped' = dropped
      /\ budget' = budget /\ granted' = granted
      /\ order' = order /\ paid' = paid /\ outcome' = outcome /\ refused' = refused /\ run' = run
  BY <1>2 DEF EraseCommit, TypeOK
<1>5. \A i \in Invitees :
        \/ invite'[i] = invite[i]
        \/ /\ i \in rows /\ invite'[i].outcome = "gone" /\ invite'[i].slot = -1
           /\ i = a => invite[i].outcome = "pending"
  <2> SUFFICES ASSUME NEW i \in Invitees
               PROVE  \/ invite'[i] = invite[i]
                      \/ /\ i \in rows /\ invite'[i].outcome = "gone" /\ invite'[i].slot = -1
                         /\ i = a => invite[i].outcome = "pending"
    OBVIOUS
  <2>1. invite'[i] = IF i \in rows /\ ~Kept(i, a)
                     THEN [outcome |-> "gone", slot |-> -1] ELSE invite[i]
    BY <1>1 DEF EraseCommit
  <2> QED BY <2>1 DEF Kept
<1>6. /\ \A b \in Accounts : account'[b] = "open" => account[b] = "open" /\ b # a
      /\ \A b \in Accounts : account'[b] = "new" => account[b] = "new"
  BY <1>3, <1>4
<1>7. Leaving'
  <2> SUFFICES ASSUME NEW b \in Accounts
               PROVE  /\ erase'[b].pc # "no" => account'[b] = "open"
                      /\ \A x \in erase'[b].links : x[2] = b
                      /\ erase'[b].rows \subseteq InvitesOf(b)
                      /\ \A i \in erase'[b].rows : account'[i] # "new"
                      /\ erase'[b].pc = "invites" => \A i \in erase'[b].rows : reward[i].pc = "none"
    BY <1>4 DEF Leaving, Open, InvitesOf
  <2>1. CASE b = a
    BY <1>4, <2>1 DEF NoErase
  <2>2. CASE b # a
    <3>1. /\ erase[b].pc # "no" => account[b] = "open"
          /\ \A x \in erase[b].links : x[2] = b
          /\ erase[b].rows \subseteq InvitesOf(b) /\ \A i \in erase[b].rows : account[i] # "new"
          /\ erase[b].pc = "invites" => \A i \in erase[b].rows : reward[i].pc = "none"
      BY DEF Leaving, Open
    <3>2. \A i \in erase[b].rows : i \in Accounts
      BY <3>1, Belongs DEF InvitesOf
    <3> QED BY <1>4, <1>6, <2>2, <3>1, <3>2
  <2> QED BY <2>1, <2>2
<1>8. Newcomers'
  <2> SUFFICES ASSUME NEW j \in Invitees, account'[j] = "new"
               PROVE  /\ invite'[j].outcome = "none" /\ j \notin welcomed' /\ j \notin granted'
                      /\ reward'[j].pc = "none"
    BY DEF Newcomers
  <2>1. account[j] = "new" /\ j \notin rows
    BY <1>3, <1>6, Belongs
  <2> QED BY <1>4, <1>5, <2>1 DEF InviteInv, Newcomers
<1>9. Rewarding'
  <2>1. \A j \in Invitees : reward[j].pc # "none" => invite'[j] = invite[j]
    BY <1>3, <1>5
  <2> QED BY <1>4, <2>1 DEF InviteInv, Rewarding
<1>10. Whole'
  <2> SUFFICES ASSUME NEW j \in Invitees
               PROVE  /\ invite'[j].outcome = "credited" => j \in granted
                      /\ j \in granted => invite'[j].outcome \in {"credited", "gone"}
                      /\ j \in granted /\ account'[InviterOf[j]] = "open"
                            => invite'[j].outcome = "credited"
                      /\ (invite'[j].slot # -1) = (invite'[j].outcome = "credited")
    BY <1>4 DEF Whole, Open
  <2>1. /\ invite[j].outcome = "credited" => j \in granted
        /\ j \in granted => invite[j].outcome \in {"credited", "gone"}
        /\ j \in granted /\ account[InviterOf[j]] = "open" => invite[j].outcome = "credited"
        /\ (invite[j].slot # -1) = (invite[j].outcome = "credited")
    BY DEF InviteInv, Whole, Open
  <2>2. account'[InviterOf[j]] = "open" => account[InviterOf[j]] = "open" /\ InviterOf[j] # a
    BY <1>6, Belongs
  <2>3. CASE invite'[j] = invite[j]
    BY <2>1, <2>2, <2>3
  <2>4. CASE invite'[j] # invite[j]
    <3>1. /\ j \in rows /\ invite'[j].outcome = "gone" /\ invite'[j].slot = -1
          /\ j = a => invite[j].outcome = "pending"
      BY <1>5, <2>4
    <3>2. j = a \/ InviterOf[j] = a
      BY <1>3, <3>1
    <3> QED BY <2>1, <2>2, <3>1, <3>2
  <2> QED BY <2>3, <2>4
<1>11. MonthSlots'
  <2>1. \A j \in Invitees : {invite'[j].slot, reward'[j].slot} \ {-1} \subseteq SlotsOf(j)
    BY <1>4, <1>5 DEF SlotsOf
  <2> QED BY <2>1, MonthSlotsKept DEF InviteInv
<1>12. BudgetSlotsOK'
  BY <1>4, BudgetKept DEF InviteInv
<1>13. NoInviteForgotten'
  <2>1. \A i \in Invitees : Ready(i)' => Ready(i)
    BY <1>4, <1>5 DEF Ready
  <2> QED BY <1>4, <2>1 DEF InviteInv, NoInviteForgotten
<1>14. Buyers' /\ Settled'
  <2>1. \A o \in detached' \ detached : o \in Orders /\ account'[BuyerOf[o]] = "gone"
    BY <1>4
  <2>2. \A b \in Accounts : account'[b] # account[b] => account[b] = "open" /\ account'[b] = "gone"
    BY <1>3, <1>4
  <2> QED BY <1>4, <2>1, <2>2, SettledKept
<1>15. OnAccount'
  <2> SUFFICES ASSUME NEW s \in granted \cap Sessions, NEW b \in Accounts, b = BuyerOf[OrderOf[s]]
               PROVE  /\ (<<s, b>> \in links') = (account'[b] = "open")
                      /\ erase'[b].pc \in {"codes", "invites"} => <<s, b>> \in erase'[b].links
    BY <1>4, Belongs DEF OnAccount, Open
  <2>1. /\ (<<s, b>> \in links) = (account[b] = "open")
        /\ erase[b].pc \in {"codes", "invites"} => <<s, b>> \in erase[b].links
    BY DEF SaleInv, OnAccount, Open
  <2>2. CASE b = a
    BY <1>2, <1>4, <2>1, <2>2 DEF NoErase
  <2>3. CASE b # a
    <3>1. <<s, b>> \notin lost
      BY <1>3, <2>3
    <3> QED BY <1>4, <2>1, <2>3, <3>1
  <2> QED BY <2>2, <2>3
<1> QED BY <1>7, <1>8, <1>9, <1>10, <1>11, <1>12, <1>13, <1>14, <1>15 DEF InviteInv, SaleInv
------------------------------------------------------------------------------
(* Purchases.                                                               *)

\* What a step of a purchase must show: the invites are not its business.
LEMMA SaleStep ==
  ASSUME CreditInv, account' = account, erase' = erase, invites' = invites,
         detached' = detached, granted' \cap Invitees = granted \cap Invitees,
         \A s \in Sessions : paid'[s] # "no" =>
             paid[s] # "no" \/ account[BuyerOf[OrderOf[s]]] # "new"
  PROVE  Leaving' /\ InviteInv' /\ Buyers'
<1> USE DEF CreditInv
<1>1. reward' = reward
  BY DEF invites
<1>2. Leaving'
  BY <1>1, LeavingKept
<1>3. InviteInv'
  BY InvitesKept
<1>4. Buyers'
  BY DEF SaleInv, Buyers
<1> QED BY <1>2, <1>3, <1>4

LEMMA OnAccountKept ==
  ASSUME CreditInv, account' = account, erase' = erase, links' = links, granted' = granted
  PROVE  OnAccount'
BY DEF CreditInv, SaleInv, OnAccount, Open

\* Settled, with what it says of a session, of a refused payment and of a run named apart.
SessionOK(s) ==
    /\ outcome[s] = "delivered" <=> s \in granted
    /\ outcome[s] = "delivered" => order[OrderOf[s]] = s /\ paid[s] = "approved"
    /\ outcome[s] = "review" => paid[s] = "other"

RunOK(r) ==
    /\ run[r].pc # "idle" => run[r].session \in Sessions
    /\ run[r].pc = "settle" => paid[run[r].session] = "approved"
    /\ run[r].pc = "review" => paid[run[r].session] = "other"
    /\ run[r].pc = "refuse" => TurnedDown(run[r].session)

LEMMA SettledParts ==
  Settled <=> /\ \A s \in Sessions : SessionOK(s)
              /\ \A s \in refused : TurnedDown(s)
              /\ \A r \in Runs : RunOK(r)
BY DEF Settled, SessionOK, RunOK

LEMMA SettledAfter ==
  ASSUME \A s \in Sessions : SessionOK(s)',
         \A s \in refused' : TurnedDown(s)',
         \A r \in Runs : RunOK(r)'
  PROVE  Settled'
BY DEF Settled, SessionOK, RunOK

\* The runs that a step leaves alone.
LEMMA RunKept ==
  ASSUME NEW r \in Runs, RunOK(r), run'[r] = run[r],
         \A s \in Sessions : /\ paid[s] \in {"approved", "other"} => paid'[s] = paid[s]
                             /\ TurnedDown(s) => TurnedDown(s)'
  PROVE  RunOK(r)'
<1>1. PICK x : x = run[r]
  OBVIOUS
<1>2. x.pc = "refuse" => TurnedDown(x.session)'
  BY <1>1 DEF RunOK
<1>3. run'[r] = x
  BY <1>1
<1>4. (run[r].pc = "refuse" => TurnedDown(run[r].session))'
  BY <1>2, <1>3 DEF TurnedDown
<1> QED BY <1>1, <1>3, <1>4 DEF RunOK

LEMMA BuyStep ==
  ASSUME CreditInv, NEW s \in Sessions, Buy(s)
  PROVE  Leaving' /\ InviteInv' /\ SaleInv'
<1> USE DEF CreditInv
<1>1. PICK o \in Orders : o = OrderOf[s]
  BY Belongs
<1>2. /\ account[BuyerOf[o]] = "open" /\ paid[s] = "no" /\ order[o] = None
      /\ \A t \in Sessions \ {s} : paid'[t] = paid[t]
      /\ paid'[s] = "open"
      /\ \A p \in Orders \ {o} : order'[p] = order[p]
      /\ order'[o] \in {None, s}
      /\ account' = account /\ erase' = erase /\ links' = links /\ invites' = invites
      /\ detached' = detached /\ outcome' = outcome /\ refused' = refused /\ run' = run
      /\ granted' = granted
  BY <1>1 DEF Buy, Open, people, TypeOK
<1>3. Leaving' /\ InviteInv' /\ Buyers'
  BY <1>1, <1>2, SaleStep
<1>4. OnAccount'
  BY <1>2, OnAccountKept
<1>5. /\ \A t \in Sessions : SessionOK(t)
      /\ \A t \in refused : TurnedDown(t)
      /\ \A r \in Runs : RunOK(r)
  BY SettledParts DEF SaleInv
<1>6. None \notin Sessions
  BY AccountSets
<1>7. \A t \in Sessions : SessionOK(t)'
  BY <1>1, <1>2, <1>5, <1>6, Belongs DEF SessionOK
<1>8. \A t \in Sessions : TurnedDown(t) => TurnedDown(t)'
  BY <1>1, <1>2, <1>6, Belongs DEF TurnedDown
<1>9. \A r \in Runs : RunOK(r)'
  BY <1>2, <1>5, <1>8, RunKept
<1>10. Settled'
  <2>1. \A t \in refused' : TurnedDown(t)'
    BY <1>2, <1>5, <1>8 DEF TypeOK
  <2> QED BY <1>7, <1>9, <2>1, SettledAfter
<1> QED BY <1>3, <1>4, <1>10 DEF SaleInv

LEMMA PayStep ==
  ASSUME CreditInv, NEW s \in Sessions, Pay(s)
  PROVE  Leaving' /\ InviteInv' /\ SaleInv'
<1> USE DEF CreditInv
<1>1. /\ paid[s] = "open" /\ \A t \in Sessions \ {s} : paid'[t] = paid[t]
      /\ account' = account /\ erase' = erase /\ links' = links /\ invites' = invites
      /\ order' = order /\ detached' = detached /\ outcome' = outcome /\ refused' = refused
      /\ run' = run /\ granted' = granted
  BY DEF Pay, people, TypeOK
<1>2. Leaving' /\ InviteInv' /\ Buyers'
  BY <1>1, SaleStep
<1>3. OnAccount'
  BY <1>1, OnAccountKept
<1>4. /\ \A t \in Sessions : SessionOK(t)
      /\ \A t \in refused : TurnedDown(t)
      /\ \A r \in Runs : RunOK(r)
  BY SettledParts DEF SaleInv
<1>5. \A t \in Sessions : SessionOK(t)'
  BY <1>1, <1>4 DEF SessionOK
<1>6. \A t \in Sessions : TurnedDown(t) => TurnedDown(t)'
  BY <1>1 DEF TurnedDown
<1>7. \A r \in Runs : RunOK(r)'
  BY <1>1, <1>4, <1>6, RunKept
<1>8. Settled'
  <2>1. \A t \in refused' : TurnedDown(t)'
    BY <1>1, <1>4, <1>6 DEF TypeOK
  <2> QED BY <1>5, <1>7, <2>1, SettledAfter
<1> QED BY <1>2, <1>3, <1>8 DEF SaleInv

\* A run takes a paid session up, or comes to its end.
LEMMA RunStep ==
  ASSUME CreditInv, NEW r \in Runs, NEW s \in Sessions,
         \A q \in Runs \ {r} : run'[q] = run[q],
         \/ run'[r].pc = "idle"
         \/ run'[r].session = s /\ run'[r].pc = "settle" /\ paid[s] = "approved"
         \/ run'[r].session = s /\ run'[r].pc = "review" /\ paid[s] = "other"
         \/ run'[r].session = s /\ run'[r].pc = "refuse" /\ TurnedDown(s),
         refused' # refused => refused' = refused \cup {s} /\ TurnedDown(s),
         people' = people, invites' = invites, order' = order, detached' = detached,
         paid' = paid, outcome' = outcome, granted' = granted
  PROVE  Leaving' /\ InviteInv' /\ SaleInv'
<1> USE DEF CreditInv
<1>1. account' = account /\ erase' = erase /\ links' = links
  BY DEF people
<1>2. Leaving' /\ InviteInv' /\ Buyers'
  BY <1>1, SaleStep
<1>3. OnAccount'
  BY <1>1, OnAccountKept
<1>4. /\ \A t \in Sessions : SessionOK(t)
      /\ \A t \in refused : TurnedDown(t)
      /\ \A q \in Runs : RunOK(q)
  BY SettledParts DEF SaleInv
<1>5. \A t \in Sessions : SessionOK(t)'
  BY <1>4 DEF SessionOK
<1>6. \A t \in Sessions : TurnedDown(t) => TurnedDown(t)'
  BY <1>1 DEF TurnedDown
<1>7. \A q \in Runs \ {r} : RunOK(q)'
  BY <1>4, <1>6, RunKept
<1>8. RunOK(r)'
  <2>1. run'[r].pc = "refuse" => run'[r].session = s /\ TurnedDown(s)'
    BY <1>6
  <2>2. (run[r].pc = "refuse" => TurnedDown(run[r].session))'
    BY <2>1 DEF TurnedDown
  <2> QED BY <2>2 DEF RunOK
<1>9. Settled'
  <2>1. \A t \in refused' : TurnedDown(t)'
    BY <1>4, <1>6 DEF TypeOK
  <2> QED BY <1>5, <1>7, <1>8, <2>1, SettledAfter
<1> QED BY <1>2, <1>3, <1>9 DEF SaleInv

\* A run writes the outcome of its session; the grant, if there is one, comes with it.
LEMMA OutcomeStep ==
  ASSUME CreditInv, NEW r \in Runs, NEW s \in Sessions, NEW o \in Orders, o = OrderOf[s],
         \A q \in Runs \ {r} : run'[q] = run[q], run'[r].pc = "idle",
         \A t \in Sessions \ {s} : outcome'[t] = outcome[t],
         \A p \in Orders \ {o} : order'[p] = order[p],
         order[o] \notin {None, s} => order'[o] = order[o],
         order[o] \in {None, s} => order'[o] = s,
         \/ /\ outcome'[s] = "delivered" /\ paid[s] = "approved" /\ Acceptable(s) /\ ~Locked(o)
            /\ granted' = granted \cup {s}
            /\ links' = links \cup {<<s, BuyerOf[o]>>}
         \/ /\ outcome'[s] = "delivered" /\ outcome[s] = "delivered"
            /\ granted' = granted /\ links' = links
         \/ /\ outcome'[s] = "review" /\ paid[s] = "other"
            /\ granted' = granted /\ links' = links,
         account' = account, erase' = erase, invites' = invites, detached' = detached,
         paid' = paid, refused' = refused
  PROVE  Leaving' /\ InviteInv' /\ SaleInv'
<1> USE DEF CreditInv
<1>1. Leaving' /\ InviteInv' /\ Buyers'
  <2>1. granted' \cap Invitees = granted \cap Invitees
    BY Belongs
  <2> QED BY <2>1, SaleStep
<1>2. /\ \A t \in Sessions : SessionOK(t)
      /\ \A t \in refused : TurnedDown(t)
      /\ \A q \in Runs : RunOK(q)
  BY SettledParts DEF SaleInv
<1>3. None \notin Sessions
  BY AccountSets
<1>4. \A t \in Sessions : SessionOK(t)'
  <2> SUFFICES ASSUME NEW t \in Sessions
               PROVE  /\ outcome'[t] = "delivered" <=> t \in granted'
                      /\ outcome'[t] = "delivered" => order'[OrderOf[t]] = t /\ paid[t] = "approved"
                      /\ outcome'[t] = "review" => paid[t] = "other"
    BY DEF SessionOK
  <2>1. /\ outcome[t] = "delivered" <=> t \in granted
        /\ outcome[t] = "delivered" => order[OrderOf[t]] = t /\ paid[t] = "approved"
        /\ outcome[t] = "review" => paid[t] = "other"
    BY <1>2 DEF SessionOK
  <2>2. CASE t # s
    <3>1. t \in granted' <=> t \in granted
      BY <2>2
    <3>2. order[OrderOf[t]] = t => order'[OrderOf[t]] = t
      BY <1>3, <2>2, Belongs
    <3> QED BY <2>1, <2>2, <3>1, <3>2
  <2>3. CASE t = s
    BY <1>3, <2>1, <2>3 DEF Acceptable, Mine
  <2> QED BY <2>2, <2>3
<1>5. \A t \in refused : t \in Sessions
  BY DEF TypeOK
<1>6. \A t \in Sessions : TurnedDown(t) => TurnedDown(t)'
  <2> SUFFICES ASSUME NEW t \in Sessions, order[OrderOf[t]] \notin {None, t}
               PROVE  order'[OrderOf[t]] \notin {None, t}
    BY DEF TurnedDown
  <2>1. CASE OrderOf[t] # o
    BY <2>1, Belongs
  <2>2. CASE OrderOf[t] = o
    BY <1>3, <2>2
  <2> QED BY <2>1, <2>2
<1>7. \A q \in Runs : RunOK(q)'
  <2>1. RunOK(r)'
    BY DEF RunOK
  <2>2. \A q \in Runs \ {r} : RunOK(q)'
    BY <1>2, <1>6, RunKept
  <2> QED BY <2>1, <2>2
<1>8. Settled'
  <2>1. \A t \in refused' : TurnedDown(t)'
    BY <1>2, <1>5, <1>6
  <2> QED BY <1>4, <1>7, <2>1, SettledAfter
<1>9. OnAccount'
  <2> SUFFICES ASSUME NEW t \in granted' \cap Sessions, NEW a \in Accounts, a = BuyerOf[OrderOf[t]]
               PROVE  /\ (<<t, a>> \in links') = (account[a] = "open")
                      /\ erase[a].pc \in {"codes", "invites"} => <<t, a>> \in erase[a].links
    BY Belongs DEF OnAccount, Open
  <2>1. CASE t \in granted
    <3>1. /\ (<<t, a>> \in links) = (account[a] = "open")
          /\ erase[a].pc \in {"codes", "invites"} => <<t, a>> \in erase[a].links
      BY <2>1 DEF SaleInv, OnAccount, Open
    <3>2. <<t, a>> \in links' /\ <<t, a>> \notin links => account[a] = "open"
      BY DEF Acceptable, Open
    <3>3. <<t, a>> \in links => <<t, a>> \in links'
      OBVIOUS
    <3> QED BY <3>1, <3>2, <3>3
  <2>2. CASE t \notin granted
    <3>1. t = s /\ a = BuyerOf[o] /\ Acceptable(s) /\ ~Locked(o) /\ <<s, a>> \in links'
      BY <2>2
    <3>2. account[a] = "open" /\ erase[a].pc = "no"
      BY <3>1 DEF Acceptable, Locked, Open
    <3> QED BY <3>1, <3>2
  <2> QED BY <2>1, <2>2
<1> QED BY <1>1, <1>8, <1>9 DEF SaleInv

LEMMA DeliverStep ==
  ASSUME CreditInv, NEW r \in Runs,
         \/ \E s \in Sessions : Deliver(r, s)
         \/ Settle(r) \/ Review(r) \/ Refuse(r) \/ RunDies(r)
  PROVE  Leaving' /\ InviteInv' /\ SaleInv'
<1> USE DEF CreditInv
<1>1. RunOK(r)
  BY SettledParts DEF SaleInv
<1>2. NoRun.pc = "idle"
  BY DEF NoRun
<1>3. ASSUME NEW s \in Sessions, Deliver(r, s) PROVE Leaving' /\ InviteInv' /\ SaleInv'
  <2>1. /\ \A q \in Runs \ {r} : run'[q] = run[q]
        /\ \/ run'[r].session = s /\ run'[r].pc = "settle" /\ paid[s] = "approved"
           \/ run'[r].session = s /\ run'[r].pc = "review" /\ paid[s] = "other"
        /\ people' = people /\ invites' = invites /\ order' = order /\ detached' = detached
        /\ paid' = paid /\ outcome' = outcome /\ refused' = refused /\ granted' = granted
    BY <1>3 DEF Deliver, TypeOK, people, invites
  <2> QED BY <2>1, RunStep
<1>4. CASE Settle(r)
  <2>1. PICK s \in Sessions : s = run[r].session
    BY <1>1, <1>4 DEF Settle, RunOK
  <2>2. PICK o \in Orders : o = OrderOf[s]
    BY Belongs
  <2>3. paid[s] = "approved"
    BY <1>1, <1>4, <2>1 DEF Settle, RunOK
  <2>4. CASE ~Acceptable(s)
    <3>1. TurnedDown(s)
      <4>1. account[BuyerOf[o]] # "new"
        BY <2>2, <2>3 DEF SaleInv, Buyers
      <4>2. account[BuyerOf[o]] \in {"new", "open", "gone"}
        BY Belongs DEF TypeOK
      <4>3. o \in detached => account[BuyerOf[o]] = "gone"
        BY DEF SaleInv, Buyers
      <4> QED BY <2>2, <2>3, <2>4, <4>1, <4>2, <4>3 DEF TurnedDown, Acceptable, Mine, Open
    <3>2. /\ \A q \in Runs \ {r} : run'[q] = run[q]
          /\ run'[r].session = s /\ run'[r].pc = "refuse"
          /\ people' = people /\ invites' = invites /\ order' = order /\ detached' = detached
          /\ paid' = paid /\ outcome' = outcome /\ refused' = refused /\ granted' = granted
      BY <1>4, <2>1, <2>4 DEF Settle, TypeOK, people, invites
    <3> QED BY <3>1, <3>2, RunStep
  <2>5. CASE Acceptable(s)
    <3>1. /\ \A q \in Runs \ {r} : run'[q] = run[q]
          /\ run'[r].pc = "idle"
          /\ \A t \in Sessions \ {s} : outcome'[t] = outcome[t]
          /\ outcome'[s] = "delivered"
          /\ \A p \in Orders \ {o} : order'[p] = order[p]
          /\ order'[o] = s /\ order[o] \in {None, s}
          /\ ~Locked(o)
          /\ account' = account /\ erase' = erase /\ invites' = invites /\ detached' = detached
          /\ paid' = paid /\ refused' = refused
      BY <1>2, <1>4, <2>1, <2>2, <2>5 DEF Settle, TypeOK, Acceptable, Mine
    <3>2. \/ /\ granted' = granted \cup {s} /\ links' = links \cup {<<s, BuyerOf[o]>>}
          \/ /\ outcome[s] = "delivered" /\ granted' = granted /\ links' = links
      BY <1>4, <2>1, <2>2, <2>5 DEF Settle
    <3> QED BY <2>2, <2>3, <2>5, <3>1, <3>2, OutcomeStep
  <2> QED BY <2>4, <2>5
<1>5. CASE Review(r)
  <2>1. PICK s \in Sessions : s = run[r].session
    BY <1>1, <1>5 DEF Review, RunOK
  <2>2. PICK o \in Orders : o = OrderOf[s]
    BY Belongs
  <2>3. paid[s] = "other"
    BY <1>1, <1>5, <2>1 DEF Review, RunOK
  <2>4. /\ \A q \in Runs \ {r} : run'[q] = run[q]
        /\ run'[r].pc = "idle"
        /\ \A t \in Sessions \ {s} : outcome'[t] = outcome[t]
        /\ outcome'[s] = "review"
        /\ \A p \in Orders \ {o} : order'[p] = order[p]
        /\ order[o] \notin {None, s} => order'[o] = order[o]
        /\ order[o] \in {None, s} => order'[o] = s
        /\ account' = account /\ erase' = erase /\ links' = links /\ invites' = invites
        /\ detached' = detached /\ granted' = granted /\ paid' = paid /\ refused' = refused
    BY <1>2, <1>5, <2>1, <2>2 DEF Review, TypeOK, Mine, people
  <2> QED BY <2>2, <2>3, <2>4, OutcomeStep
<1>6. CASE Refuse(r)
  <2>1. PICK s \in Sessions : s = run[r].session
    BY <1>1, <1>6 DEF Refuse, RunOK
  <2>2. TurnedDown(s)
    BY <1>1, <1>6, <2>1 DEF Refuse, RunOK
  <2>3. /\ \A q \in Runs \ {r} : run'[q] = run[q]
        /\ run'[r].pc = "idle" /\ refused' = refused \cup {s}
        /\ people' = people /\ invites' = invites /\ order' = order /\ detached' = detached
        /\ paid' = paid /\ outcome' = outcome /\ granted' = granted
    BY <1>2, <1>6, <2>1 DEF Refuse, TypeOK, people, invites
  <2> QED BY <2>2, <2>3, RunStep
<1>7. CASE RunDies(r)
  <2>1. PICK s \in Sessions : s = run[r].session
    BY <1>1, <1>7 DEF RunDies, RunOK
  <2>2. /\ \A q \in Runs \ {r} : run'[q] = run[q]
        /\ run'[r].pc = "idle" /\ refused' = refused
        /\ people' = people /\ invites' = invites /\ order' = order /\ detached' = detached
        /\ paid' = paid /\ outcome' = outcome /\ granted' = granted
    BY <1>2, <1>7, <2>1 DEF RunDies, TypeOK, people, invites
  <2> QED BY <2>2, RunStep
<1> QED BY <1>3, <1>4, <1>5, <1>6, <1>7
------------------------------------------------------------------------------
(* The invariant.                                                           *)

LEMMA CreditInit ==
  ASSUME Init
  PROVE  CreditInv
<1>1. PICK done \in SUBSET Rewarded :
        /\ invite = [i \in Invitees |->
              [outcome |-> IF i \in done THEN "credited"
                           ELSE IF i \in Early \ Rewarded THEN "pending" ELSE "none",
               slot |-> IF i \in done THEN 0 ELSE -1]]
        /\ welcomed = Rewarded /\ granted = done
        /\ links = {<<i, InviterOf[i]>> : i \in done}
        /\ budget = 0..(Cardinality(done) - 1)
  BY DEF Init
<1>2. PICK n \in Nat : n = Cardinality(done) /\ n <= Budget /\ IsFiniteSet(done)
  <2>1. IsFiniteSet(Rewarded) /\ Cardinality(Rewarded) <= Budget
    BY AccountSets
  <2>2. IsFiniteSet(done) /\ Cardinality(done) <= Cardinality(Rewarded)
    BY <2>1, FS_Subset
  <2>3. Cardinality(done) \in Nat /\ Cardinality(Rewarded) \in Nat
    BY <2>1, <2>2, FS_CardinalityType
  <2> QED BY <2>1, <2>2, <2>3, AccountSets
<1>3. done \subseteq Invitees /\ done \subseteq Early /\ done \subseteq Rewarded
  BY AccountSets
<1>4. /\ account = [a \in Accounts |-> IF a \in Invitees \ Early THEN "new" ELSE "open"]
      /\ erase = [a \in Accounts |-> NoErase]
      /\ confirmed = Early /\ asked = {} /\ dropped = {}
      /\ reward = [i \in Invitees |-> NoReward]
      /\ order = [o \in Orders |-> None] /\ detached = {}
      /\ paid = [s \in Sessions |-> "no"] /\ outcome = [s \in Sessions |-> "none"]
      /\ refused = {} /\ run = [r \in Runs |-> NoRun]
  BY DEF Init
<1>5. \A i \in Invitees :
        /\ i \in done => invite[i].outcome = "credited" /\ invite[i].slot = 0
        /\ i \notin done => invite[i].outcome \in {"none", "pending"} /\ invite[i].slot = -1
        /\ i \notin Early => invite[i].outcome = "none"
        /\ invite[i].outcome = "pending" => i \notin welcomed
        /\ reward[i] = NoReward /\ reward[i].pc = "none"
        /\ reward[i].slot = -1 /\ reward[i].budget = -1
  BY <1>1, <1>3, <1>4 DEF NoReward
<1>6. TypeOK
  <2>1. invite \in [Invitees -> Invite]
    <3> SUFFICES ASSUME NEW i \in Invitees PROVE invite[i] \in Invite
      BY <1>1
    <3>1. i \in done => 0 \in Slots
      BY AccountSets DEF Slots
    <3> QED BY <1>1, <3>1 DEF Invite
  <2>2. reward \in [Invitees -> Reward] /\ erase \in [Accounts -> Erase]
    BY <1>4 DEF NoReward, Reward, NoErase, Erase
  <2>3. budget \subseteq BudgetSlots
    BY <1>1, <1>2, AccountSets DEF BudgetSlots
  <2>4. links \subseteq Linkable \X Accounts /\ granted \subseteq Grants
    BY <1>1, <1>3, Belongs DEF Linkable, Grants
  <2>5. run \in [Runs -> [pc : {"idle", "settle", "review", "refuse"},
                          session : Sessions \cup {None}]]
    BY <1>4 DEF NoRun
  <2>6. welcomed \subseteq Invitees /\ confirmed \subseteq Accounts
    BY <1>1, <1>4, AccountSets
  <2> QED BY <1>4, <2>1, <2>2, <2>3, <2>4, <2>5, <2>6 DEF TypeOK
<1>7. Leaving
  BY <1>4 DEF Leaving, NoErase
<1>8. Newcomers /\ Rewarding
  <2>1. \A i \in Invitees : account[i] = "new" => i \notin Early
    BY <1>4, Belongs
  <2> QED BY <1>1, <1>3, <1>5, <2>1, AccountSets DEF Newcomers, Rewarding
<1>9. Whole
  BY <1>1, <1>5 DEF Whole
<1>10. MonthSlots
  <2> SUFFICES ASSUME NEW i \in Invitees, NEW j \in Invitees, i # j, InviterOf[i] = InviterOf[j]
               PROVE  SlotsOf(i) \cap SlotsOf(j) = {}
    BY DEF MonthSlots
  <2>1. i \notin done \/ j \notin done
    BY <1>3, AccountSets
  <2> QED BY <1>5, <2>1 DEF SlotsOf
<1>11. BudgetSlotsOK
  <2>1. Cardinality(0..(n - 1)) = n
    BY FS_Interval
  <2>2. granted \cap Invitees = done
    BY <1>1, <1>3
  <2>3. Cardinality(budget) = Cardinality(done) /\ -1 \notin budget
    BY <1>1, <1>2, <2>1
  <2> QED BY <1>2, <1>5, <2>2, <2>3 DEF BudgetSlotsOK
<1>12. NoInviteForgotten
  BY <1>5 DEF NoInviteForgotten, Ready
<1>13. SaleInv
  <2>1. granted \cap Sessions = {}
    BY <1>1, <1>3, Belongs
  <2>2. Buyers
    BY <1>4 DEF Buyers
  <2>3. Settled
    BY <1>4, <2>1 DEF Settled, NoRun
  <2>4. OnAccount
    BY <2>1 DEF OnAccount
  <2> QED BY <2>2, <2>3, <2>4 DEF SaleInv
<1> QED BY <1>6, <1>7, <1>8, <1>9, <1>10, <1>11, <1>12, <1>13 DEF CreditInv, InviteInv

\* The steps about invites leave the purchases alone.
LEMMA InviteSales ==
  ASSUME CreditInv, NEW i \in Invitees,
         \/ Join(i) \/ Welcome(i) \/ Claim(i) \/ TakeSlot(i) \/ TakeBudget(i) \/ Decide(i)
         \/ RewardDies(i)
  PROVE  SaleInv'
<1> USE DEF CreditInv
<1>1. erase' = erase /\ sales' = sales
  BY DEF Join, Welcome, Claim, TakeSlot, TakeBudget, Decide, RewardDies, people, sales
<1>2. \A a \in Accounts : account'[a] # account[a] => account[a] = "new" /\ account'[a] = "open"
  <2>1. CASE Join(i)
    BY <2>1 DEF Join, TypeOK
  <2>2. CASE ~Join(i)
    BY <2>2 DEF Welcome, Claim, TakeSlot, TakeBudget, Decide, RewardDies, people
  <2> QED BY <2>1, <2>2
<1>3. /\ granted' = granted \/ granted' = granted \cup {i}
      /\ links' = links \/ links' = links \cup {<<i, InviterOf[i]>>}
  BY DEF Join, Welcome, Claim, TakeSlot, TakeBudget, Decide, RewardDies, people
<1>4. i \notin Sessions
  BY Belongs
<1>5. granted' \cap Sessions = granted \cap Sessions
  BY <1>3, <1>4
<1>6. \A s \in Sessions, a \in Accounts : <<s, a>> \in links' <=> <<s, a>> \in links
  BY <1>3, <1>4
<1> QED BY <1>1, <1>2, <1>5, <1>6, SalesKept

\* A confirmation, and a code put on an account in another way.
LEMMA OtherSteps ==
  ASSUME CreditInv, NEW a \in Accounts, Confirm(a) \/ \E c \in Codes : LinkCode(c, a)
  PROVE  Leaving' /\ InviteInv' /\ SaleInv'
<1> USE DEF CreditInv
<1>1. CASE Confirm(a)
  <2>1. account' = account /\ erase' = erase /\ links' = links /\ sales' = sales
        /\ granted' = granted
    BY <1>1 DEF Confirm, people
  <2> QED BY <1>1, <2>1, ConfirmStep, SalesKept
<1>2. ASSUME NEW c \in Codes, LinkCode(c, a) PROVE Leaving' /\ InviteInv' /\ SaleInv'
  <2>1. /\ account' = account /\ erase' = erase /\ links' = links \cup {<<c, a>>}
        /\ invites' = invites /\ sales' = sales /\ granted' = granted
    BY <1>2 DEF LinkCode
  <2>2. reward' = reward
    BY <2>1 DEF invites
  <2>3. Leaving'
    BY <2>1, <2>2, LeavingKept
  <2>4. InviteInv'
    BY <2>1, InvitesKept
  <2>5. \A s \in Sessions, b \in Accounts : <<s, b>> \in links' <=> <<s, b>> \in links
    BY <2>1, Belongs
  <2>6. SaleInv'
    BY <2>1, <2>5, SalesKept
  <2> QED BY <2>3, <2>4, <2>6
<1> QED BY <1>1, <1>2

LEMMA EraseStep ==
  ASSUME CreditInv, NEW a \in Accounts,
         EraseOrders(a) \/ EraseCodes(a) \/ EraseInvites(a) \/ EraseCommit(a) \/ EraseDies(a)
  PROVE  Leaving' /\ InviteInv' /\ SaleInv'
<1> USE DEF CreditInv
<1>1. PICK w \in Erase : w = erase[a]
  BY DEF TypeOK
<1>2. CASE EraseOrders(a)
  <2>1. erase' = [erase EXCEPT ![a] = [w EXCEPT !.pc = "orders"]]
    BY <1>1, <1>2 DEF EraseOrders
  <2>2. /\ Open(a) /\ erase'[a].pc = "orders"
        /\ erase'[a].links = erase[a].links /\ erase'[a].rows = erase[a].rows
        /\ \A b \in Accounts \ {a} : erase'[b] = erase[b]
    BY <1>1, <1>2, <2>1 DEF EraseOrders, Erase, TypeOK
  <2>3. account' = account /\ links' = links /\ invites' = invites /\ sales' = sales
        /\ granted' = granted
    BY <1>2 DEF EraseOrders
  <2> QED BY <2>2, <2>3, ErasingStep
<1>3. CASE EraseCodes(a)
  <2>1. PICK mine : mine = {x \in links : x[2] = a}
    OBVIOUS
  <2>2. PICK v : v = [w EXCEPT !.pc = "codes", !.links = mine]
    OBVIOUS
  <2>3. v.pc = "codes" /\ v.links = mine /\ v.rows = w.rows
    BY <1>1, <2>2 DEF Erase
  <2>4. erase' = [erase EXCEPT ![a] = v]
    BY <1>1, <1>3, <2>1, <2>2 DEF EraseCodes
  <2>5. /\ erase[a].pc = "orders" /\ erase'[a].pc = "codes"
        /\ erase'[a].links = mine /\ erase'[a].rows = erase[a].rows
        /\ \A b \in Accounts \ {a} : erase'[b] = erase[b]
    BY <1>1, <1>3, <2>3, <2>4 DEF EraseCodes, TypeOK
  <2>6. account' = account /\ links' = links /\ invites' = invites /\ sales' = sales
        /\ granted' = granted
    BY <1>3 DEF EraseCodes
  <2> QED BY <2>1, <2>5, <2>6, ErasingStep
<1>4. CASE EraseInvites(a)
  <2>1. PICK mine : mine = InvitesOf(a) \cap Rows
    OBVIOUS
  <2>2. PICK v : v = [w EXCEPT !.pc = "invites", !.rows = mine]
    OBVIOUS
  <2>3. v.pc = "invites" /\ v.rows = mine /\ v.links = w.links
    BY <1>1, <2>2 DEF Erase
  <2>4. erase' = [erase EXCEPT ![a] = v]
    BY <1>1, <1>4, <2>1, <2>2 DEF EraseInvites
  <2>5. /\ erase[a].pc = "codes" /\ erase'[a].pc = "invites"
        /\ \A i \in InvitesOf(a) : reward[i].pc = "none"
        /\ erase'[a].rows = mine /\ erase'[a].links = erase[a].links
        /\ \A b \in Accounts \ {a} : erase'[b] = erase[b]
    BY <1>1, <1>4, <2>3, <2>4 DEF EraseInvites, TypeOK
  <2>6. account' = account /\ links' = links /\ invites' = invites /\ sales' = sales
        /\ granted' = granted
    BY <1>4 DEF EraseInvites
  <2> QED BY <2>1, <2>5, <2>6, ErasingStep
<1>5. CASE EraseCommit(a)
  BY <1>5, EraseCommitStep
<1>6. CASE EraseDies(a)
  <2>1. /\ erase'[a].pc = "no" /\ erase'[a].links = {} /\ erase'[a].rows = {}
        /\ \A b \in Accounts \ {a} : erase'[b] = erase[b]
    BY <1>6 DEF EraseDies, NoErase, TypeOK
  <2>2. account' = account /\ links' = links /\ invites' = invites /\ sales' = sales
        /\ granted' = granted
    BY <1>6 DEF EraseDies
  <2> QED BY <2>1, <2>2, ErasingStep
<1> QED BY <1>2, <1>3, <1>4, <1>5, <1>6

LEMMA CreditStep ==
  ASSUME CreditInv, [Next]_vars
  PROVE  CreditInv'
<1>1. CASE UNCHANGED vars
  <2>1. /\ account' = account /\ erase' = erase /\ links' = links /\ granted' = granted
        /\ confirmed' = confirmed /\ welcomed' = welcomed /\ invite' = invite
        /\ asked' = asked /\ reward' = reward /\ dropped' = dropped /\ budget' = budget
        /\ order' = order /\ detached' = detached /\ paid' = paid /\ outcome' = outcome
        /\ refused' = refused /\ run' = run
    BY <1>1 DEF vars, people, invites, sales
  <2>2. invites' = invites /\ sales' = sales
    BY <2>1 DEF invites, sales
  <2>3. TypeOK'
    BY <2>1 DEF CreditInv, TypeOK
  <2>4. Leaving'
    BY <2>1, LeavingKept DEF CreditInv
  <2>5. InviteInv'
    BY <2>1, <2>2, InvitesKept DEF CreditInv
  <2>6. SaleInv'
    BY <2>1, <2>2, SalesKept DEF CreditInv
  <2> QED BY <2>3, <2>4, <2>5, <2>6 DEF CreditInv
<1>2. ASSUME NEW i \in Invitees,
             \/ Join(i) \/ Welcome(i) \/ Claim(i) \/ TakeSlot(i) \/ TakeBudget(i) \/ Decide(i)
             \/ RewardDies(i)
      PROVE  CreditInv'
  <2>1. TypeOK'
    BY <1>2, InviteTypes DEF CreditInv, InviteInv
  <2>2. Leaving' /\ InviteInv'
    BY <1>2, JoinStep, WelcomeStep, ClaimStep, TakeSlotStep, TakeBudgetStep, DecideStep,
       RewardDiesStep
  <2>3. SaleInv'
    BY <1>2, InviteSales
  <2> QED BY <2>1, <2>2, <2>3 DEF CreditInv
<1>3. ASSUME NEW a \in Accounts,
             \/ Confirm(a) \/ EraseOrders(a) \/ EraseCodes(a) \/ EraseInvites(a)
             \/ EraseCommit(a) \/ EraseDies(a) \/ \E c \in Codes : LinkCode(c, a)
      PROVE  CreditInv'
  <2>1. TypeOK'
    BY <1>3, AccountTypes DEF CreditInv
  <2>2. Leaving' /\ InviteInv' /\ SaleInv'
    BY <1>3, OtherSteps, EraseStep
  <2> QED BY <2>1, <2>2 DEF CreditInv
<1>4. ASSUME \/ \E s \in Sessions : Buy(s) \/ Pay(s) \/ \E r \in Runs : Deliver(r, s)
             \/ \E r \in Runs : Settle(r) \/ Review(r) \/ Refuse(r) \/ RunDies(r)
      PROVE  CreditInv'
  <2>1. TypeOK'
    BY <1>4, SaleTypes DEF CreditInv, SaleInv
  <2>2. Leaving' /\ InviteInv' /\ SaleInv'
    BY <1>4, BuyStep, PayStep, DeliverStep
  <2> QED BY <2>1, <2>2 DEF CreditInv
<1> QED BY <1>1, <1>2, <1>3, <1>4 DEF Next

\* What the rows, the slots, the open transactions and the purchases say of each other: the
\* inductive invariant behind the three results below.
THEOREM CreditsAlways == Spec => []CreditInv
<1>1. CreditInv /\ [Next]_vars => CreditInv'
  BY CreditStep
<1> QED BY <1>1, CreditInit, PTL DEF Spec

LEMMA Caps ==
  /\ IsFiniteSet(0..(MonthlyCap - 1)) /\ Cardinality(0..(MonthlyCap - 1)) = MonthlyCap
  /\ IsFiniteSet(0..(Budget - 1)) /\ Cardinality(0..(Budget - 1)) = Budget
<1>1. ASSUME NEW n \in Nat
      PROVE  IsFiniteSet(0..(n - 1)) /\ Cardinality(0..(n - 1)) = n
  <2>1. 0 \in Int /\ n - 1 \in Int
    OBVIOUS
  <2>2. /\ IsFiniteSet(0..(n - 1))
        /\ Cardinality(0..(n - 1)) = IF 0 > n - 1 THEN 0 ELSE (n - 1) - 0 + 1
    BY <2>1, FS_Interval
  <2> QED BY <2>2
<1> QED BY <1>1, AccountSets

\* No account is rewarded more often than the month's cap, nor all of them together more often
\* than the budget allows, and a reward is all or nothing: the unique slots do what no count
\* could, since each transaction sees only what others have committed.
THEOREM RewardLimitsHold == Spec => []RewardLimits
<1>1. CreditInv => RewardLimits
  <2> SUFFICES ASSUME CreditInv PROVE RewardLimits
    OBVIOUS
  <2>1. TypeOK /\ Whole /\ MonthSlots /\ BudgetSlotsOK
    BY DEF CreditInv, InviteInv
  <2>2. RewardIsWhole
    BY <2>1 DEF RewardIsWhole, Whole, BudgetSlotsOK
  <2>3. ASSUME NEW a \in Accounts, Open(a)
        PROVE  Cardinality({i \in granted \cap Invitees : InviterOf[i] = a}) <= MonthlyCap
    <3>1. PICK S : S = {i \in granted \cap Invitees : InviterOf[i] = a}
      OBVIOUS
    <3>2. \A i \in S : /\ i \in Invitees /\ InviterOf[i] = a
                       /\ invite[i].slot # -1 /\ invite[i].slot \in Slots
      BY <2>1, <2>3, <3>1 DEF Whole, TypeOK, Invite
    <3>3. \A i, j \in S : invite[i].slot = invite[j].slot => i = j
      BY <2>1, <3>2 DEF MonthSlots, SlotsOf
    <3>4. PICK f : f = [i \in S |-> invite[i].slot]
      OBVIOUS
    <3>5. PICK T : T = 0..(MonthlyCap - 1)
      OBVIOUS
    <3>6. f \in Injection(S, T)
      BY <3>2, <3>3, <3>4, <3>5 DEF Injection, IsInjective, Slots
    <3>7. IsFiniteSet(T) /\ Cardinality(T) = MonthlyCap
      BY <3>5, Caps
    <3>8. IsFiniteSet(S) /\ Cardinality(S) <= Cardinality(T)
      BY <3>6, <3>7, FS_Injection
    <3>9. Cardinality(S) \in Nat /\ Cardinality(T) \in Nat
      BY <3>7, <3>8, FS_CardinalityType
    <3> QED BY <3>1, <3>7, <3>8, <3>9, AccountSets
  <2>4. Cardinality(granted \cap Invitees) <= Budget
    <3>1. PICK T : T = 0..(Budget - 1)
      OBVIOUS
    <3>2. IsFiniteSet(T) /\ Cardinality(T) = Budget
      BY <3>1, Caps
    <3>3. budget \in SUBSET T
      BY <2>1, <3>1 DEF TypeOK, BudgetSlots
    <3>4. IsFiniteSet(budget) /\ Cardinality(budget) <= Cardinality(T)
      BY <3>2, <3>3, FS_Subset
    <3>5. Cardinality(budget) \in Nat /\ Cardinality(T) \in Nat
      BY <3>2, <3>4, FS_CardinalityType
    <3>6. Cardinality(budget) = Cardinality(granted \cap Invitees)
      BY <2>1 DEF BudgetSlotsOK
    <3> QED BY <3>2, <3>4, <3>5, <3>6, AccountSets
  <2> QED BY <2>1, <2>2, <2>3, <2>4 DEF RewardLimits
<1> QED BY <1>1, CreditsAlways, PTL

\* Bought credits are granted once per order and are on the buyer's account exactly as long as
\* it exists, and no payment that granted them is listed as one that did not.
THEOREM BoughtOnceHolds == Spec => []BoughtOnce
<1>1. CreditInv => BoughtOnce
  <2> SUFFICES ASSUME CreditInv PROVE BoughtOnce
    OBVIOUS
  <2>1. TypeOK /\ Buyers /\ Settled /\ OnAccount
    BY DEF CreditInv, SaleInv
  <2>2. RefusedUnlockedNothing
    <3> SUFFICES ASSUME NEW s \in refused
                 PROVE  /\ outcome[s] # "review"
                        /\ outcome[s] = "delivered" => ~Open(BuyerOf[OrderOf[s]])
      BY DEF RefusedUnlockedNothing
    <3>1. s \in Sessions
      BY <2>1 DEF TypeOK
    <3>2. TurnedDown(s)
      BY <2>1 DEF Settled
    <3>3. /\ outcome[s] = "delivered" => order[OrderOf[s]] = s
          /\ outcome[s] = "review" => paid[s] = "other"
      BY <2>1, <3>1 DEF Settled
    <3> QED BY <3>2, <3>3 DEF TurnedDown, Open
  <2>3. ASSUME NEW o \in Orders
        PROVE  Cardinality({s \in granted \cap Sessions : OrderOf[s] = o}) <= 1
    <3>1. PICK S : S = {s \in granted \cap Sessions : OrderOf[s] = o}
      OBVIOUS
    <3>2. PICK t : t = order[o]
      OBVIOUS
    <3>3. S \in SUBSET {t}
      BY <2>1, <3>1, <3>2 DEF Settled
    <3>4. IsFiniteSet({t}) /\ Cardinality({t}) = 1
      BY FS_Singleton
    <3>5. Cardinality(S) <= Cardinality({t})
      BY <3>3, <3>4, FS_Subset
    <3> QED BY <3>1, <3>4, <3>5
  <2>4. \A s \in granted \cap Sessions :
          (<<s, BuyerOf[OrderOf[s]]>> \in links) = Open(BuyerOf[OrderOf[s]])
    BY <2>1 DEF OnAccount
  <2> QED BY <2>2, <2>3, <2>4 DEF BoughtOnce
<1> QED BY <1>1, CreditsAlways, PTL

\* No invite that could be settled is forgotten, unless the request that would settle it died:
\* of the requests that commit their own part and then look, the last one sees the rest.
THEOREM NoInviteForgottenHolds == Spec => []NoInviteForgotten
<1>1. CreditInv => NoInviteForgotten
  BY DEF CreditInv, InviteInv
<1> QED BY <1>1, CreditsAlways, PTL
=============================================================================
