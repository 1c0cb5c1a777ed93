------------------------ MODULE CardPayments_proofs ------------------------
(***************************************************************************)
(* Proofs about CardPayments, for any number of reports, orders, sessions, *)
(* codes, requests and runs of fulfil.                                     *)
(***************************************************************************)
EXTENDS CardPayments, FiniteSetTheorems, TLAPS

------------------------------------------------------------------------------
(* Records.                                                                 *)

LEMMA IdleRecords == IdleClick \in ClickState /\ IdleHook \in HookState
  BY DEF IdleClick, ClickState, IdleHook, HookState, Statuses

LEMMA CreatingType ==
  ASSUME NEW r \in Reports, NEW o \in Orders
  PROVE  /\ Creating(r, o) \in ClickState
         /\ Creating(r, o).pc = "create"
         /\ Creating(r, o).report = r /\ Creating(r, o).order = o
  BY DEF Creating, IdleClick, ClickState, Statuses

\* A request under way keeps its fields when one of them moves on.
LEMMA ClickMoves ==
  ASSUME TypeOK, ClickOK, NEW k \in Clicks, NEW c \in ClickState,
         click' = [click EXCEPT ![k] = c],
         c.pc # "idle" =>
            /\ c.report \in Reports /\ c.order \in Orders
            /\ c.pc # "create" => c.session \in Sessions
  PROVE  click' \in [Clicks -> ClickState] /\ ClickOK'
  BY DEF TypeOK, ClickOK

LEMMA OrderMoves ==
  ASSUME TypeOK, NEW o \in Orders, NEW row \in OrderRow,
         order' = [order EXCEPT ![o] = row]
  PROVE  order' \in [Orders -> OrderRow]
  BY DEF TypeOK

------------------------------------------------------------------------------
(* Type correctness, with what the requests and sessions under way hold.     *)

Shape == TypeOK /\ ClickOK /\ HookOK /\ SessionOK

LEMMA InitShape == Init => Shape
  BY SetsAssumption, IdleRecords DEF Init, Shape, TypeOK, ClickOK, HookOK, SessionOK, OrderRow,
       CodeRow, SessionRow, Statuses, Plans, NoRow, NoCode, NoStripeSession, IdleClick, IdleHook

\* Reserving an order keeps rows and requests well formed.
LEMMA ReserveShape ==
  ASSUME Shape, NEW k \in Clicks, Reserve(k)
  PROVE  Shape'
<1> USE SetsAssumption DEF Shape
<1>1. PICK r \in Reports, p \in PlansOnSale, l \in Langs, c \in Countries :
         ReuseOrder(k, r, p, l, c) \/ NewOrder(k, r, p, l, c)
  BY DEF Reserve
<1>2. CASE ReuseOrder(k, r, p, l, c)
  <2> DEFINE o == slot[<<r, p, l>>]
  <2>1. o \in Orders /\ order[o] \in OrderRow
    BY <1>2 DEF TypeOK, ReuseOrder, Slots, Plans
  <2>2. onPage' \in [Reports -> Sessions \cup {None}]
    BY <1>2, <2>1 DEF TypeOK, ReuseOrder, OrderRow
  <2>3. click' = click \/ click' = [click EXCEPT ![k] = Creating(r, o)]
    BY <1>2 DEF ReuseOrder
  <2> HIDE DEF o
  <2>4. click' \in [Clicks -> ClickState] /\ ClickOK'
    BY <2>1, <2>3, CreatingType, ClickMoves DEF TypeOK, ClickOK
  <2> QED BY <1>2, <2>2, <2>4 DEF TypeOK, HookOK, SessionOK, ReuseOrder, db
<1>3. CASE NewOrder(k, r, p, l, c)
  <2>1. PICK o \in Orders :
          /\ order' = [order EXCEPT ![o] =
               [NoRow EXCEPT !.status = "creating", !.report = r, !.plan = p,
                             !.live = TRUE, !.country = c]]
          /\ slot' = [slot EXCEPT ![<<r, p, l>>] = o]
          /\ click' = [click EXCEPT ![k] = Creating(r, o)]
    BY <1>3 DEF NewOrder
  <2>2. order' \in [Orders -> OrderRow]
    BY <2>1 DEF TypeOK, OrderRow, NoRow, Statuses, Plans
  <2>3. slot' \in [Slots -> Orders \cup {None}]
    BY <2>1 DEF TypeOK
  <2>4. click' \in [Clicks -> ClickState] /\ ClickOK'
    <3>1. click' = [click EXCEPT ![k] = Creating(r, o)]
      BY <2>1
    <3> QED BY <3>1, CreatingType, ClickMoves DEF TypeOK, ClickOK
  <2>5. onPage' \in [Reports -> Sessions \cup {None}]
    BY <1>3 DEF TypeOK, NewOrder
  <2> QED BY <1>3, <2>2, <2>3, <2>4, <2>5 DEF TypeOK, HookOK, SessionOK, NewOrder
<1> QED BY <1>1, <1>2, <1>3

\* Opening a session: stripe changes only at a session that did not exist.
LEMMA OpenSessionShape ==
  ASSUME Shape, NEW k \in Clicks, OpenSession(k)
  PROVE  Shape'
<1> USE SetsAssumption DEF Shape
<1>0. /\ click[k] \in ClickState /\ click[k].report \in Reports /\ click[k].order \in Orders
      /\ click[k].pc = "create"
  BY DEF TypeOK, ClickOK, OpenSession
<1>1. PICK s \in Sessions :
        /\ \/ stripe' = stripe
           \/ /\ stripe[s].state = "none"
              /\ stripe' = [stripe EXCEPT ![s] =
                   [NoStripeSession EXCEPT !.state = "open", !.order = click[k].order,
                    !.report = click[k].report, !.plan = order[click[k].order].plan]]
        /\ click' = [click EXCEPT ![k].pc = "read", ![k].session = s]
  BY DEF OpenSession
<1>2. click' \in [Clicks -> ClickState] /\ ClickOK'
  BY <1>0, <1>1 DEF TypeOK, ClickState, ClickOK
<1>3. stripe' \in [Sessions -> SessionRow] /\ SessionOK' /\ HookOK'
  <2>1. CASE stripe' = stripe
    BY <2>1 DEF TypeOK, SessionOK, HookOK, OpenSession
  <2>2. CASE stripe' # stripe
    <3> DEFINE new == [NoStripeSession EXCEPT !.state = "open", !.order = click[k].order,
                         !.report = click[k].report, !.plan = order[click[k].order].plan]
    <3>1. stripe[s].state = "none" /\ stripe' = [stripe EXCEPT ![s] = new]
      BY <1>1, <2>2
    <3>2. new \in SessionRow /\ new.state = "open" /\ new.report \in Reports
      BY <1>0 DEF TypeOK, OrderRow, SessionRow, NoStripeSession
    <3> HIDE DEF new
    <3> QED BY <3>1, <3>2 DEF TypeOK, SessionOK, HookOK, OpenSession
  <2> QED BY <2>1, <2>2
<1> QED BY <1>2, <1>3 DEF OpenSession, TypeOK, db

\* attach_checkout_session, its read and its write.
LEMMA AttachShape ==
  ASSUME Shape, NEW k \in Clicks, AttachRead(k) \/ AttachWrite(k)
  PROVE  Shape'
<1> USE SetsAssumption, IdleRecords DEF Shape
<1>0. /\ click[k] \in ClickState /\ click[k].report \in Reports /\ click[k].order \in Orders
      /\ click[k].session \in Sessions /\ order[click[k].order] \in OrderRow
  BY DEF TypeOK, ClickOK, AttachRead, AttachWrite
<1>1. CASE AttachRead(k)
  <2> DEFINE seen == [click[k] EXCEPT !.pc = "write", !.seen = order[click[k].order].status]
  <2>1. /\ seen \in ClickState
        /\ seen.report \in Reports /\ seen.order \in Orders /\ seen.session \in Sessions
    BY <1>0 DEF ClickState, OrderRow
  <2>2. \/ click' = [click EXCEPT ![k] = seen]
        \/ click' = [click EXCEPT ![k] = IdleClick]
    BY <1>1 DEF AttachRead
  <2> HIDE DEF seen
  <2>3. click' \in [Clicks -> ClickState] /\ ClickOK'
    BY <2>1, <2>2, ClickMoves DEF IdleClick
  <2> QED BY <1>1, <2>3 DEF TypeOK, HookOK, SessionOK, AttachRead, db
<1>2. CASE AttachWrite(k)
  <2>1. \/ click' = [click EXCEPT ![k].pc = "list"]
        \/ click' = [click EXCEPT ![k] = IdleClick]
    BY <1>2 DEF AttachWrite
  <2>2. click' \in [Clicks -> ClickState] /\ ClickOK'
    BY <1>0, <2>1 DEF TypeOK, ClickOK, ClickState, IdleClick
  <2>3. order' \in [Orders -> OrderRow]
    <3> DEFINE row == Attached(click[k].order, click[k].session, click[k].seen)
    <3>1. row \in OrderRow
      BY <1>0 DEF Attached, OrderRow, Statuses
    <3>2. order' = order \/ order' = [order EXCEPT ![click[k].order] = row]
      BY <1>2 DEF AttachWrite
    <3> HIDE DEF row
    <3> QED BY <1>0, <3>1, <3>2 DEF TypeOK
  <2> QED BY <1>2, <2>2, <2>3 DEF TypeOK, HookOK, SessionOK, AttachWrite
<1> QED BY <1>1, <1>2

\* Closing the sessions the buyer left.
LEMMA ExpireShape ==
  ASSUME Shape, NEW k \in Clicks,
         ListSuperseded(k) \/ ExpireSession(k) \/ MarkExpired(k) \/ ClickDies(k)
  PROVE  Shape'
<1> USE SetsAssumption, IdleRecords DEF Shape
<1>0. click[k] \in ClickState /\ click[k].pc # "idle"
  BY DEF TypeOK, ListSuperseded, ExpireSession, MarkExpired, ClickDies
<1>1. click[k].report \in Reports /\ click[k].order \in Orders
  BY <1>0 DEF ClickOK
<1>2. CASE ListSuperseded(k)
  <2> DEFINE old == Superseded(click[k].order)
             c == [click[k] EXCEPT !.pc = "expire", !.todo = old]
  <2>1. old \in SUBSET (Orders \X Sessions)
    BY DEF Superseded
  <2> HIDE DEF old
  <2>2. c \in ClickState /\ c.report \in Reports /\ c.order \in Orders /\ c.session \in Sessions
    BY <1>0, <1>1, <1>2, <2>1 DEF ClickState, ClickOK, ListSuperseded
  <2>3. click' = [click EXCEPT ![k] = c] \/ click' = [click EXCEPT ![k] = IdleClick]
    BY <1>2 DEF ListSuperseded, old
  <2> HIDE DEF c
  <2>4. click' \in [Clicks -> ClickState] /\ ClickOK'
    BY <2>2, <2>3, ClickMoves DEF IdleClick, TypeOK, ClickOK
  <2> QED BY <1>2, <2>4 DEF TypeOK, HookOK, SessionOK, ListSuperseded, db
<1>3. CASE ExpireSession(k)
  <2>1. PICK x \in click[k].todo :
          IF stripe[x[2]].state = "paid"
          THEN /\ click' = [click EXCEPT ![k] =
                    IF click[k].todo \ {x} = {} THEN IdleClick
                    ELSE [click[k] EXCEPT !.todo = click[k].todo \ {x}]]
               /\ UNCHANGED stripe
          ELSE /\ stripe' = [stripe EXCEPT ![x[2]].state = IF @ = "open" THEN "closed" ELSE @]
               /\ click' = [click EXCEPT ![k] =
                    [@ EXCEPT !.pc = "mark", !.order = x[1], !.session = x[2],
                              !.todo = click[k].todo \ {x}]]
    BY <1>3 DEF ExpireSession
  <2>2. x[1] \in Orders /\ x[2] \in Sessions /\ x \in Orders \X Sessions
    BY <1>0 DEF ClickState
  <2>3. CASE stripe[x[2]].state = "paid"
    <3> DEFINE c == [click[k] EXCEPT !.todo = click[k].todo \ {x}]
    <3>1. c \in ClickState /\ c.report \in Reports /\ c.order \in Orders /\ c.session \in Sessions
      BY <1>0, <1>1, <1>3 DEF ClickState, ClickOK, ExpireSession
    <3>2. click' = [click EXCEPT ![k] = c] \/ click' = [click EXCEPT ![k] = IdleClick]
      BY <2>1, <2>3
    <3> HIDE DEF c
    <3>3. click' \in [Clicks -> ClickState] /\ ClickOK'
      BY <3>1, <3>2, ClickMoves DEF IdleClick, TypeOK, ClickOK
    <3>4. UNCHANGED stripe
      BY <2>1, <2>3
    <3> QED BY <1>3, <3>3, <3>4 DEF TypeOK, HookOK, SessionOK, ExpireSession, db
  <2>4. CASE stripe[x[2]].state # "paid"
    <3> DEFINE c == [click[k] EXCEPT !.pc = "mark", !.order = x[1], !.session = x[2],
                                     !.todo = click[k].todo \ {x}]
               st == [stripe[x[2]] EXCEPT !.state = IF @ = "open" THEN "closed" ELSE @]
    <3>1. c \in ClickState /\ c.report \in Reports /\ c.order \in Orders /\ c.session \in Sessions
      BY <1>0, <1>1, <2>2 DEF ClickState
    <3>2. click' = [click EXCEPT ![k] = c]
      BY <2>1, <2>4
    <3>3. stripe' = [stripe EXCEPT ![x[2]] = st]
      BY <2>1, <2>4
    <3>4. /\ st \in SessionRow /\ st.report = stripe[x[2]].report /\ st.order = stripe[x[2]].order
          /\ st.state = "none" <=> stripe[x[2]].state = "none"
      BY <2>2 DEF TypeOK, SessionRow
    <3> HIDE DEF c, st
    <3>5. click' \in [Clicks -> ClickState] /\ ClickOK'
      BY <3>1, <3>2, ClickMoves DEF TypeOK, ClickOK
    <3>6. stripe' \in [Sessions -> SessionRow] /\ SessionOK'
      BY <2>2, <3>3, <3>4 DEF TypeOK, SessionOK
    <3>7. HookOK'
      BY <1>3, <2>2, <2>4, <3>3 DEF TypeOK, HookOK, ExpireSession
    <3> QED BY <1>3, <3>5, <3>6, <3>7 DEF TypeOK, ExpireSession, db
  <2> QED BY <2>3, <2>4
<1>4. CASE MarkExpired(k)
  <2> DEFINE c == [click[k] EXCEPT !.pc = "expire"]
             live == IF order[click[k].order].status = "open"
                        /\ order[click[k].order].session = click[k].session
                     THEN FALSE ELSE order[click[k].order].live
  <2>1. c \in ClickState /\ c.report \in Reports /\ c.order \in Orders /\ c.session \in Sessions
    BY <1>0, <1>1, <1>4 DEF ClickState, ClickOK, MarkExpired
  <2>2. click' = [click EXCEPT ![k] = c] \/ click' = [click EXCEPT ![k] = IdleClick]
    BY <1>4 DEF MarkExpired
  <2> HIDE DEF c
  <2>3. click' \in [Clicks -> ClickState] /\ ClickOK'
    BY <2>1, <2>2, ClickMoves DEF IdleClick, TypeOK, ClickOK
  <2>4. order' = [order EXCEPT ![click[k].order].live = live]
    BY <1>4 DEF MarkExpired
  <2>5. live \in BOOLEAN
    BY <1>1 DEF TypeOK, OrderRow
  <2> HIDE DEF live
  <2>6. order' \in [Orders -> OrderRow]
    <3> DEFINE row == [order[click[k].order] EXCEPT !.live = live]
    <3>1. row \in OrderRow
      BY <1>1, <2>5 DEF TypeOK, OrderRow
    <3>2. order' = [order EXCEPT ![click[k].order] = row]
      BY <2>4
    <3> HIDE DEF row
    <3> QED BY <1>1, <3>1, <3>2 DEF TypeOK
  <2> QED BY <1>4, <2>3, <2>6 DEF TypeOK, HookOK, SessionOK, MarkExpired
<1>5. CASE ClickDies(k)
  <2>1. click' \in [Clicks -> ClickState] /\ ClickOK'
    BY <1>5, ClickMoves DEF IdleClick, TypeOK, ClickOK, ClickDies
  <2> QED BY <1>5, <2>1 DEF TypeOK, HookOK, SessionOK, ClickDies, db
<1> QED BY <1>2, <1>3, <1>4, <1>5

\* A run of fulfil moves on with a paid session.
LEMMA HookMoves ==
  ASSUME Shape, NEW h \in Hooks, NEW c \in HookState, UNCHANGED stripe,
         hook' = [hook EXCEPT ![h] = c],
         c.pc # "idle" =>
            /\ c.session \in Sessions /\ stripe[c.session].state = "paid"
            /\ c.pc # "settle" => stripe[c.session].order \in Orders
            /\ c.pc = "market" => c.order \in Orders
  PROVE  hook' \in [Hooks -> HookState] /\ HookOK'
  BY DEF Shape, TypeOK, HookOK

\* A run of fulfil starts with a paid session and refuses it or reads the way.
LEMMA FulfilShape ==
  ASSUME Shape, NEW h \in Hooks, NEW s \in Sessions, Fulfil(h, s)
  PROVE  Shape'
<1> USE SetsAssumption
<1> DEFINE c == [pc |-> IF OutsideMarket(s) THEN "review" ELSE "settle",
                 session |-> s, order |-> None]
<1>1. stripe[s] \in SessionRow /\ stripe[s].state = "paid" /\ UNCHANGED stripe
  BY DEF Shape, TypeOK, Fulfil
<1>2. /\ c \in HookState /\ c.session = s /\ c.pc # "market"
      /\ c.pc # "settle" => stripe[s].order \in Orders
  BY <1>1 DEF HookState, OutsideMarket, SessionRow
<1>3. hook' = hook \/ hook' = [hook EXCEPT ![h] = c]
  BY DEF Fulfil
<1>4. refused' \subseteq Sessions
  BY DEF Fulfil, Shape, TypeOK
<1> HIDE DEF c
<1>5. hook' \in [Hooks -> HookState] /\ HookOK'
  BY <1>1, <1>2, <1>3, HookMoves DEF Shape, TypeOK, HookOK
<1> QED BY <1>4, <1>5 DEF Fulfil, Shape, TypeOK, ClickOK, SessionOK

\* The rows a charge is recorded on are well formed.
LEMMA ChargeRows ==
  ASSUME TypeOK, NEW s \in Sessions, NEW o \in Orders
  PROVE  /\ PaidRow(s, o) \in OrderRow
         /\ Outcome(s, o) \in {"delivered", "duplicate"}
         /\ SettledRow(s, o) \in OrderRow
         /\ stripe[s].order \in Orders => ReviewRow(s, o) \in OrderRow
<1>1. stripe[s] \in SessionRow /\ order[o] \in OrderRow
  BY DEF TypeOK
<1>2. PaidRow(s, o) \in OrderRow
  BY <1>1 DEF PaidRow, OrderRow, SessionRow, NoRow, Statuses
<1>3. Outcome(s, o) \in {"delivered", "duplicate"}
  BY DEF Outcome
<1>4. SettledRow(s, o) \in OrderRow
  BY <1>1, <1>2, <1>3 DEF SettledRow, OrderRow, Statuses
<1>5. ASSUME stripe[s].order \in Orders
      PROVE  ReviewRow(s, o) \in OrderRow
  <2>1. order[stripe[s].order] \in OrderRow
    BY <1>5 DEF TypeOK
  <2> DEFINE row == IF order[o].status = "none"
                    THEN [NoRow EXCEPT !.report = stripe[s].report, !.plan = stripe[s].plan,
                                       !.country = order[stripe[s].order].country]
                    ELSE order[o]
  <2>2. row \in OrderRow
    BY <1>1, <2>1 DEF OrderRow, SessionRow, NoRow, Statuses
  <2>3. ReviewRow(s, o) = [row EXCEPT !.status = "paid_review", !.session = s,
                             !.charged = TRUE, !.billing = stripe[s].billing]
    BY DEF ReviewRow
  <2> HIDE DEF row
  <2> QED BY <1>1, <2>2, <2>3 DEF OrderRow, SessionRow, Statuses
<1> QED BY <1>2, <1>3, <1>4, <1>5

\* Giving a pack its credits keeps the codes well formed.
LEMMA EnsurePackType ==
  ASSUME TypeOK, NEW s \in Sessions
  PROVE  EnsurePack(s) \in [Codes -> CodeRow]
  BY PackCodeAssumption DEF EnsurePack, TypeOK, CodeRow, NoCode, PackCredits

\* A paid session names the report it is settled for.
LEMMA PaidNamesReport ==
  ASSUME Shape, NEW h \in Hooks, hook[h].pc # "idle"
  PROVE  /\ hook[h].session \in Sessions /\ stripe[hook[h].session].state = "paid"
         /\ stripe[hook[h].session].report \in Reports
  BY DEF Shape, HookOK, SessionOK

LEMMA SettleShape ==
  ASSUME Shape, NEW h \in Hooks, Settle(h)
  PROVE  Shape'
<1> USE SetsAssumption, IdleRecords
<1> DEFINE s == hook[h].session
           r == stripe[s].report
<1>1. /\ s \in Sessions /\ r \in Reports /\ stripe[s].state = "paid"
      /\ hook[h].pc = "settle" /\ stripe[s] \in SessionRow
  BY PaidNamesReport DEF Settle, Shape, TypeOK
<1>2. UNCHANGED <<slot, deleted, stripe, onPage, click>>
  BY DEF Settle
<1>3. PICK o \in Orders :
        IF Disagrees(s, o)
        THEN /\ refused' = refused \cup {s}
             /\ hook' = [hook EXCEPT ![h] = IdleHook]
             /\ UNCHANGED <<order, unlock, code, link>>
        ELSE /\ order' = [order EXCEPT ![o] = SettledRow(s, o)]
             /\ unlock' = IF Delivers(s, o) /\ Unpaid(r)
                          THEN [unlock EXCEPT ![r] = s] ELSE unlock
             /\ code' = IF Delivers(s, o) /\ stripe[s].plan = "pack"
                        THEN EnsurePack(s) ELSE code
             /\ link' = [link EXCEPT ![s] = o]
             /\ hook' = [hook EXCEPT ![h] =
                  IF stripe[s].order = None THEN IdleHook
                  ELSE [pc |-> "market", session |-> s, order |-> o]]
             /\ UNCHANGED refused
  BY DEF Settle
<1> HIDE DEF s, r
<1>4. CASE Disagrees(s, o)
  <2>1. hook' \in [Hooks -> HookState] /\ HookOK'
    BY <1>2, <1>3, <1>4, HookMoves DEF IdleHook, Shape, TypeOK, HookOK
  <2> QED BY <1>1, <1>2, <1>3, <1>4, <2>1 DEF Shape, TypeOK, ClickOK, SessionOK
<1>5. CASE ~Disagrees(s, o)
  <2> DEFINE c == [pc |-> "market", session |-> s, order |-> o]
  <2>1. /\ c \in HookState /\ c.session = s /\ c.order = o
        /\ stripe[s].order # None => stripe[s].order \in Orders
    BY <1>1 DEF HookState, SessionRow
  <2>2. \/ hook' = [hook EXCEPT ![h] = IdleHook]
        \/ stripe[s].order # None /\ hook' = [hook EXCEPT ![h] = c]
    BY <1>3, <1>5
  <2> HIDE DEF c
  <2>3. hook' \in [Hooks -> HookState] /\ HookOK'
    BY <1>1, <1>2, <2>1, <2>2, HookMoves DEF IdleHook, Shape, TypeOK, HookOK
  <2>4. order' \in [Orders -> OrderRow]
    BY <1>1, <1>3, <1>5, ChargeRows DEF Shape, TypeOK
  <2>5. code' \in [Codes -> CodeRow]
    BY <1>1, <1>3, <1>5, EnsurePackType DEF Shape, TypeOK
  <2>6. /\ unlock' \in [Reports -> Sessions \cup Codes \cup {None}]
        /\ link' \in [Sessions -> Orders \cup {None}]
        /\ refused' = refused
    BY <1>1, <1>3, <1>5 DEF Shape, TypeOK
  <2> QED BY <1>2, <2>3, <2>4, <2>5, <2>6 DEF Shape, TypeOK, ClickOK, SessionOK
<1> QED BY <1>4, <1>5

\* The other ends of a run of fulfil.
LEMMA MarketShape ==
  ASSUME Shape, NEW h \in Hooks, RecordMarket(h) \/ HoldForReview(h) \/ HookDies(h)
  PROVE  Shape'
<1> USE SetsAssumption, IdleRecords
<1> DEFINE s == hook[h].session
<1>1. s \in Sessions /\ stripe[s] \in SessionRow
  BY PaidNamesReport DEF RecordMarket, HoldForReview, HookDies, Shape, TypeOK
<1>2. UNCHANGED stripe /\ hook' = [hook EXCEPT ![h] = IdleHook]
  BY DEF RecordMarket, HoldForReview, HookDies
<1>3. hook' \in [Hooks -> HookState] /\ HookOK'
  BY <1>2, HookMoves DEF IdleHook, Shape, TypeOK, HookOK
<1>4. CASE RecordMarket(h)
  <2> DEFINE o == hook[h].order
             row == [order[o] EXCEPT !.country = order[stripe[s].order].country,
                                     !.billing = stripe[s].billing]
  <2>1. o \in Orders /\ stripe[s].order \in Orders
    BY <1>4 DEF RecordMarket, Shape, HookOK
  <2>2. row \in OrderRow
    <3>1. order[o] \in OrderRow /\ order[stripe[s].order] \in OrderRow
      BY <2>1 DEF Shape, TypeOK
    <3> HIDE DEF o, s
    <3>2. /\ stripe[s].billing \in Countries \cup {None}
          /\ order[stripe[s].order].country \in Countries \cup {None}
      BY <1>1, <3>1 DEF OrderRow, SessionRow
    <3> QED BY <3>1, <3>2 DEF OrderRow
  <2>3. order' = [order EXCEPT ![o] = row]
    BY <1>4 DEF RecordMarket
  <2> HIDE DEF row
  <2>4. order' \in [Orders -> OrderRow]
    BY <2>1, <2>2, <2>3 DEF Shape, TypeOK
  <2> QED BY <1>3, <1>4, <2>4 DEF RecordMarket, Shape, TypeOK, ClickOK, SessionOK
<1>5. CASE HoldForReview(h)
  <2>1. stripe[s].order \in Orders
    BY <1>5 DEF HoldForReview, Shape, HookOK
  <2>2. PICK o \in Orders :
          /\ \/ UNCHANGED <<order, refused>>
             \/ /\ order' = [order EXCEPT ![o] = ReviewRow(s, o)]
                /\ refused' = refused \cup {s}
          /\ link' = [link EXCEPT ![s] = o]
    BY <1>5 DEF HoldForReview
  <2> HIDE DEF s
  <2>3. order' \in [Orders -> OrderRow]
    BY <1>1, <2>1, <2>2, ChargeRows DEF Shape, TypeOK
  <2>4. refused' \subseteq Sessions /\ link' \in [Sessions -> Orders \cup {None}]
    BY <1>1, <2>2 DEF Shape, TypeOK
  <2> QED BY <1>3, <1>5, <2>3, <2>4 DEF HoldForReview, Shape, TypeOK, ClickOK, SessionOK
<1>6. CASE HookDies(h)
  BY <1>3, <1>6 DEF HookDies, Shape, TypeOK, ClickOK, SessionOK, db
<1> QED BY <1>4, <1>5, <1>6

\* Access codes.
LEMMA CodeShape ==
  ASSUME Shape, CodeStep
  PROVE  Shape'
<1> USE SetsAssumption
<1>1. ASSUME NEW c \in Codes, CreateCode(c) \/ DisableCode(c)
      PROVE  Shape'
  <2>1. code' \in [Codes -> CodeRow]
    <3>1. CASE CreateCode(c)
      BY <3>1 DEF CreateCode, Shape, TypeOK, CodeRow, NoCode
    <3>2. CASE DisableCode(c)
      BY <3>2 DEF DisableCode, Shape, TypeOK, CodeRow
    <3> QED BY <1>1, <3>1, <3>2
  <2> QED BY <1>1, <2>1 DEF CreateCode, DisableCode, Shape, TypeOK, ClickOK, HookOK, SessionOK
<1>2. ASSUME NEW r \in Reports, NEW c \in Codes, Redeem(r, c)
      PROVE  Shape'
  <2>1. code' \in [Codes -> CodeRow]
    BY <1>2 DEF Redeem, Shape, TypeOK, CodeRow
  <2>2. unlock' \in [Reports -> Sessions \cup Codes \cup {None}]
    BY <1>2 DEF Redeem, Shape, TypeOK
  <2> QED BY <1>2, <2>1, <2>2 DEF Redeem, Shape, TypeOK, ClickOK, HookOK, SessionOK
<1> QED BY <1>1, <1>2 DEF CodeStep

\* What happens at Stripe: a session that exists keeps its report and order.
LEMMA StripeShape ==
  ASSUME Shape, StripeStep
  PROVE  Shape'
<1> USE SetsAssumption
<1>1. ASSUME NEW s \in Sessions, NEW new \in SessionRow,
             stripe' = [stripe EXCEPT ![s] = new], new.state # "none", new.report \in Reports,
             UNCHANGED <<db, onPage, click, hook>>,
             stripe[s].state # "paid"
      PROVE  Shape'
  <2>1. stripe' \in [Sessions -> SessionRow] /\ SessionOK'
    BY <1>1 DEF Shape, TypeOK, SessionOK
  <2>2. HookOK'
    BY <1>1 DEF Shape, TypeOK, HookOK
  <2> QED BY <1>1, <2>1, <2>2 DEF Shape, TypeOK, ClickOK, db
<1>2. ASSUME NEW s \in Sessions, NEW c \in Countries, Pay(s, c)
      PROVE  Shape'
  <2> DEFINE new == [stripe[s] EXCEPT !.state = "paid", !.billing = c]
  <2>1. /\ new \in SessionRow /\ new.state # "none" /\ new.report \in Reports
        /\ stripe[s].state # "paid"
    BY <1>2 DEF Pay, Shape, TypeOK, SessionOK, SessionRow
  <2>2. stripe' = [stripe EXCEPT ![s] = new] /\ UNCHANGED <<db, onPage, click, hook>>
    BY <1>2 DEF Pay, Shape, TypeOK
  <2> HIDE DEF new
  <2> QED BY <1>1, <2>1, <2>2
<1>3. ASSUME NEW s \in Sessions, SessionTimesOut(s)
      PROVE  Shape'
  <2> DEFINE new == [stripe[s] EXCEPT !.state = "expired"]
  <2>1. /\ new \in SessionRow /\ new.state # "none" /\ new.report \in Reports
        /\ stripe[s].state # "paid"
    BY <1>3 DEF SessionTimesOut, Shape, TypeOK, SessionOK, SessionRow
  <2>2. stripe' = [stripe EXCEPT ![s] = new] /\ UNCHANGED <<db, onPage, click, hook>>
    BY <1>3 DEF SessionTimesOut, Shape, TypeOK
  <2> HIDE DEF new
  <2> QED BY <1>1, <2>1, <2>2
<1>4. ASSUME NEW s \in Sessions, NEW r \in Reports, NEW p \in PlansOnSale,
             NEW full \in BOOLEAN, OpenPaymentLink(s, r, p, full)
      PROVE  Shape'
  <2> DEFINE new == [NoStripeSession EXCEPT !.state = "open", !.report = r, !.plan = p,
                                            !.full = full]
  <2>1. /\ new \in SessionRow /\ new.state # "none" /\ new.report \in Reports
        /\ stripe[s].state # "paid"
    BY <1>4 DEF OpenPaymentLink, SessionRow, NoStripeSession, Plans
  <2>2. stripe' = [stripe EXCEPT ![s] = new] /\ UNCHANGED <<db, onPage, click, hook>>
    BY <1>4 DEF OpenPaymentLink
  <2> HIDE DEF new
  <2> QED BY <1>1, <2>1, <2>2
<1>5. ASSUME NEW s \in Sessions, NEW o \in Orders, OpenSecondSession(s, o)
      PROVE  Shape'
  <2>1. PICK t \in Sessions :
          /\ stripe[t].order = o
          /\ stripe' = [stripe EXCEPT ![s] = [NoStripeSession EXCEPT
               !.state = "open", !.order = o, !.report = stripe[t].report,
               !.plan = stripe[t].plan]]
    BY <1>5 DEF OpenSecondSession
  <2>2. stripe[t].report \in Reports /\ stripe[t] \in SessionRow
    BY <2>1 DEF Shape, TypeOK, SessionOK
  <2> DEFINE new == [NoStripeSession EXCEPT !.state = "open", !.order = o,
                       !.report = stripe[t].report, !.plan = stripe[t].plan]
  <2>3. /\ new \in SessionRow /\ new.state # "none" /\ new.report \in Reports
        /\ stripe[s].state # "paid"
    BY <1>5, <2>2 DEF OpenSecondSession, SessionRow, NoStripeSession
  <2>4. stripe' = [stripe EXCEPT ![s] = new] /\ UNCHANGED <<db, onPage, click, hook>>
    BY <1>5, <2>1 DEF OpenSecondSession
  <2> HIDE DEF new
  <2> QED BY <1>1, <2>3, <2>4
<1> QED BY <1>2, <1>3, <1>4, <1>5 DEF StripeStep

\* Deletion and expiry of an order.
LEMMA OrderShape ==
  ASSUME Shape, (\E r \in Reports : DeleteReport(r)) \/ (\E o \in Orders : OrderTimesOut(o))
  PROVE  Shape'
<1> USE SetsAssumption
<1>1. ASSUME NEW r \in Reports, DeleteReport(r)
      PROVE  Shape'
  <2>1. order' \in [Orders -> OrderRow]
    <3> DEFINE row(o) == [order[o] EXCEPT !.report = None, !.url = FALSE]
    <3>0. \A o \in Orders : order[o] \in OrderRow
      BY DEF Shape, TypeOK
    <3>1. ASSUME NEW o \in Orders PROVE row(o) \in OrderRow
      BY <3>0 DEF OrderRow
    <3>2. order' = [o \in Orders |-> IF order[o].report = r THEN row(o) ELSE order[o]]
      BY <1>1 DEF DeleteReport
    <3> HIDE DEF row
    <3> QED BY <3>0, <3>1, <3>2
  <2>2. slot' \in [Slots -> Orders \cup {None}]
    BY <1>1 DEF DeleteReport, Shape, TypeOK
  <2> QED BY <1>1, <2>1, <2>2 DEF DeleteReport, Shape, TypeOK, ClickOK, HookOK, SessionOK
<1>2. ASSUME NEW o \in Orders, OrderTimesOut(o)
      PROVE  Shape'
  <2>1. order' \in [Orders -> OrderRow]
    <3> DEFINE row == [order[o] EXCEPT !.live = FALSE]
    <3>0. order[o] \in OrderRow
      BY DEF Shape, TypeOK
    <3>1. row \in OrderRow
      BY <3>0 DEF OrderRow
    <3>2. order' = [order EXCEPT ![o] = row]
      BY <1>2 DEF OrderTimesOut
    <3> HIDE DEF row
    <3> QED BY <3>1, <3>2 DEF Shape, TypeOK
  <2> QED BY <1>2, <2>1 DEF OrderTimesOut, Shape, TypeOK, ClickOK, HookOK, SessionOK
<1> QED BY <1>1, <1>2

LEMMA StepShape == Shape /\ [Next]_vars => Shape'
<1> SUFFICES ASSUME Shape, [Next]_vars PROVE Shape'
  OBVIOUS
<1>1. CASE UNCHANGED vars
  BY <1>1 DEF vars, Shape, TypeOK, ClickOK, HookOK, SessionOK
<1>2. ASSUME NEW k \in Clicks, CheckoutStep(k) PROVE Shape'
  BY <1>2, ReserveShape, OpenSessionShape, AttachShape, ExpireShape DEF CheckoutStep
<1>3. ASSUME NEW h \in Hooks, FulfilStep(h) PROVE Shape'
  BY <1>3, FulfilShape, SettleShape, MarketShape DEF FulfilStep
<1> QED BY <1>1, <1>2, <1>3, CodeShape, StripeShape, OrderShape DEF Next

\* Every row has the columns its table declares and every request is at a known
\* point of its handler.
THEOREM TypeCorrect == Spec => []TypeOK
<1>1. Shape => TypeOK
  BY DEF Shape
<1> QED BY <1>1, InitShape, StepShape, PTL DEF Spec

------------------------------------------------------------------------------
(* What paid for a report, and the credits a pack comes with.               *)

Money == UnlockedByOwnCharge /\ CodeOK /\ PackGranted

LEMMA InitMoney == Init => Money
  BY SetsAssumption, PackCodeAssumption
  DEF Init, Money, UnlockedByOwnCharge, CodeOK, PackGranted, NoCode, NoStripeSession

\* What a checkout request leaves alone.
LEMMA CheckoutFrame ==
  ASSUME NEW k \in Clicks, CheckoutStep(k)
  PROVE  /\ UNCHANGED <<unlock, code>>
         /\ OpenSession(k) \/ ExpireSession(k) \/ UNCHANGED stripe
<1>1. CASE Reserve(k)
  <2>1. PICK r \in Reports, p \in PlansOnSale, l \in Langs, c \in Countries :
           ReuseOrder(k, r, p, l, c) \/ NewOrder(k, r, p, l, c)
    BY <1>1 DEF Reserve
  <2>2. CASE ReuseOrder(k, r, p, l, c)
    BY <2>2 DEF ReuseOrder, db
  <2>3. CASE NewOrder(k, r, p, l, c)
    BY <2>3 DEF NewOrder
  <2> QED BY <2>1, <2>2, <2>3
<1>2. CASE OpenSession(k)
  BY <1>2 DEF OpenSession, db
<1>3. CASE AttachRead(k)
  BY <1>3 DEF AttachRead, db
<1>4. CASE AttachWrite(k)
  BY <1>4 DEF AttachWrite
<1>5. CASE ListSuperseded(k)
  BY <1>5 DEF ListSuperseded, db
<1>6. CASE ExpireSession(k)
  BY <1>6 DEF ExpireSession, db
<1>7. CASE MarkExpired(k)
  BY <1>7 DEF MarkExpired
<1>8. CASE ClickDies(k)
  BY <1>8 DEF ClickDies, db
<1> QED BY <1>1, <1>2, <1>3, <1>4, <1>5, <1>6, <1>7, <1>8 DEF CheckoutStep

\* Stripe never changes a session that was paid.
LEMMA PaidStays ==
  ASSUME Shape, [Next]_vars, NEW s \in Sessions, stripe[s].state = "paid"
  PROVE  stripe'[s] = stripe[s]
<1>1. CASE UNCHANGED stripe
  BY <1>1
<1>2. ASSUME NEW k \in Clicks, OpenSession(k) \/ ExpireSession(k)
      PROVE  stripe'[s] = stripe[s]
  <2>1. CASE OpenSession(k)
    BY <2>1 DEF OpenSession, Shape, TypeOK
  <2>2. CASE ExpireSession(k)
    BY <2>2 DEF ExpireSession, Shape, TypeOK
  <2> QED BY <1>2, <2>1, <2>2
<1>3. CASE StripeStep
  BY <1>3 DEF StripeStep, Pay, SessionTimesOut, OpenPaymentLink, OpenSecondSession, Shape, TypeOK
<1>4. ASSUME NEW k \in Clicks, CheckoutStep(k), ~(OpenSession(k) \/ ExpireSession(k))
      PROVE  UNCHANGED stripe
  BY <1>4, CheckoutFrame DEF CheckoutStep
<1>5. ASSUME NEW h \in Hooks, FulfilStep(h)
      PROVE  UNCHANGED stripe
  BY <1>5 DEF FulfilStep, Fulfil, Settle, RecordMarket, HoldForReview, HookDies
<1>6. CASE CodeStep
  BY <1>6 DEF CodeStep, CreateCode, DisableCode, Redeem
<1>7. ASSUME (\E r \in Reports : DeleteReport(r)) \/ (\E o \in Orders : OrderTimesOut(o))
      PROVE  UNCHANGED stripe
  BY <1>7 DEF DeleteReport, OrderTimesOut
<1>8. CASE UNCHANGED vars
  BY <1>8 DEF vars
<1> QED BY <1>1, <1>2, <1>3, <1>4, <1>5, <1>6, <1>7, <1>8 DEF Next

\* Only three kinds of step touch what unlocked a report, or a code.
LEMMA QuietSteps ==
  ASSUME [Next]_vars, ~CodeStep, \A h \in Hooks : ~Settle(h)
  PROVE  UNCHANGED <<unlock, code>>
<1>1. ASSUME NEW k \in Clicks, CheckoutStep(k) PROVE UNCHANGED <<unlock, code>>
  BY <1>1, CheckoutFrame
<1>2. ASSUME NEW h \in Hooks, FulfilStep(h) PROVE UNCHANGED <<unlock, code>>
  BY <1>2 DEF FulfilStep, Fulfil, RecordMarket, HoldForReview, HookDies, db
<1>3. CASE StripeStep
  BY <1>3 DEF StripeStep, Pay, SessionTimesOut, OpenPaymentLink, OpenSecondSession, db
<1>4. CASE UNCHANGED vars
  BY <1>4 DEF vars
<1>5. ASSUME (\E r \in Reports : DeleteReport(r)) \/ (\E o \in Orders : OrderTimesOut(o))
      PROVE  UNCHANGED <<unlock, code>>
  BY <1>5 DEF DeleteReport, OrderTimesOut
<1> QED BY <1>1, <1>2, <1>3, <1>4, <1>5 DEF Next

LEMMA QuietMoney ==
  ASSUME Shape, Money, [Next]_vars, UNCHANGED <<unlock, code>>
  PROVE  Money'
<1>1. UnlockedByOwnCharge'
  BY PaidStays DEF Money, UnlockedByOwnCharge
<1>2. PackGranted'
  <2>1. ASSUME NEW s \in Sessions, NEW r \in Reports, unlock[r] = s
        PROVE  stripe'[s] = stripe[s]
    BY <2>1, PaidStays DEF Money, UnlockedByOwnCharge
  <2> QED BY <2>1 DEF Money, PackGranted
<1> QED BY <1>1, <1>2 DEF Money, CodeOK

\* An owner's code and a spent credit touch no pack and no charge.
LEMMA CodeMoney ==
  ASSUME Shape, Money, CodeStep
  PROVE  Money'
<1> USE SetsAssumption, PackCodeAssumption
<1>1. ASSUME NEW c \in Codes, CreateCode(c) PROVE Money'
  <2>1. c \notin PackCodes /\ code' = [code EXCEPT ![c] = [NoCode EXCEPT !.credits = 1]]
    BY <1>1 DEF CreateCode
  <2>2. \A s \in Sessions : PackCode[s] # c
    BY <2>1 DEF PackCodes
  <2>3. UNCHANGED <<unlock, stripe>>
    BY <1>1 DEF CreateCode
  <2>4. PackGranted' /\ UnlockedByOwnCharge'
    BY <2>1, <2>2, <2>3 DEF Money, PackGranted, UnlockedByOwnCharge, Shape, TypeOK
  <2>5. CodeOK'
    BY <2>1 DEF Money, CodeOK, Shape, TypeOK, NoCode
  <2> QED BY <2>4, <2>5 DEF Money
<1>2. ASSUME NEW c \in Codes, DisableCode(c) PROVE Money'
  <2>1. /\ code[c].credits > 0 /\ code' = [code EXCEPT ![c].disabled = TRUE]
        /\ UNCHANGED <<unlock, stripe>>
    BY <1>2 DEF DisableCode
  <2>2. \A d \in Codes : code'[d].credits = code[d].credits /\ code'[d].used = code[d].used
    BY <2>1 DEF Shape, TypeOK, CodeRow
  <2>3. PackGranted' /\ UnlockedByOwnCharge'
    BY <2>1, <2>2 DEF Money, PackGranted, UnlockedByOwnCharge
  <2>4. CodeOK'
    BY <2>1 DEF Money, CodeOK, Shape, TypeOK, CodeRow
  <2> QED BY <2>3, <2>4 DEF Money
<1>3. ASSUME NEW r \in Reports, NEW c \in Codes, Redeem(r, c) PROVE Money'
  <2>1. /\ unlock[r] = None /\ code[c].used < code[c].credits
        /\ code' = [code EXCEPT ![c].used = @ + 1]
        /\ unlock' = [unlock EXCEPT ![r] = c]
        /\ UNCHANGED stripe
    BY <1>3 DEF Redeem, Unpaid, Usable
  <2>2. \A d \in Codes : code'[d].credits = code[d].credits /\ code'[d].disabled = code[d].disabled
    BY <2>1 DEF Shape, TypeOK, CodeRow
  <2>3. \A q \in Reports, s \in Sessions : unlock'[q] = s <=> unlock[q] = s
    BY <2>1 DEF Shape, TypeOK
  <2>4. PackGranted' /\ UnlockedByOwnCharge'
    BY <2>1, <2>2, <2>3 DEF Money, PackGranted, UnlockedByOwnCharge
  <2>5. CodeOK'
    BY <2>1 DEF Money, CodeOK, Shape, TypeOK, CodeRow
  <2> QED BY <2>4, <2>5 DEF Money
<1> QED BY <1>1, <1>2, <1>3 DEF CodeStep

\* What a settlement does to the report and to the pack's code.
LEMMA SettleEffect ==
  ASSUME Shape, Money, NEW h \in Hooks, Settle(h), UNCHANGED <<unlock, code>> => FALSE
  PROVE  \E s \in Sessions, r \in Reports :
           /\ stripe[s].state = "paid" /\ stripe[s].report = r /\ UNCHANGED stripe
           /\ unlock[r] = None
           /\ \A q \in Reports : unlock[q] # s
           /\ code[PackCode[s]].credits = 0
           /\ unlock' = [unlock EXCEPT ![r] = s]
           /\ code' = IF stripe[s].plan = "pack"
                      THEN [code EXCEPT ![PackCode[s]] = [NoCode EXCEPT !.credits = PackCredits]]
                      ELSE code
<1> USE SetsAssumption, PackCodeAssumption
<1> DEFINE s == hook[h].session
           r == stripe[s].report
<1>1. s \in Sessions /\ r \in Reports /\ stripe[s].state = "paid" /\ UNCHANGED stripe
  BY PaidNamesReport DEF Settle
<1>2. PICK o \in Orders :
        \/ UNCHANGED <<unlock, code>>
        \/ /\ unlock' = IF Delivers(s, o) /\ Unpaid(r)
                         THEN [unlock EXCEPT ![r] = s] ELSE unlock
           /\ code' = IF Delivers(s, o) /\ stripe[s].plan = "pack"
                      THEN EnsurePack(s) ELSE code
  BY DEF Settle
<1>3. /\ unlock' = IF Delivers(s, o) /\ Unpaid(r)
                   THEN [unlock EXCEPT ![r] = s] ELSE unlock
      /\ code' = IF Delivers(s, o) /\ stripe[s].plan = "pack"
                THEN EnsurePack(s) ELSE code
      /\ Delivers(s, o)
  BY <1>2
<1>4. Unpaid(r) \/ unlock[r] = s
  BY <1>3 DEF Delivers, Outcome, r
<1> HIDE DEF s, r
<1>5. code[PackCode[s]].credits \in Nat /\ PackCode[s] \in Codes
  BY <1>1 DEF Shape, TypeOK, CodeRow
<1>6. unlock[r] # s
  <2>1. SUFFICES ASSUME unlock[r] = s PROVE FALSE
    OBVIOUS
  <2>2. unlock' = unlock
    BY <1>1, <1>3, <2>1 DEF Unpaid
  <2>3. stripe[s].plan = "pack" => code[PackCode[s]].credits > 0
    BY <1>1, <2>1 DEF Money, PackGranted
  <2>4. code' = code
    BY <1>3, <1>5, <2>3 DEF EnsurePack
  <2> QED BY <2>2, <2>4
<1>7. unlock[r] = None
  BY <1>4, <1>6 DEF Unpaid
<1>8. \A q \in Reports : unlock[q] # s
  BY <1>1, <1>7, <1>6 DEF Money, UnlockedByOwnCharge, r
<1>9. code[PackCode[s]].credits = 0
  BY <1>1, <1>5, <1>8 DEF Money, PackGranted
<1> QED BY <1>1, <1>3, <1>4, <1>6, <1>7, <1>8, <1>9 DEF EnsurePack, r

LEMMA SettleMoney ==
  ASSUME Shape, Money, NEW h \in Hooks, Settle(h)
  PROVE  Money'
<1> USE SetsAssumption, PackCodeAssumption
<1>1. CASE UNCHANGED <<unlock, code>>
  <2>1. [Next]_vars
    BY DEF Next, FulfilStep
  <2> QED BY <1>1, <2>1, QuietMoney
<1>2. CASE ~UNCHANGED <<unlock, code>>
  <2>1. PICK s \in Sessions, r \in Reports :
           /\ stripe[s].state = "paid" /\ stripe[s].report = r /\ UNCHANGED stripe
           /\ unlock[r] = None
           /\ \A q \in Reports : unlock[q] # s
           /\ code[PackCode[s]].credits = 0
           /\ unlock' = [unlock EXCEPT ![r] = s]
           /\ code' = IF stripe[s].plan = "pack"
                      THEN [code EXCEPT ![PackCode[s]] = [NoCode EXCEPT !.credits = PackCredits]]
                      ELSE code
    BY <1>2, SettleEffect
  <2>2. \A q \in Reports, t \in Sessions :
           unlock'[q] = t <=> unlock[q] = t \/ (q = r /\ t = s)
    BY <2>1 DEF Shape, TypeOK
  <2>3. UnlockedByOwnCharge'
    BY <2>1, <2>2 DEF Money, UnlockedByOwnCharge
  <2>4. \A t \in Sessions :
           code'[PackCode[t]].credits > 0 <=>
             \/ code[PackCode[t]].credits > 0
             \/ t = s /\ stripe[s].plan = "pack"
    BY <2>1 DEF Shape, TypeOK, NoCode, PackCredits
  <2>5. PackGranted'
    BY <2>1, <2>2, <2>4 DEF Money, PackGranted
  <2>6. CodeOK'
    BY <2>1 DEF Money, CodeOK, Shape, TypeOK, NoCode, PackCredits
  <2> QED BY <2>3, <2>5, <2>6 DEF Money
<1> QED BY <1>1, <1>2

LEMMA StepMoney == Shape /\ Money /\ [Next]_vars => Money'
<1> SUFFICES ASSUME Shape, Money, [Next]_vars PROVE Money'
  OBVIOUS
<1>1. CASE CodeStep
  BY <1>1, CodeMoney
<1>2. ASSUME NEW h \in Hooks, Settle(h) PROVE Money'
  BY <1>2, SettleMoney
<1>3. CASE ~CodeStep /\ \A h \in Hooks : ~Settle(h)
  BY <1>3, QuietSteps, QuietMoney
<1> QED BY <1>1, <1>2, <1>3

\* The named invariant of the runs is the one proved here.
LEMMA InductiveIs == Inductive <=> Shape /\ Money
  BY DEF Inductive, Shape, Money

\* Inductive holds initially, every step preserves it, and so it always holds.
THEOREM InductiveHolds == Spec => []Inductive
<1>1. Init => Shape /\ Money
  BY InitShape, InitMoney
<1>2. Shape /\ Money /\ [Next]_vars => (Shape /\ Money)'
  BY StepShape, StepMoney
<1> QED BY <1>1, <1>2, InductiveIs, PTL DEF Spec

\* A pack's code exists exactly when its session unlocked the report it was
\* bought with: a duplicate or a held charge grants no credits, and a delivered
\* one is never left without them.
THEOREM PackGrantedHolds == Spec => []PackGranted
<1>1. Inductive => PackGranted
  BY DEF Inductive
<1> QED BY <1>1, InductiveHolds, PTL

------------------------------------------------------------------------------
(* The payment code keeps the promise of Entitlement.                       *)

Issued == {c \in Codes : code[c].credits > 0}
Balance == [c \in Codes |-> code[c].credits - code[c].used]
Void == {c \in Codes : code[c].disabled}

LEMMA PromiseInit == Init => Promise!Init
  BY DEF Init, Promise!Init, NoCode

LEMMA BalanceChange ==
  ASSUME NEW c \in Codes, NEW n, code'[c].credits - code'[c].used = n,
         \A d \in Codes \ {c} :
            code'[d].credits = code[d].credits /\ code'[d].used = code[d].used
  PROVE  Balance' = [Balance EXCEPT ![c] = n]
<1>1. ASSUME NEW d \in Codes \ {c} PROVE Balance'[d] = Balance[d]
  BY <1>1 DEF Balance
<1>2. Balance'[c] = n
  BY DEF Balance
<1>3. Balance = [d \in Codes |-> Balance[d]] /\ Balance' = [d \in Codes |-> Balance'[d]]
  BY DEF Balance
<1> QED BY <1>1, <1>2, <1>3

\* A spent credit, an owner's code and a disabled one are steps of the promise.
LEMMA CodePromise ==
  ASSUME Shape, Money, CodeStep
  PROVE  Promise!Next
<1> USE SetsAssumption, PackCodeAssumption
<1>1. ASSUME NEW c \in Codes, CreateCode(c) PROVE Promise!Grant(c)
  <2>1. /\ c \notin PackCodes /\ code[c].credits = 0 /\ UNCHANGED unlock
        /\ code' = [code EXCEPT ![c] = [NoCode EXCEPT !.credits = 1]]
    BY <1>1 DEF CreateCode
  <2>2. \A s \in Sessions : PackCode[s] # c
    BY <2>1 DEF PackCodes
  <2>3. ~code[c].disabled /\ code'[c] = [credits |-> 1, used |-> 0, disabled |-> FALSE]
    BY <2>1 DEF Money, CodeOK, Shape, TypeOK, NoCode
  <2>4. \A d \in Codes \ {c} : code'[d] = code[d]
    BY <2>1 DEF Shape, TypeOK
  <2>5. Issued' = Issued \cup {c} /\ c \notin Issued
    BY <2>1, <2>3, <2>4 DEF Issued
  <2>6. Balance' = [Balance EXCEPT ![c] = 1]
    <3>1. code'[c].credits - code'[c].used = 1
      BY <2>3
    <3> QED BY <2>4, <3>1, BalanceChange
  <2>7. Void' = Void
    BY <2>3, <2>4 DEF Void
  <2> QED BY <2>1, <2>2, <2>5, <2>6, <2>7 DEF Promise!Grant, Promise!Issue, Issued, Balance, Void
<1>2. ASSUME NEW c \in Codes, DisableCode(c) PROVE Promise!Disable(c)
  <2>1. /\ code[c].credits > 0 /\ UNCHANGED unlock
        /\ code' = [code EXCEPT ![c].disabled = TRUE]
    BY <1>2 DEF DisableCode
  <2>2. \A d \in Codes :
           /\ code'[d].credits = code[d].credits /\ code'[d].used = code[d].used
           /\ code'[d].disabled <=> d = c \/ code[d].disabled
    BY <2>1 DEF Shape, TypeOK, CodeRow
  <2>3. Issued' = Issued /\ c \in Issued
    BY <2>1, <2>2 DEF Issued
  <2>4. Balance' = Balance
    BY <2>2 DEF Balance
  <2>5. Void' = Void \cup {c}
    BY <2>2 DEF Void
  <2> QED BY <2>1, <2>3, <2>4, <2>5 DEF Promise!Disable, Issued, Balance, Void
<1>3. ASSUME NEW r \in Reports, NEW c \in Codes, Redeem(r, c) PROVE Promise!UnlockByCredit(r, c)
  <2>1. /\ unlock[r] = None /\ code[c].used < code[c].credits /\ ~code[c].disabled
        /\ code' = [code EXCEPT ![c].used = @ + 1]
        /\ unlock' = [unlock EXCEPT ![r] = c]
    BY <1>3 DEF Redeem, Unpaid, Usable
  <2>2. \A d \in Codes :
           /\ code'[d].credits = code[d].credits /\ code'[d].disabled = code[d].disabled
           /\ code'[d].used = IF d = c THEN code[d].used + 1 ELSE code[d].used
           /\ code[d].used \in Nat /\ code[d].credits \in Nat
    BY <2>1 DEF Shape, TypeOK, CodeRow
  <2>3. Issued' = Issued /\ c \in Issued /\ c \notin Void /\ Void' = Void
    BY <2>1, <2>2 DEF Issued, Void
  <2>4. Balance[c] > 0 /\ Balance' = [Balance EXCEPT ![c] = @ - 1]
    <3>1. Balance[c] = code[c].credits - code[c].used
      BY DEF Balance
    <3>2. Balance[c] > 0 /\ code'[c].credits - code'[c].used = Balance[c] - 1
      BY <2>1, <2>2, <3>1
    <3> QED BY <2>2, <3>2, BalanceChange
  <2> QED BY <2>1, <2>3, <2>4 DEF Promise!UnlockByCredit, Issued, Balance, Void
<1> QED BY <1>1, <1>2, <1>3 DEF CodeStep, Promise!Next

\* A settlement that unlocks is one step of the promise, its pack included.
LEMMA SettlePromise ==
  ASSUME Shape, Money, NEW h \in Hooks, Settle(h), ~UNCHANGED <<unlock, code>>
  PROVE  Promise!Next
<1> USE SetsAssumption, PackCodeAssumption
<1>1. PICK s \in Sessions, r \in Reports :
         /\ stripe[s].state = "paid" /\ stripe[s].report = r /\ UNCHANGED stripe
         /\ unlock[r] = None
         /\ \A q \in Reports : unlock[q] # s
         /\ code[PackCode[s]].credits = 0
         /\ unlock' = [unlock EXCEPT ![r] = s]
         /\ code' = IF stripe[s].plan = "pack"
                    THEN [code EXCEPT ![PackCode[s]] = [NoCode EXCEPT !.credits = PackCredits]]
                    ELSE code
  BY SettleEffect
<1>2. CASE stripe[s].plan # "pack"
  BY <1>1, <1>2 DEF Promise!Next, Promise!UnlockByCharge
<1>3. CASE stripe[s].plan = "pack"
  <2> DEFINE c == PackCode[s]
  <2>1. c \in Codes /\ code' = [code EXCEPT ![c] = [NoCode EXCEPT !.credits = PackCredits]]
    BY <1>1, <1>3
  <2>2. code[c].credits = 0 /\ ~code[c].disabled
    BY <1>1, <2>1 DEF Money, CodeOK
  <2> HIDE DEF c
  <2>3. code'[c] = [credits |-> PackCredits, used |-> 0, disabled |-> FALSE]
    BY <2>1 DEF Shape, TypeOK, NoCode
  <2>4. \A d \in Codes \ {c} : code'[d] = code[d]
    BY <2>1 DEF Shape, TypeOK
  <2>5. Issued' = Issued \cup {c} /\ c \notin Issued
    BY <2>1, <2>2, <2>3, <2>4 DEF Issued, PackCredits
  <2>6. Balance' = [Balance EXCEPT ![c] = PackCredits]
    <3>1. code'[c].credits - code'[c].used = PackCredits
      BY <2>3 DEF PackCredits
    <3> QED BY <2>1, <2>4, <3>1, BalanceChange
  <2>7. Void' = Void
    BY <2>2, <2>3, <2>4 DEF Void
  <2>8. Promise!Issue(c, PackCredits)
    BY <2>5, <2>6 DEF Promise!Issue, Issued, Balance
  <2>9. Promise!UnlockByCharge(r, s)
    BY <1>1, <2>7, <2>8 DEF Promise!UnlockByCharge, Void, c
  <2> QED BY <2>9 DEF Promise!Next
<1> QED BY <1>2, <1>3

LEMMA PromiseStep == Shape /\ Money /\ [Next]_vars => [Promise!Next]_(Promise!vars)
<1> SUFFICES ASSUME Shape, Money, [Next]_vars PROVE [Promise!Next]_(Promise!vars)
  OBVIOUS
<1>1. CASE CodeStep
  BY <1>1, CodePromise
<1>2. CASE UNCHANGED <<unlock, code>>
  BY <1>2 DEF Promise!vars
<1>3. ASSUME NEW h \in Hooks, Settle(h), ~UNCHANGED <<unlock, code>>
      PROVE  Promise!Next
  BY <1>3, SettlePromise
<1> QED BY <1>1, <1>2, <1>3, QuietSteps

\* Every behaviour of the payment code is one of Entitlement: one unlock per
\* report, one report per charge, two pack credits with the charge that
\* unlocked, one credit per unlock.
THEOREM PromiseKept == Spec => KeepsPromise
<1>1. Spec => [](Shape /\ Money)
  BY InductiveHolds, InductiveIs, PTL
<1> QED BY <1>1, PromiseInit, PromiseStep, PTL DEF Spec, KeepsPromise, Promise!Spec

\* A report is unlocked once: no later payment, credit, retry or deletion
\* replaces what paid for it.
THEOREM UnlockIsFinalHolds == Spec => UnlockIsFinal
<1>1. Shape /\ Money /\ [Next]_vars =>
        [\A r \in Reports : unlock[r] # None => unlock'[r] = unlock[r]]_vars
  <2> SUFFICES ASSUME Shape, Money, [Next]_vars, NEW r \in Reports, unlock[r] # None
               PROVE  unlock'[r] = unlock[r]
    OBVIOUS
  <2>1. CASE CodeStep
    BY <2>1 DEF CodeStep, CreateCode, DisableCode, Redeem, Unpaid, Shape, TypeOK
  <2>2. ASSUME NEW h \in Hooks, Settle(h) PROVE unlock'[r] = unlock[r]
    BY <2>2, SettleEffect DEF Shape, TypeOK
  <2> QED BY <2>1, <2>2, QuietSteps
<1>2. Spec => [](Shape /\ Money)
  BY InductiveHolds, InductiveIs, PTL
<1> QED BY <1>1, <1>2, PTL DEF Spec, UnlockIsFinal

------------------------------------------------------------------------------
(* The orders, and who is about to write them.                              *)

\* A row that was not created is empty, a charge has a session, a session is on one row
\* (session_id is UNIQUE), and a slot names an order of its report.  An order that can be
\* handed to a request without its page has no session yet.
OrdersOK ==
    /\ \A o \in Orders :
        /\ order[o].status = "none" => order[o] = NoRow
        /\ order[o].status \in {"paid_review", "delivered", "duplicate"} => order[o].charged
        /\ order[o].charged => order[o].session # None
        /\ order[o].status \in {"creating", "open"} /\ ~order[o].url /\ order[o].report # None
              => order[o].session = None
        /\ \A p \in Orders : order[o].session # None /\ order[o].session = order[p].session => o = p
    /\ \A x \in Slots : slot[x] # None => order[slot[x]].report = x[1]

\* A request that opens or attaches a session works on order o.
Attaching(k, o) == click[k].pc \in {"create", "read", "write"} /\ click[k].order = o

\* A charge has been paid, and a session is opened for an order that exists.  While the order has no session, or a
\* request works on it, that session is the only one; and the row of another's charge is
\* nobody's order.
OpenedOK ==
    /\ \A o \in Orders :
        /\ order[o].session # None => stripe[order[o].session].state # "none"
        /\ order[o].charged => stripe[order[o].session].state = "paid"
    /\ \A s \in Sessions : stripe[s].order # None => order[stripe[s].order].status # "none"
    /\ \A o \in Orders, s, t \in Sessions :
         (/\ order[o].session = None \/ \E k \in Clicks : Attaching(k, o)
          /\ stripe[s].order = o /\ stripe[t].order = o) => s = t
    /\ \A o \in Orders : order[o].session # None =>
         stripe[order[o].session].order = o \/ \A t \in Sessions : stripe[t].order # o

ClicksOK ==
    \A k \in Clicks, o \in Orders : Attaching(k, o) =>
        /\ order[o].status # "none"
        /\ order[o].session # None => stripe[order[o].session].order = o
        /\ click[k].pc # "create" => stripe[click[k].session].order = o

\* A PaymentIntent points at the order that recorded its charge.
LinksOK == \A s \in Sessions : link[s] # None =>
               order[link[s]].session = s /\ order[link[s]].charged

\* A run of fulfil holds a payment in full; it settles one from inside the market and
\* holds one from outside.
RunsOK ==
    \A h \in Hooks : hook[h].pc # "idle" =>
        LET s == hook[h].session IN
        /\ stripe[s].full
        /\ hook[h].pc = "settle" => ~OutsideMarket(s)
        /\ hook[h].pc = "review" => OutsideMarket(s)
        /\ hook[h].pc = "market" => order[hook[h].order].session = s

\* The order whose charge unlocked a report lost the report when it was deleted.
ClearedOK ==
    \A r \in deleted, s \in Sessions, o \in Orders :
        unlock[r] = s /\ order[o].session = s => order[o].report # r

Ledger == OrdersOK /\ OpenedOK /\ ClicksOK /\ LinksOK /\ RunsOK
Delivery == DeliveredOnce /\ UnlockIsPaid /\ ClearedOK

------------------------------------------------------------------------------
(* How a step may move the rows and the requests.                           *)

\* A request goes on with its order, and with the session it has or with one that was
\* opened for the order; or it starts on an order that exists and has no session yet.
Joins(k, o) ==
    \/ /\ Attaching(k, o)
       /\ click'[k].pc # "create" =>
            \/ click[k].pc # "create" /\ click'[k].session = click[k].session
            \/ stripe'[click'[k].session].order = o
    \/ order[o].session = None /\ order[o].status # "none" /\ click'[k].pc = "create"

ClicksMove == \A k \in Clicks, o \in Orders : Attaching(k, o)' => Joins(k, o)

\* Rows keep their status, session and charge.
RowsStay ==
    \A o \in Orders :
        /\ order'[o].status = order[o].status
        /\ order'[o].session = order[o].session
        /\ order'[o].charged = order[o].charged
        /\ order'[o].url = order[o].url \/ order'[o].report = None
        /\ order'[o].report \in {order[o].report, None}
        /\ order[o] = NoRow => order'[o] = NoRow

\* Sessions keep their order, and a paid one stays paid.
SessionsStay ==
    \A s \in Sessions :
        /\ stripe'[s].order = stripe[s].order
        /\ stripe[s].state = "paid" => stripe'[s].state = "paid"
        /\ stripe[s].state # "none" => stripe'[s].state # "none"

\* The facts of one session or order that the proofs below use.
LEMMA LedgerTypes ==
  ASSUME Shape, OrdersOK
  PROVE  /\ \A o \in Orders : /\ order[o].session \in Sessions \cup {None}
                              /\ order[o] \in OrderRow
                              /\ order[o].report \in Reports \cup {None}
                              /\ order[o].charged => order[o].session \in Sessions
         /\ \A s \in Sessions : stripe[s] \in SessionRow /\ stripe[s].order \in Orders \cup {None}
         /\ \A x \in Slots : x[1] \in Reports /\ slot[x] \in Orders \cup {None}
         /\ None \notin Reports /\ None \notin Orders /\ None \notin Sessions
         /\ NoRow.status = "none" /\ NoRow.session = None /\ NoRow.report = None
         /\ ~NoRow.charged
<1>1. \A o \in Orders : /\ order[o].session \in Sessions \cup {None}
                        /\ order[o] \in OrderRow
                        /\ order[o].report \in Reports \cup {None}
  BY DEF Shape, TypeOK, OrderRow
<1>2. \A s \in Sessions : stripe[s] \in SessionRow /\ stripe[s].order \in Orders \cup {None}
  BY DEF Shape, TypeOK, SessionRow
<1>3. \A x \in Slots : x[1] \in Reports /\ slot[x] \in Orders \cup {None}
  BY DEF Shape, TypeOK, Slots
<1> QED BY <1>1, <1>2, <1>3, SetsAssumption DEF OrdersOK, NoRow

LEMMA RowsStayLedger ==
  ASSUME Shape, Ledger, RowsStay, SessionsStay, ClicksMove, link' = link,
         \A x \in Slots : slot'[x] # None =>
            slot'[x] = slot[x] /\ order'[slot[x]].report = order[slot[x]].report
  PROVE  OrdersOK' /\ OpenedOK' /\ ClicksOK' /\ LinksOK'
<1>0. OrdersOK /\ OpenedOK /\ ClicksOK /\ LinksOK
  BY DEF Ledger
<1>1. OrdersOK'
  <2>1. \A o \in Orders :
          /\ order'[o].status = "none" => order'[o] = NoRow
          /\ order'[o].status \in {"paid_review", "delivered", "duplicate"} => order'[o].charged
          /\ order'[o].charged => order'[o].session # None
          /\ order'[o].status \in {"creating", "open"} /\ ~order'[o].url /\ order'[o].report # None
                => order'[o].session = None
          /\ \A p \in Orders : order'[o].session # None /\ order'[o].session = order'[p].session => o = p
    BY <1>0 DEF OrdersOK, RowsStay
  <2>2. \A x \in Slots : slot'[x] # None => order'[slot'[x]].report = x[1]
    BY <1>0 DEF OrdersOK
  <2> QED BY <2>1, <2>2 DEF OrdersOK
<1>2. OpenedOK'
  <2>1. /\ \A o \in Orders :
             /\ order'[o].session # None => stripe'[order'[o].session].state # "none"
             /\ order'[o].charged => stripe'[order'[o].session].state = "paid"
        /\ \A s \in Sessions : stripe'[s].order # None => order'[stripe'[s].order].status # "none"
        /\ \A o \in Orders : order'[o].session # None =>
              stripe'[order'[o].session].order = o \/ \A t \in Sessions : stripe'[t].order # o
    BY <1>0, LedgerTypes DEF OpenedOK, RowsStay, SessionsStay
  <2>2. ASSUME NEW o \in Orders, NEW s \in Sessions, NEW t \in Sessions,
               order'[o].session = None \/ \E k \in Clicks : Attaching(k, o)',
               stripe'[s].order = o, stripe'[t].order = o
        PROVE  s = t
    <3>1. order[o].session = None \/ \E k \in Clicks : Attaching(k, o)
      BY <2>2 DEF RowsStay, ClicksMove, Joins
    <3> QED BY <1>0, <2>2, <3>1 DEF OpenedOK, SessionsStay
  <2> QED BY <2>1, <2>2 DEF OpenedOK
<1>3. ClicksOK'
  <2> SUFFICES ASSUME NEW k \in Clicks, NEW o \in Orders, Attaching(k, o)'
               PROVE  /\ order'[o].status # "none"
                      /\ order'[o].session # None => stripe'[order'[o].session].order = o
                      /\ click'[k].pc # "create" => stripe'[click'[k].session].order = o
    BY DEF ClicksOK
  <2>1. Joins(k, o)
    BY DEF ClicksMove
  <2>2. CASE order[o].session = None /\ order[o].status # "none" /\ click'[k].pc = "create"
    BY <2>2 DEF RowsStay
  <2>3. CASE /\ Attaching(k, o)
             /\ click'[k].pc # "create" =>
                  \/ click[k].pc # "create" /\ click'[k].session = click[k].session
                  \/ stripe'[click'[k].session].order = o
    <3>1. /\ order[o].status # "none"
          /\ order[o].session # None => stripe[order[o].session].order = o
          /\ click[k].pc # "create" => stripe[click[k].session].order = o
      BY <1>0, <2>3 DEF ClicksOK
    <3>2. order[o].session \in Sessions \cup {None}
      BY <1>0, LedgerTypes
    <3>3. click[k].pc # "create" => click[k].session \in Sessions
      BY <2>3 DEF Attaching, Shape, ClickOK
    <3> QED BY <2>3, <3>1, <3>2, <3>3 DEF RowsStay, SessionsStay
  <2> QED BY <2>1, <2>2, <2>3 DEF Joins
<1>4. LinksOK'
  <2>1. \A s \in Sessions : link[s] \in Orders \cup {None}
    BY DEF Shape, TypeOK
  <2> QED BY <1>0, <2>1 DEF LinksOK, RowsStay
<1> QED BY <1>1, <1>2, <1>3, <1>4

\* A row takes session s: its own already, or the first on a row that has none, of the
\* order the session was opened for or of an order that did not exist.
Takes(o, s, row) ==
    /\ order' = [order EXCEPT ![o] = row]
    /\ row.session = s
    /\ \A p \in Orders \ {o} : order[p].session # s
    /\ order[o].session \in {None, s} /\ stripe[s].state # "none"
    /\ stripe[s].order = o \/ order[o].session = s \/ order[o].status = "none"
    /\ row.status # "none"
    /\ order[o].charged => row.charged
    /\ row.charged => order[o].charged \/ stripe[s].state = "paid"
    /\ row.status \in {"paid_review", "delivered", "duplicate"} => row.charged
    /\ row.status \in {"creating", "open"} => row.url
    /\ order[o].status # "none" => row.report = order[o].report

LEMMA TakesRow ==
  ASSUME Shape, OrdersOK, NEW o \in Orders, NEW s \in Sessions, NEW row, Takes(o, s, row)
  PROVE  /\ order'[o] = row /\ \A p \in Orders : p # o => order'[p] = order[p]
         /\ order[o].charged => order'[o].session = order[o].session /\ order'[o].charged
         /\ s # None
<1>1. order'[o] = row /\ \A p \in Orders : p # o => order'[p] = order[p]
  BY DEF Takes, Shape, TypeOK
<1>2. order[o].charged => order[o].session # None
  BY DEF OrdersOK
<1> QED BY <1>1, <1>2, LedgerTypes DEF Takes

LEMMA TakesLedger ==
  ASSUME Shape, Ledger, NEW o \in Orders, NEW s \in Sessions, NEW row, Takes(o, s, row),
         stripe' = stripe, slot' = slot, ClicksMove,
         \A k \in Clicks, p \in Orders : Attaching(k, p)' => Attaching(k, p)
  PROVE  OrdersOK' /\ OpenedOK' /\ ClicksOK'
<1>0. OrdersOK /\ OpenedOK /\ ClicksOK
  BY DEF Ledger
<1>1. /\ order'[o] = row /\ \A p \in Orders : p # o => order'[p] = order[p]
      /\ s # None
  BY <1>0, TakesRow
<1>2. stripe[s].order = o \/ order[o].session = s \/ \A t \in Sessions : stripe[t].order # o
  BY <1>0, LedgerTypes DEF OpenedOK, Takes
<1>3. OrdersOK'
  <2>1. \A p \in Orders :
          /\ order'[p].status = "none" => order'[p] = NoRow
          /\ order'[p].status \in {"paid_review", "delivered", "duplicate"} => order'[p].charged
          /\ order'[p].charged => order'[p].session # None
          /\ order'[p].status \in {"creating", "open"} /\ ~order'[p].url /\ order'[p].report # None
                => order'[p].session = None
    BY <1>0, <1>1 DEF OrdersOK, Takes
  <2>2. \A p, q \in Orders : order'[p].session # None /\ order'[p].session = order'[q].session => p = q
    BY <1>0, <1>1 DEF OrdersOK, Takes
  <2>3. \A x \in Slots : slot[x] # None => order'[slot[x]].report = x[1]
    <3> SUFFICES ASSUME NEW x \in Slots, slot[x] # None PROVE order'[slot[x]].report = x[1]
      OBVIOUS
    <3>1. slot[x] \in Orders /\ x[1] # None /\ order[slot[x]].report = x[1]
      BY <1>0, LedgerTypes DEF OrdersOK
    <3>2. order[slot[x]].status # "none"
      BY <1>0, <3>1, LedgerTypes DEF OrdersOK
    <3> QED BY <1>1, <3>1, <3>2 DEF Takes
  <2> QED BY <2>1, <2>2, <2>3 DEF OrdersOK
<1>4. OpenedOK'
  <2>1. \A p \in Orders : order'[p].charged => stripe[order'[p].session].state = "paid"
    <3>1. order'[o].charged => stripe[order'[o].session].state = "paid"
      <4>1. CASE order[o].charged
        BY <1>0, <1>1, <4>1, TakesRow DEF OpenedOK
      <4>2. CASE ~order[o].charged
        BY <1>1, <4>2 DEF Takes
      <4> QED BY <4>1, <4>2
    <3> QED BY <1>0, <1>1, <3>1 DEF OpenedOK
  <2>2. \A t \in Sessions : stripe[t].order # None => order'[stripe[t].order].status # "none"
    BY <1>0, <1>1, LedgerTypes DEF OpenedOK, Takes
  <2>3. \A p \in Orders : order'[p].session # None =>
             stripe[order'[p].session].order = p \/ \A t \in Sessions : stripe[t].order # p
    BY <1>0, <1>1, <1>2 DEF OpenedOK, Takes
  <2>4. ASSUME NEW p \in Orders, NEW t \in Sessions, NEW u \in Sessions,
               order'[p].session = None \/ \E k \in Clicks : Attaching(k, p)',
               stripe[t].order = p, stripe[u].order = p
        PROVE  t = u
    <3>1. order[p].session = None \/ \E k \in Clicks : Attaching(k, p)
      BY <1>1, <2>4 DEF Takes
    <3> QED BY <1>0, <2>4, <3>1 DEF OpenedOK
  <2>5. \A p \in Orders : order'[p].session # None => stripe[order'[p].session].state # "none"
    BY <1>0, <1>1 DEF OpenedOK, Takes
  <2> QED BY <2>1, <2>2, <2>3, <2>4, <2>5 DEF OpenedOK
<1>5. ClicksOK'
  <2> SUFFICES ASSUME NEW k \in Clicks, NEW p \in Orders, Attaching(k, p)'
               PROVE  /\ order'[p].status # "none"
                      /\ order'[p].session # None => stripe[order'[p].session].order = p
                      /\ click'[k].pc # "create" => stripe[click'[k].session].order = p
    BY DEF ClicksOK
  <2>1. /\ order[p].status # "none"
        /\ order[p].session # None => stripe[order[p].session].order = p
        /\ click[k].pc # "create" => stripe[click[k].session].order = p
    BY <1>0 DEF ClicksOK
  <2>2. click'[k].pc # "create" => stripe[click'[k].session].order = p
    BY <2>1 DEF ClicksMove, Joins
  <2>3. CASE p = o
    BY <1>1, <1>2, <2>1, <2>2, <2>3 DEF Takes
  <2>4. CASE p # o
    BY <1>1, <2>1, <2>2, <2>4
  <2> QED BY <2>3, <2>4
<1> QED BY <1>3, <1>4, <1>5

\* The link stays, or points at the row that took the session.
LEMMA TakesLinks ==
  ASSUME Shape, Ledger, NEW o \in Orders, NEW s \in Sessions, NEW row, Takes(o, s, row),
         link' = link \/ (link' = [link EXCEPT ![s] = o] /\ row.charged)
  PROVE  LinksOK'
<1>0. OrdersOK /\ LinksOK
  BY DEF Ledger
<1>1. /\ order'[o] = row /\ \A p \in Orders : p # o => order'[p] = order[p]
      /\ order[o].charged => order'[o].session = order[o].session /\ order'[o].charged
  BY <1>0, TakesRow
<1>2. \A t \in Sessions : link[t] \in Orders \cup {None}
  BY DEF Shape, TypeOK
<1>3. \A t \in Sessions : link[t] # None => order'[link[t]].session = t /\ order'[link[t]].charged
  BY <1>0, <1>1, <1>2 DEF LinksOK
<1>4. CASE link' = link
  BY <1>3, <1>4 DEF LinksOK
<1>5. CASE link' = [link EXCEPT ![s] = o] /\ row.charged
  <2>1. link'[s] = o /\ \A t \in Sessions : t # s => link'[t] = link[t]
    BY <1>5 DEF Shape, TypeOK
  <2> QED BY <1>1, <1>3, <1>5, <2>1 DEF LinksOK, Takes
<1> QED BY <1>4, <1>5

------------------------------------------------------------------------------
(* The steps of a checkout request.                                         *)

\* A request that leaves the rows, and Stripe, alone.
LEMMA ClickStep ==
  ASSUME Shape, NEW k \in Clicks, NEW c \in ClickState, click' = [click EXCEPT ![k] = c],
         \A o \in Orders :
            c.pc \in {"create", "read", "write"} /\ c.order = o =>
              \/ /\ Attaching(k, o)
                 /\ c.pc # "create" =>
                      \/ click[k].pc # "create" /\ c.session = click[k].session
                      \/ stripe'[c.session].order = o
              \/ order[o].session = None /\ order[o].status # "none" /\ c.pc = "create"
  PROVE  ClicksMove
<1>1. click'[k] = c /\ \A j \in Clicks : j # k => click'[j] = click[j]
  BY DEF Shape, TypeOK
<1> SUFFICES ASSUME NEW j \in Clicks, NEW o \in Orders, Attaching(j, o)' PROVE Joins(j, o)
  BY DEF ClicksMove
<1>2. CASE j # k
  <2>1. click'[j] = click[j]
    BY <1>1, <1>2
  <2> QED BY <2>1 DEF Joins, Attaching
<1>3. CASE j = k
  BY <1>1, <1>3 DEF Joins, Attaching
<1> QED BY <1>2, <1>3

LEMMA SameClicks == ASSUME click' = click PROVE ClicksMove
  BY DEF ClicksMove, Joins, Attaching

LEMMA SameRows == ASSUME order' = order PROVE RowsStay
  BY DEF RowsStay

\* Every conjunct of Ledger but the runs of fulfil.
Core == OrdersOK /\ OpenedOK /\ ClicksOK /\ LinksOK

\* A row never loses its session or its charge, and the order of a session keeps the
\* country it was made for.
Kept ==
    /\ \A o \in Orders :
        /\ order[o].session # None => order'[o].session = order[o].session
        /\ order[o].charged => order'[o].charged
    /\ \A s \in Sessions : stripe[s].order # None =>
        order'[stripe[s].order].country = order[stripe[s].order].country

\* A session is opened for no order, for the order of a request, or again for an order
\* that has a session and no request.
LEMMA OpensLedger ==
  ASSUME Shape, Ledger, NEW s \in Sessions, stripe[s].state = "none",
         NEW new, new.state = "open", stripe' = [stripe EXCEPT ![s] = new],
         order' = order, slot' = slot, link' = link, ClicksMove,
         \A k \in Clicks, o \in Orders : Attaching(k, o)' => Attaching(k, o),
         new.order # None =>
            /\ new.order \in Orders /\ order[new.order].status # "none"
            /\ \/ \A t \in Sessions : stripe[t].order # new.order
               \/ /\ \E t \in Sessions : stripe[t].order = new.order
                  /\ order[new.order].session # None
                  /\ \A k \in Clicks : ~Attaching(k, new.order)
            /\ order[new.order].session # None =>
                 \E t \in Sessions : stripe[t].order = new.order
  PROVE  Core' /\ Kept
<1>0. OrdersOK /\ OpenedOK /\ ClicksOK /\ LinksOK
  BY DEF Ledger
<1>1. stripe'[s] = new /\ \A t \in Sessions : t # s => stripe'[t] = stripe[t]
  BY DEF Shape, TypeOK
<1>2. stripe[s].order = None /\ \A o \in Orders : order[o].session # s
  BY <1>0, LedgerTypes DEF Shape, SessionOK, OpenedOK
<1>3. \A o \in Orders : order[o].session \in Sessions \cup {None}
  BY <1>0, LedgerTypes
<1>4. OrdersOK' /\ LinksOK'
  BY <1>0 DEF OrdersOK, LinksOK
<1>5. OpenedOK'
  <2>1. \A o \in Orders :
          /\ order[o].session # None => stripe'[order[o].session].state # "none"
          /\ order[o].charged => stripe'[order[o].session].state = "paid"
    BY <1>0, <1>1, <1>2, <1>3, LedgerTypes DEF OpenedOK
  <2>2. \A t \in Sessions : stripe'[t].order # None => order[stripe'[t].order].status # "none"
    BY <1>0, <1>1 DEF OpenedOK
  <2>3. ASSUME NEW o \in Orders, order[o].session # None
        PROVE  stripe'[order[o].session].order = o \/ \A t \in Sessions : stripe'[t].order # o
    <3>1. stripe'[order[o].session] = stripe[order[o].session]
      BY <1>1, <1>2, <1>3, <2>3
    <3>2. CASE stripe[order[o].session].order = o
      BY <3>1, <3>2
    <3>3. CASE \A t \in Sessions : stripe[t].order # o
      BY <1>0, <1>1, <2>3, <3>3, LedgerTypes
    <3> QED BY <1>0, <2>3, <3>2, <3>3 DEF OpenedOK
  <2>4. ASSUME NEW o \in Orders, NEW t \in Sessions, NEW u \in Sessions,
               order[o].session = None \/ \E k \in Clicks : Attaching(k, o)',
               stripe'[t].order = o, stripe'[u].order = o
        PROVE  t = u
    <3>1. order[o].session = None \/ \E k \in Clicks : Attaching(k, o)
      BY <2>4
    <3>2. CASE new.order # o
      <4>1. t # s /\ u # s
        BY <1>1, <2>4, <3>2
      <4> QED BY <1>0, <1>1, <2>4, <3>1, <4>1 DEF OpenedOK
    <3>3. CASE new.order = o
      <4>1. \A v \in Sessions : stripe[v].order # o
        BY <3>1, <3>3, <1>0, LedgerTypes
      <4>2. t = s /\ u = s
        BY <1>1, <2>4, <4>1
      <4> QED BY <4>2
    <3> QED BY <3>2, <3>3
  <2> QED BY <2>1, <2>2, <2>3, <2>4 DEF OpenedOK
<1>6. ClicksOK'
  <2> SUFFICES ASSUME NEW k \in Clicks, NEW o \in Orders, Attaching(k, o)'
               PROVE  /\ order[o].status # "none"
                      /\ order[o].session # None => stripe'[order[o].session].order = o
                      /\ click'[k].pc # "create" => stripe'[click'[k].session].order = o
    BY DEF ClicksOK
  <2>1. /\ order[o].status # "none"
        /\ order[o].session # None => stripe[order[o].session].order = o
        /\ click[k].pc # "create" => stripe[click[k].session].order = o
    BY <1>0 DEF ClicksOK
  <2>2. o # None
    BY SetsAssumption
  <2>3. order[o].session # None => stripe'[order[o].session].order = o
    BY <1>1, <1>2, <1>3, <2>1
  <2>4. click[k].pc # "create" => click[k].session \in Sessions /\ click[k].session # s
    <3>1. Attaching(k, o)
      OBVIOUS
    <3>2. click[k].pc # "create" => click[k].session \in Sessions
      BY <3>1 DEF Attaching, Shape, ClickOK
    <3> QED BY <1>2, <2>1, <2>2, <3>2
  <2>5. click'[k].pc # "create" => stripe'[click'[k].session].order = o
    BY <1>1, <2>1, <2>4 DEF ClicksMove, Joins
  <2> QED BY <2>1, <2>3, <2>5
<1> QED BY <1>4, <1>5, <1>6 DEF Core, Kept

\* A step that leaves the rows, slots and links alone.
LEMMA QuietLedger ==
  ASSUME Shape, Ledger, order' = order, slot' = slot, link' = link, SessionsStay, ClicksMove
  PROVE  Core' /\ Kept
<1>1. OrdersOK' /\ OpenedOK' /\ ClicksOK' /\ LinksOK'
  BY SameRows, RowsStayLedger DEF Ledger
<1> QED BY <1>1 DEF Core, Kept

LEMMA SameSessions == ASSUME stripe' = stripe PROVE SessionsStay
  BY DEF SessionsStay

\* The page of an order is handed out again only while no session is attached to it.
LEMMA ReuseLedger ==
  ASSUME Shape, Ledger, NEW k \in Clicks, NEW r \in Reports, NEW p \in PlansOnSale,
         NEW l \in Langs, NEW c \in Countries, ReuseOrder(k, r, p, l, c)
  PROVE  Core' /\ Kept
<1> DEFINE o == slot[<<r, p, l>>]
<1>1. <<r, p, l>> \in Slots
  BY SetsAssumption DEF Slots
<1>2. o \in Orders /\ order[o].report = r /\ r # None
  BY <1>1, LedgerTypes DEF ReuseOrder, Ledger, OrdersOK
<1>3. order' = order /\ slot' = slot /\ link' = link /\ stripe' = stripe
  BY DEF ReuseOrder, db
<1>4. order[o].status \in {"creating", "open"}
  BY DEF ReuseOrder, Reusable
<1>5. ClicksMove
  <2>1. CASE order[o].url
    BY <2>1, SameClicks DEF ReuseOrder
  <2>2. CASE ~order[o].url
    <3>1. order[o].session = None
      BY <1>2, <1>4, <2>2 DEF Ledger, OrdersOK
    <3>2. click' = [click EXCEPT ![k] = Creating(r, o)]
      BY <2>2 DEF ReuseOrder
    <3> DEFINE d == Creating(r, o)
    <3>3. d \in ClickState /\ d.pc = "create" /\ d.order = o
      BY <1>2, CreatingType
    <3> HIDE DEF d, o
    <3>4. \A q \in Orders : d.pc \in {"create", "read", "write"} /\ d.order = q =>
             order[q].session = None /\ order[q].status # "none" /\ d.pc = "create"
      BY <1>4, <3>1, <3>3
    <3> QED BY <3>2, <3>3, <3>4, ClickStep DEF d
  <2> QED BY <2>1, <2>2
<1> QED BY <1>3, <1>5, QuietLedger, SameSessions

\* A request for the sessions of its order: the one the order has, or the first.
LEMMA OpenLedger ==
  ASSUME Shape, Ledger, NEW k \in Clicks, OpenSession(k)
  PROVE  Core' /\ Kept
<1> DEFINE o == click[k].order
<1>1. click[k] \in ClickState /\ o \in Orders /\ Attaching(k, o)
  BY DEF Shape, TypeOK, ClickOK, OpenSession, Attaching
<1>2. PICK s \in Sessions :
        /\ \/ stripe[s].order = o /\ stripe' = stripe
           \/ /\ \A t \in Sessions : stripe[t].order # o
              /\ stripe[s].state = "none"
              /\ stripe' = [stripe EXCEPT ![s] =
                   [NoStripeSession EXCEPT !.state = "open", !.order = o,
                    !.report = click[k].report, !.plan = order[o].plan]]
        /\ click' = [click EXCEPT ![k].pc = "read", ![k].session = s]
  BY DEF OpenSession
<1>3. order' = order /\ slot' = slot /\ link' = link
  BY DEF OpenSession, db
<1> DEFINE c == [click[k] EXCEPT !.pc = "read", !.session = s]
<1>4. c \in ClickState /\ c.pc = "read" /\ c.order = o /\ c.session = s
  BY <1>1 DEF ClickState
<1>5. click' = [click EXCEPT ![k] = c]
  BY <1>2
<1>6. stripe'[s].order = o
  BY <1>2 DEF Shape, TypeOK, NoStripeSession
<1> HIDE DEF c
<1>7. ClicksMove
  <2>1. \A q \in Orders : c.pc \in {"create", "read", "write"} /\ c.order = q =>
           Attaching(k, q) /\ stripe'[c.session].order = q
    BY <1>1, <1>4, <1>6
  <2> HIDE DEF o
  <2> QED BY <1>4, <1>5, <2>1, ClickStep
<1>8. \A j \in Clicks, q \in Orders : Attaching(j, q)' => Attaching(j, q)
  <2>1. click'[k] = c /\ \A j \in Clicks : j # k => click'[j] = click[j]
    BY <1>5 DEF Shape, TypeOK
  <2> QED BY <1>1, <1>4, <2>1 DEF Attaching
<1>9. CASE stripe' = stripe
  BY <1>3, <1>7, <1>9, QuietLedger, SameSessions
<1>10. CASE stripe' # stripe
  <2> DEFINE new == [NoStripeSession EXCEPT !.state = "open", !.order = o,
                       !.report = click[k].report, !.plan = order[o].plan]
  <2>1. new.state = "open" /\ new.order = o
    BY DEF NoStripeSession
  <2>2. /\ \A t \in Sessions : stripe[t].order # o
        /\ stripe[s].state = "none" /\ stripe' = [stripe EXCEPT ![s] = new]
    BY <1>2, <1>10
  <2>3. order[o].status # "none" /\ order[o].session = None
    <3>1. /\ order[o].status # "none"
          /\ order[o].session # None => stripe[order[o].session].order = o
      BY <1>1 DEF Ledger, ClicksOK
    <3>2. order[o].session \in Sessions \cup {None}
      BY <1>1, LedgerTypes DEF Ledger
    <3> QED BY <2>2, <3>1, <3>2
  <2> HIDE DEF new, o
  <2> QED BY <1>1, <1>3, <1>7, <1>8, <2>1, <2>2, <2>3, OpensLedger
<1> QED BY <1>9, <1>10

\* A request that is done with its order.
LEMMA ClickLeaves ==
  ASSUME Shape, NEW k \in Clicks, NEW c, click' = [click EXCEPT ![k] = c],
         c.pc \notin {"create", "read", "write"}
  PROVE  ClicksMove /\ \A j \in Clicks, o \in Orders : Attaching(j, o)' => Attaching(j, o)
<1>1. click'[k] = c /\ \A j \in Clicks : j # k => click'[j] = click[j]
  BY DEF Shape, TypeOK
<1>2. ASSUME NEW j \in Clicks, NEW o \in Orders, Attaching(j, o)'
      PROVE  j # k /\ Attaching(j, o)
  BY <1>1, <1>2 DEF Attaching
<1>3. ASSUME NEW j \in Clicks, NEW o \in Orders, Attaching(j, o)'
      PROVE  Joins(j, o)
  BY <1>1, <1>2, <1>3 DEF Joins
<1> QED BY <1>2, <1>3 DEF ClicksMove

\* The SELECT of attach_checkout_session.
LEMMA AttachReadLedger ==
  ASSUME Shape, Ledger, NEW k \in Clicks, AttachRead(k)
  PROVE  Core' /\ Kept
<1> DEFINE o == click[k].order
           c == IF order[o].session \in {None, click[k].session}
                THEN [click[k] EXCEPT !.pc = "write", !.seen = order[o].status]
                ELSE IdleClick
<1>1. click[k] \in ClickState /\ o \in Orders /\ Attaching(k, o) /\ click[k].pc = "read"
  BY DEF Shape, TypeOK, ClickOK, AttachRead, Attaching
<1>2. /\ click' = [click EXCEPT ![k] = c]
      /\ order' = order /\ slot' = slot /\ link' = link /\ stripe' = stripe
  BY DEF AttachRead, db
<1>3. /\ c \in ClickState
      /\ \/ c.pc = "write" /\ c.order = o /\ c.session = click[k].session
         \/ c.pc = "idle"
  BY <1>1, IdleRecords DEF ClickState, Shape, TypeOK, OrderRow, IdleClick
<1> HIDE DEF c
<1>4. \A q \in Orders : c.pc \in {"create", "read", "write"} /\ c.order = q =>
         Attaching(k, q) /\ click[k].pc # "create" /\ c.session = click[k].session
  BY <1>1, <1>3
<1>5. ClicksMove
  BY <1>2, <1>3, <1>4, ClickStep
<1> QED BY <1>2, <1>5, QuietLedger, SameSessions

\* A row that takes a session keeps what it had.
LEMMA TakesKept ==
  ASSUME Shape, Ledger, NEW o \in Orders, NEW s \in Sessions, NEW row, Takes(o, s, row),
         stripe' = stripe,
         row.country = order[o].country \/ \A t \in Sessions : stripe[t].order # o
  PROVE  Kept
<1>1. order'[o] = row /\ \A p \in Orders : p # o => order'[p] = order[p]
  BY TakesRow DEF Ledger
<1>2. \A t \in Sessions : stripe[t].order # None => stripe[t].order \in Orders
  BY LedgerTypes DEF Ledger
<1> QED BY <1>1, <1>2 DEF Kept, Takes

\* The UPDATE of attach_checkout_session, from whatever the SELECT saw.
LEMMA AttachWriteLedger ==
  ASSUME Shape, Ledger, NEW k \in Clicks, AttachWrite(k)
  PROVE  Core' /\ Kept
<1> DEFINE o == click[k].order
           s == click[k].session
           row == Attached(o, s, click[k].seen)
<1>1. /\ click[k] \in ClickState /\ o \in Orders /\ s \in Sessions /\ Attaching(k, o)
      /\ click[k].pc = "write"
  BY DEF Shape, TypeOK, ClickOK, AttachWrite, Attaching
<1>2. slot' = slot /\ link' = link /\ stripe' = stripe
  BY DEF AttachWrite
<1>3. CASE \E p \in Orders \ {o} : order[p].session = s
  <2>1. click' = [click EXCEPT ![k] = IdleClick] /\ order' = order
    BY <1>3 DEF AttachWrite
  <2>2. ClicksMove
    BY <2>1, ClickLeaves DEF IdleClick
  <2> QED BY <1>2, <2>1, <2>2, QuietLedger, SameSessions
<1>4. CASE ~\E p \in Orders \ {o} : order[p].session = s
  <2>1. /\ click' = [click EXCEPT ![k] = [click[k] EXCEPT !.pc = "list"]]
        /\ order' = [order EXCEPT ![o] = row]
    BY <1>4 DEF AttachWrite
  <2>2. ClicksMove /\ \A j \in Clicks, q \in Orders : Attaching(j, q)' => Attaching(j, q)
    <3> DEFINE c == [click[k] EXCEPT !.pc = "list"]
    <3>1. c.pc = "list"
      BY <1>1 DEF ClickState
    <3> HIDE DEF c
    <3> QED BY <2>1, <3>1, ClickLeaves DEF c
  <2>3. /\ stripe[s].order = o /\ order[o].status # "none"
        /\ order[o].session # None => stripe[order[o].session].order = o
    BY <1>1 DEF Ledger, ClicksOK
  <2>4. order[o].session \in {None, s}
    <3>1. order[o].session \in Sessions \cup {None}
      BY <1>1, LedgerTypes DEF Ledger
    <3>2. \A t \in Sessions : stripe[t].order = o => t = s
      BY <1>1, <2>3 DEF Ledger, OpenedOK
    <3> QED BY <2>3, <3>1, <3>2
  <2>5. stripe[s].state # "none"
    BY <1>1, <2>3, SetsAssumption DEF Shape, SessionOK
  <2>6. /\ row.session = s /\ row.url /\ row.charged = order[o].charged
        /\ row.report = order[o].report /\ row.country = order[o].country
        /\ row.status \in {order[o].status, "open"}
    BY <1>1 DEF Attached, Shape, TypeOK, OrderRow
  <2>7. order[o].status \in {"paid_review", "delivered", "duplicate"} => order[o].charged
    BY <1>1 DEF Ledger, OrdersOK
  <2> HIDE DEF row
  <2>8. Takes(o, s, row)
    BY <1>4, <2>1, <2>3, <2>4, <2>5, <2>6, <2>7 DEF Takes
  <2> HIDE DEF o, s
  <2>9. OrdersOK' /\ OpenedOK' /\ ClicksOK'
    BY <1>1, <1>2, <2>2, <2>8, TakesLedger
  <2>10. LinksOK' /\ Kept
    BY <1>1, <1>2, <2>6, <2>8, TakesLinks, TakesKept
  <2> QED BY <2>9, <2>10 DEF Core
<1> QED BY <1>3, <1>4

\* A new order is the first row of its number, and no session is for it.
LEMMA NewLedger ==
  ASSUME Shape, Ledger, NEW k \in Clicks, NEW r \in Reports, NEW p \in PlansOnSale,
         NEW l \in Langs, NEW c \in Countries, NewOrder(k, r, p, l, c)
  PROVE  Core' /\ Kept
<1>0. OrdersOK /\ OpenedOK /\ ClicksOK /\ LinksOK
  BY DEF Ledger
<1>1. PICK o \in Orders :
        /\ order[o].status = "none"
        /\ order' = [order EXCEPT ![o] =
             [NoRow EXCEPT !.status = "creating", !.report = r, !.plan = p,
                           !.live = TRUE, !.country = c]]
        /\ slot' = [slot EXCEPT ![<<r, p, l>>] = o]
        /\ click' = [click EXCEPT ![k] = Creating(r, o)]
  BY DEF NewOrder, Fresh
<1> DEFINE row == [NoRow EXCEPT !.status = "creating", !.report = r, !.plan = p,
                                !.live = TRUE, !.country = c]
<1>2. row.status = "creating" /\ row.report = r /\ row.session = None /\ ~row.charged
  BY DEF NoRow
<1>3. order'[o] = row /\ \A q \in Orders : q # o => order'[q] = order[q]
  BY <1>1 DEF Shape, TypeOK
<1> HIDE DEF row
<1>4. stripe' = stripe /\ link' = link
  BY DEF NewOrder
<1>5. order[o] = NoRow /\ order[o].session = None /\ ~order[o].charged
  BY <1>0, <1>1, LedgerTypes DEF OrdersOK
<1>6. \A s \in Sessions : stripe[s].order # o
  BY <1>0, <1>1, LedgerTypes DEF OpenedOK
<1>7. OrdersOK'
  <2>1. \A q \in Orders :
          /\ order'[q].status = "none" => order'[q] = NoRow
          /\ order'[q].status \in {"paid_review", "delivered", "duplicate"} => order'[q].charged
          /\ order'[q].charged => order'[q].session # None
          /\ order'[q].status \in {"creating", "open"} /\ ~order'[q].url /\ order'[q].report # None
                => order'[q].session = None
    BY <1>0, <1>2, <1>3 DEF OrdersOK
  <2>2. \A q, u \in Orders : order'[q].session # None /\ order'[q].session = order'[u].session => q = u
    BY <1>0, <1>2, <1>3 DEF OrdersOK
  <2>3. ASSUME NEW x \in Slots, slot'[x] # None PROVE order'[slot'[x]].report = x[1]
    <3>1. CASE x = <<r, p, l>>
      BY <1>1, <1>2, <1>3, <3>1 DEF Shape, TypeOK
    <3>2. CASE x # <<r, p, l>>
      <4>1. slot'[x] = slot[x]
        BY <1>1, <3>2 DEF Shape, TypeOK
      <4>2. slot[x] \in Orders /\ x[1] # None /\ order[slot[x]].report = x[1]
        BY <1>0, <2>3, <4>1, LedgerTypes DEF OrdersOK
      <4>3. slot[x] # o
        BY <1>0, <1>5, <4>2, LedgerTypes
      <4> QED BY <1>3, <4>1, <4>2, <4>3
    <3> QED BY <3>1, <3>2
  <2> QED BY <2>1, <2>2, <2>3 DEF OrdersOK
<1>8. click'[k].pc = "create" /\ click'[k].order = o /\ \A j \in Clicks : j # k => click'[j] = click[j]
  BY <1>1, CreatingType DEF Shape, TypeOK
<1>9. \A j \in Clicks : ~Attaching(j, o)
  BY <1>0, <1>1 DEF ClicksOK
<1>10. \A j \in Clicks, q \in Orders : q # o /\ Attaching(j, q)' => j # k /\ Attaching(j, q)
  BY <1>8 DEF Attaching
<1>11. OpenedOK'
  <2>1. /\ \A q \in Orders :
             /\ order'[q].session # None => stripe[order'[q].session].state # "none"
             /\ order'[q].charged => stripe[order'[q].session].state = "paid"
        /\ \A q \in Orders : order'[q].session # None =>
              stripe[order'[q].session].order = q \/ \A t \in Sessions : stripe[t].order # q
    BY <1>0, <1>2, <1>3 DEF OpenedOK
  <2>2. \A s \in Sessions : stripe[s].order # None => order'[stripe[s].order].status # "none"
    BY <1>0, <1>3, <1>6, LedgerTypes DEF OpenedOK
  <2>3. ASSUME NEW q \in Orders, NEW s \in Sessions, NEW t \in Sessions,
               order'[q].session = None \/ \E j \in Clicks : Attaching(j, q)',
               stripe[s].order = q, stripe[t].order = q
        PROVE  s = t
    <3>1. q # o
      BY <1>6, <2>3
    <3>2. order[q].session = None \/ \E j \in Clicks : Attaching(j, q)
      BY <1>3, <1>10, <2>3, <3>1
    <3> QED BY <1>0, <2>3, <3>2 DEF OpenedOK
  <2> QED BY <1>4, <2>1, <2>2, <2>3 DEF OpenedOK
<1>12. ClicksOK'
  <2> SUFFICES ASSUME NEW j \in Clicks, NEW q \in Orders, Attaching(j, q)'
               PROVE  /\ order'[q].status # "none"
                      /\ order'[q].session # None => stripe'[order'[q].session].order = q
                      /\ click'[j].pc # "create" => stripe'[click'[j].session].order = q
    BY DEF ClicksOK
  <2>1. CASE q = o
    <3>1. j = k
      BY <1>8, <1>9, <2>1 DEF Attaching
    <3> QED BY <1>2, <1>3, <1>8, <2>1, <3>1
  <2>2. CASE q # o
    <3>1. j # k /\ Attaching(j, q)
      BY <1>10, <2>2
    <3> QED BY <1>0, <1>3, <1>4, <1>8, <2>2, <3>1 DEF ClicksOK
  <2> QED BY <2>1, <2>2
<1>13. LinksOK'
  <2>1. \A s \in Sessions : link[s] \in Orders \cup {None}
    BY DEF Shape, TypeOK
  <2> QED BY <1>0, <1>3, <1>4, <1>5, <2>1 DEF LinksOK
<1>14. Kept
  <2>1. \A t \in Sessions : stripe[t].order # None => stripe[t].order \in Orders
    BY <1>0, LedgerTypes
  <2> QED BY <1>3, <1>5, <1>6, <2>1 DEF Kept
<1> QED BY <1>7, <1>11, <1>12, <1>13, <1>14 DEF Core

\* A step that changes one row's page or countries, and no session, slot or link.
LEMMA RowLedger ==
  ASSUME Shape, Ledger, NEW o \in Orders, NEW row,
         order' = [order EXCEPT ![o] = row],
         row.status = order[o].status, row.session = order[o].session,
         row.charged = order[o].charged, row.url = order[o].url,
         row.report = order[o].report, order[o] = NoRow => row = NoRow,
         row.country = order[o].country \/ \A t \in Sessions : stripe[t].order # o,
         slot' = slot, link' = link, stripe' = stripe, ClicksMove
  PROVE  Core' /\ Kept
<1>1. order'[o] = row /\ \A p \in Orders : p # o => order'[p] = order[p]
  BY DEF Shape, TypeOK
<1>2. RowsStay
  BY <1>1 DEF RowsStay
<1>3. \A x \in Slots : slot[x] # None => order'[slot[x]].report = order[slot[x]].report
  BY <1>1, LedgerTypes DEF Ledger
<1>4. OrdersOK' /\ OpenedOK' /\ ClicksOK' /\ LinksOK'
  BY <1>2, <1>3, RowsStayLedger, SameSessions
<1>5. Kept
  <2>1. \A t \in Sessions : stripe[t].order # None => stripe[t].order \in Orders
    BY LedgerTypes DEF Ledger
  <2> QED BY <1>1, <2>1 DEF Kept
<1> QED BY <1>4, <1>5 DEF Core

\* Closing the sessions the buyer left touches no row but its deadline.
LEMMA ExpireLedger ==
  ASSUME Shape, Ledger, NEW k \in Clicks,
         ListSuperseded(k) \/ ExpireSession(k) \/ MarkExpired(k) \/ ClickDies(k)
  PROVE  Core' /\ Kept
<1>0. click[k] \in ClickState /\ (click[k].pc # "idle" => click[k].order \in Orders)
  BY DEF Shape, TypeOK, ClickOK
<1>1. CASE ListSuperseded(k)
  <2> DEFINE old == Superseded(click[k].order)
             c == IF old = {} THEN IdleClick ELSE [click[k] EXCEPT !.pc = "expire", !.todo = old]
  <2>1. c.pc \in {"idle", "expire"} /\ click' = [click EXCEPT ![k] = c]
    BY <1>0, <1>1 DEF ListSuperseded, ClickState, IdleClick
  <2> HIDE DEF c
  <2>2. ClicksMove
    BY <2>1, ClickLeaves
  <2> QED BY <1>1, <2>2, QuietLedger, SameSessions DEF ListSuperseded, db
<1>2. CASE ExpireSession(k)
  <2>1. PICK x \in click[k].todo :
          \/ /\ \/ click' = [click EXCEPT ![k] = IdleClick]
                \/ click' = [click EXCEPT ![k] = [click[k] EXCEPT !.todo = click[k].todo \ {x}]]
             /\ UNCHANGED stripe
          \/ /\ stripe' = [stripe EXCEPT ![x[2]].state = IF @ = "open" THEN "closed" ELSE @]
             /\ stripe[x[2]].state # "paid"
             /\ click' = [click EXCEPT ![k] =
                    [click[k] EXCEPT !.pc = "mark", !.order = x[1], !.session = x[2],
                              !.todo = click[k].todo \ {x}]]
    BY <1>2 DEF ExpireSession
  <2> DEFINE c == [click[k] EXCEPT !.todo = click[k].todo \ {x}]
             d == [click[k] EXCEPT !.pc = "mark", !.order = x[1], !.session = x[2],
                              !.todo = click[k].todo \ {x}]
  <2>2. \/ click' = [click EXCEPT ![k] = IdleClick]
        \/ click' = [click EXCEPT ![k] = c]
        \/ click' = [click EXCEPT ![k] = d]
    BY <2>1
  <2>3. ClicksMove
    <3>1. IdleClick.pc = "idle" /\ c.pc = "expire" /\ d.pc = "mark"
      BY <1>0, <1>2 DEF ClickState, ExpireSession, IdleClick
    <3> HIDE DEF c, d
    <3>2. CASE click' = [click EXCEPT ![k] = IdleClick]
      BY <3>1, <3>2, ClickLeaves
    <3>3. CASE click' = [click EXCEPT ![k] = c]
      BY <3>1, <3>3, ClickLeaves
    <3>4. CASE click' = [click EXCEPT ![k] = d]
      BY <3>1, <3>4, ClickLeaves
    <3> QED BY <2>2, <3>2, <3>3, <3>4
  <2>4. SessionsStay
    <3>1. x[2] \in Sessions
      BY <1>0 DEF ClickState
    <3> QED BY <2>1, <3>1 DEF SessionsStay, Shape, TypeOK, SessionRow
  <2> QED BY <1>2, <2>3, <2>4, QuietLedger DEF ExpireSession, db
<1>3. CASE MarkExpired(k)
  <2> DEFINE o == click[k].order
             row == [order[o] EXCEPT !.live =
                       IF order[o].status = "open" /\ order[o].session = click[k].session
                       THEN FALSE ELSE @]
             c == IF click[k].todo = {} THEN IdleClick ELSE [click[k] EXCEPT !.pc = "expire"]
  <2>1. o \in Orders /\ order' = [order EXCEPT ![o] = row] /\ click' = [click EXCEPT ![k] = c]
    BY <1>0, <1>3 DEF MarkExpired
  <2>2. c.pc \in {"idle", "expire"}
    BY <1>0 DEF ClickState, IdleClick
  <2>3. /\ row.status = order[o].status /\ row.session = order[o].session
        /\ row.charged = order[o].charged /\ row.url = order[o].url
        /\ row.report = order[o].report /\ row.country = order[o].country
    BY <2>1 DEF Shape, TypeOK, OrderRow
  <2>5. order[o] = NoRow => row = NoRow
    <3>1. order[o].live = FALSE => row = [order[o] EXCEPT !.live = order[o].live]
      OBVIOUS
    <3>2. row = [order[o] EXCEPT !.live = order[o].live] => row = order[o]
      BY <2>1 DEF Shape, TypeOK, OrderRow
    <3>3. order[o] = NoRow => order[o].live = FALSE
      BY DEF NoRow
    <3> HIDE DEF row, o
    <3> QED BY <3>1, <3>2, <3>3
  <2> HIDE DEF c, row, o
  <2>4. ClicksMove
    BY <2>1, <2>2, ClickLeaves
  <2> QED BY <1>3, <2>1, <2>3, <2>4, <2>5, RowLedger DEF MarkExpired
<1>4. CASE ClickDies(k)
  <2>1. ClicksMove
    BY <1>4, ClickLeaves DEF ClickDies, IdleClick
  <2> QED BY <1>4, <2>1, QuietLedger, SameSessions DEF ClickDies, db
<1> QED BY <1>1, <1>2, <1>3, <1>4

LEMMA CheckoutLedger ==
  ASSUME Shape, Ledger, NEW k \in Clicks, CheckoutStep(k)
  PROVE  Core' /\ Kept
<1>1. CASE Reserve(k)
  BY <1>1, ReuseLedger, NewLedger DEF Reserve
<1>2. CASE ~Reserve(k)
  BY <1>2, OpenLedger, AttachReadLedger, AttachWriteLedger, ExpireLedger DEF CheckoutStep
<1> QED BY <1>1, <1>2

------------------------------------------------------------------------------
(* The steps of a run of fulfil.                                            *)

\* The row a charge is recorded on can take the charge's session.
LEMMA RecordedTakes ==
  ASSUME Shape, Ledger, NEW s \in Sessions, NEW o \in Orders, RecordedOn(s, o)
  PROVE  /\ \A p \in Orders \ {o} : order[p].session # s
         /\ order[o].session \in {None, s}
         /\ stripe[s].order = o \/ order[o].session = s \/ order[o].status = "none"
<1>1. s # None /\ NoRow.session = None
  BY SetsAssumption DEF NoRow
<1>2. CASE order[o].session = s
  BY <1>1, <1>2 DEF Ledger, OrdersOK
<1>3. CASE order[o].session # s
  <2>1. /\ \A p \in Orders : order[p].session # s
        /\ IF stripe[s].order # None /\ order[stripe[s].order].session = None
           THEN o = stripe[s].order
           ELSE Fresh(o)
    BY <1>3 DEF RecordedOn
  <2>2. CASE Fresh(o)
    BY <1>1, <2>1, <2>2 DEF Ledger, OrdersOK, Fresh
  <2> QED BY <2>1, <2>2
<1> QED BY <1>2, <1>3

\* A charge settled on a row, or held on it, does not disturb the ledger.
LEMMA ChargedLedger ==
  ASSUME Shape, Ledger, NEW s \in Sessions, NEW o \in Orders, NEW row,
         RecordedOn(s, o), stripe[s].state = "paid",
         order' = [order EXCEPT ![o] = row],
         row.session = s, row.charged, row.status \in {"paid_review", "delivered", "duplicate"},
         order[o].status # "none" => row.report = order[o].report /\ row.country = order[o].country,
         stripe' = stripe, slot' = slot, click' = click, link' = [link EXCEPT ![s] = o]
  PROVE  Core' /\ Kept
<1>1. Takes(o, s, row)
  BY RecordedTakes DEF Takes
<1>2. OrdersOK' /\ OpenedOK' /\ ClicksOK'
  BY <1>1, SameClicks, TakesLedger DEF Attaching
<1>3. LinksOK'
  BY <1>1, TakesLinks
<1>4. row.country = order[o].country \/ \A t \in Sessions : stripe[t].order # o
  BY LedgerTypes DEF Ledger, OpenedOK
<1>5. Kept
  BY <1>1, <1>4, TakesKept
<1> QED BY <1>2, <1>3, <1>5 DEF Core

\* The row a settlement writes.
LEMMA SettledRowIs ==
  ASSUME Shape, Ledger, NEW s \in Sessions, NEW o \in Orders, RecordedOn(s, o)
  PROVE  /\ SettledRow(s, o).session = s
         /\ SettledRow(s, o).charged
         /\ SettledRow(s, o).status = Outcome(s, o)
         /\ SettledRow(s, o).status \in {"delivered", "duplicate"}
         /\ order[o].status # "none" =>
              /\ SettledRow(s, o).report = order[o].report
              /\ SettledRow(s, o).country = order[o].country
         /\ order[o].status = "none" => SettledRow(s, o).report = stripe[s].report
<1>1. order[o] \in OrderRow /\ Outcome(s, o) \in {"delivered", "duplicate"}
  BY ChargeRows DEF Shape, TypeOK
<1>2. /\ order[o].session \in {None, s} /\ s # None
      /\ order[o].status \in {"delivered", "duplicate"} =>
            order[o].charged /\ order[o].session # None
  BY RecordedTakes, SetsAssumption DEF Ledger, OrdersOK
<1>3. CASE order[o].status \in {"delivered", "duplicate"}
  <2>1. SettledRow(s, o) = [order[o] EXCEPT !.status = Outcome(s, o)]
    BY <1>3 DEF SettledRow
  <2> HIDE DEF Outcome
  <2> QED BY <1>1, <1>2, <1>3, <2>1 DEF OrderRow
<1>4. CASE order[o].status \notin {"delivered", "duplicate", "none"}
  <2>1. SettledRow(s, o) =
          [order[o] EXCEPT !.status = Outcome(s, o), !.session = s, !.charged = TRUE]
    BY <1>4 DEF SettledRow, PaidRow
  <2> QED BY <1>1, <1>4, <2>1 DEF OrderRow
<1>5. CASE order[o].status = "none"
  <2>1. SettledRow(s, o) =
          [PaidRow(s, o) EXCEPT !.status = Outcome(s, o), !.session = s, !.charged = TRUE]
    BY <1>5 DEF SettledRow
  <2>2. PaidRow(s, o) \in OrderRow /\ PaidRow(s, o).report = stripe[s].report
    BY <1>5, ChargeRows DEF PaidRow, NoRow, Shape
  <2> QED BY <1>1, <1>5, <2>1, <2>2 DEF OrderRow
<1> QED BY <1>3, <1>4, <1>5

\* A run of fulfil that refuses a charge, or ends, leaves the ledger alone.
LEMMA HookQuiet ==
  ASSUME Shape, Ledger, order' = order, slot' = slot, link' = link, stripe' = stripe, click' = click
  PROVE  Core' /\ Kept
  BY QuietLedger, SameSessions, SameClicks

\* What a settlement that agrees with the row does.
LEMMA SettleIs ==
  ASSUME NEW h \in Hooks, Settle(h), NEW s, s = hook[h].session
  PROVE  \/ /\ UNCHANGED <<order, unlock, code, link>>
            /\ hook' = [hook EXCEPT ![h] = IdleHook]
         \/ \E o \in Orders :
              /\ RecordedOn(s, o) /\ ~Disagrees(s, o)
              /\ order' = [order EXCEPT ![o] = SettledRow(s, o)]
              /\ unlock' = IF Delivers(s, o) /\ Unpaid(stripe[s].report)
                           THEN [unlock EXCEPT ![stripe[s].report] = s] ELSE unlock
              /\ link' = [link EXCEPT ![s] = o]
              /\ hook' = [hook EXCEPT ![h] =
                     IF stripe[s].order = None THEN IdleHook
                     ELSE [pc |-> "market", session |-> s, order |-> o]]
  BY DEF Settle

LEMMA FulfilLedger ==
  ASSUME Shape, Ledger, NEW h \in Hooks, FulfilStep(h)
  PROVE  Core' /\ Kept
<1> DEFINE s == hook[h].session
<1>1. ASSUME NEW t \in Sessions, Fulfil(h, t) PROVE Core' /\ Kept
  BY <1>1, HookQuiet DEF Fulfil
<1>2. CASE HookDies(h)
  BY <1>2, HookQuiet DEF HookDies, db
<1>3. CASE Settle(h)
  <2>1. s \in Sessions /\ stripe[s].state = "paid"
    BY <1>3, PaidNamesReport DEF Settle
  <2>2. slot' = slot /\ stripe' = stripe /\ click' = click
    BY <1>3 DEF Settle
  <2>3. CASE UNCHANGED <<order, unlock, code, link>>
    BY <2>2, <2>3, HookQuiet
  <2>4. ASSUME NEW o \in Orders, RecordedOn(s, o), order' = [order EXCEPT ![o] = SettledRow(s, o)],
               link' = [link EXCEPT ![s] = o]
        PROVE  Core' /\ Kept
    <3> DEFINE row == SettledRow(s, o)
    <3>1. /\ row.session = s /\ row.charged /\ row.status \in {"delivered", "duplicate"}
          /\ order[o].status # "none" =>
               row.report = order[o].report /\ row.country = order[o].country
      BY <2>1, <2>4, SettledRowIs
    <3> HIDE DEF row, s
    <3> QED BY <2>1, <2>2, <2>4, <3>1, ChargedLedger DEF row
  <2> QED BY <1>3, <2>3, <2>4, SettleIs
<1>4. CASE RecordMarket(h)
  <2> DEFINE o == hook[h].order
             row == [order[o] EXCEPT !.country = order[stripe[s].order].country,
                                     !.billing = stripe[s].billing]
  <2>1. /\ s \in Sessions /\ o \in Orders /\ stripe[s].order \in Orders
        /\ order[o].session = s
    BY <1>4 DEF RecordMarket, Shape, HookOK, Ledger, RunsOK
  <2>2. order' = [order EXCEPT ![o] = row]
    BY <1>4 DEF RecordMarket
  <2>3. /\ row.status = order[o].status /\ row.session = order[o].session
        /\ row.charged = order[o].charged /\ row.url = order[o].url
        /\ row.report = order[o].report /\ row.country = order[stripe[s].order].country
    BY <2>1 DEF Shape, TypeOK, OrderRow
  <2>4. order[o] # NoRow
    BY <2>1, LedgerTypes DEF Ledger
  <2>5. row.country = order[o].country \/ \A t \in Sessions : stripe[t].order # o
    BY <2>1, <2>3, SetsAssumption DEF Ledger, OpenedOK
  <2>6. ClicksMove /\ slot' = slot /\ link' = link /\ stripe' = stripe
    BY <1>4, SameClicks DEF RecordMarket
  <2> HIDE DEF row, o, s
  <2> QED BY <2>1, <2>2, <2>3, <2>4, <2>5, <2>6, RowLedger
<1>5. CASE HoldForReview(h)
  <2>1. s \in Sessions /\ stripe[s].state = "paid" /\ stripe[s].order \in Orders
    BY <1>5 DEF HoldForReview, Shape, HookOK
  <2>2. slot' = slot /\ stripe' = stripe /\ click' = click
    BY <1>5 DEF HoldForReview
  <2>3. PICK o \in Orders :
          /\ RecordedOn(s, o)
          /\ IF order[o].status \in {"delivered", "duplicate"}
             THEN order' = order ELSE order' = [order EXCEPT ![o] = ReviewRow(s, o)]
          /\ link' = [link EXCEPT ![s] = o]
    BY <1>5 DEF HoldForReview
  <2>4. order[o] \in OrderRow /\ order[o].session \in {None, s} /\ s # None
    BY <2>1, <2>3, RecordedTakes, LedgerTypes DEF Ledger
  <2>5. CASE order[o].status \in {"delivered", "duplicate"}
    <3>1. order' = [order EXCEPT ![o] = order[o]]
      BY <2>3, <2>5 DEF Shape, TypeOK
    <3>2. order[o].session = s /\ order[o].charged
      BY <2>4, <2>5 DEF Ledger, OrdersOK
    <3> HIDE DEF s
    <3> QED BY <2>1, <2>2, <2>3, <2>5, <3>1, <3>2, ChargedLedger
  <2>6. CASE order[o].status \notin {"delivered", "duplicate"}
    <3> DEFINE row == ReviewRow(s, o)
    <3>1. /\ row.session = s /\ row.charged /\ row.status = "paid_review"
          /\ order[o].status # "none" =>
               row.report = order[o].report /\ row.country = order[o].country
      BY <2>4 DEF ReviewRow, OrderRow, NoRow
    <3>2. order' = [order EXCEPT ![o] = row]
      BY <2>3, <2>6
    <3> HIDE DEF row, s
    <3> QED BY <2>1, <2>2, <2>3, <3>1, <3>2, ChargedLedger
  <2> QED BY <2>5, <2>6
<1> QED BY <1>1, <1>2, <1>3, <1>4, <1>5 DEF FulfilStep

------------------------------------------------------------------------------
(* Everything else, and the ledger as an invariant.                         *)

\* A deleted report leaves its orders their charges.
LEMMA DeleteLedger ==
  ASSUME Shape, Ledger, NEW r \in Reports, DeleteReport(r)
  PROVE  Core' /\ Kept
<1>0. r # None /\ \A o \in Orders : order[o] \in OrderRow
  BY SetsAssumption DEF Shape, TypeOK
<1>1. \A o \in Orders :
        order'[o] = IF order[o].report = r
                    THEN [order[o] EXCEPT !.report = None, !.url = FALSE] ELSE order[o]
  BY DEF DeleteReport
<1>2. \A o \in Orders :
        /\ order'[o].status = order[o].status
        /\ order'[o].session = order[o].session
        /\ order'[o].charged = order[o].charged
        /\ order'[o].country = order[o].country
        /\ order[o].report = r => order'[o].report = None
        /\ order[o].report # r => order'[o] = order[o]
  BY <1>0, <1>1 DEF OrderRow
<1>3. RowsStay
  BY <1>0, <1>2 DEF RowsStay, NoRow
<1>4. \A x \in Slots : slot'[x] # None =>
        slot'[x] = slot[x] /\ order'[slot[x]].report = order[slot[x]].report
  <2>1. \A x \in Slots : slot'[x] = IF x[1] = r THEN None ELSE slot[x]
    BY DEF DeleteReport
  <2>2. ASSUME NEW x \in Slots, slot'[x] # None
        PROVE  slot'[x] = slot[x] /\ order'[slot[x]].report = order[slot[x]].report
    <3>1. slot'[x] = slot[x] /\ x[1] # r
      BY <2>1, <2>2
    <3>2. slot[x] \in Orders /\ order[slot[x]].report = x[1]
      BY <2>2, <3>1, LedgerTypes DEF Ledger, OrdersOK
    <3> QED BY <1>2, <3>1, <3>2
  <2> QED BY <2>2
<1>5. OrdersOK' /\ OpenedOK' /\ ClicksOK' /\ LinksOK'
  BY <1>3, <1>4, RowsStayLedger, SameSessions, SameClicks DEF DeleteReport
<1>6. Kept
  <2>1. \A t \in Sessions : stripe[t].order # None => stripe[t].order \in Orders
    BY LedgerTypes DEF Ledger
  <2> QED BY <1>2, <2>1 DEF Kept
<1> QED BY <1>5, <1>6 DEF Core

LEMMA TimeOutLedger ==
  ASSUME Shape, Ledger, NEW o \in Orders, OrderTimesOut(o)
  PROVE  Core' /\ Kept
<1> DEFINE row == [order[o] EXCEPT !.live = FALSE]
<1>1. order' = [order EXCEPT ![o] = row] /\ slot' = slot /\ link' = link /\ stripe' = stripe
  BY DEF OrderTimesOut
<1>2. /\ row.status = order[o].status /\ row.session = order[o].session
      /\ row.charged = order[o].charged /\ row.url = order[o].url
      /\ row.report = order[o].report /\ row.country = order[o].country
  BY DEF Shape, TypeOK, OrderRow
<1>3. order[o] # NoRow
  BY DEF OrderTimesOut, NoRow
<1>4. ClicksMove
  BY SameClicks DEF OrderTimesOut
<1> HIDE DEF row
<1> QED BY <1>1, <1>2, <1>3, <1>4, RowLedger

LEMMA CodeLedger ==
  ASSUME Shape, Ledger, CodeStep
  PROVE  Core' /\ Kept
<1> order' = order /\ slot' = slot /\ link' = link /\ stripe' = stripe /\ click' = click
  BY DEF CodeStep, CreateCode, DisableCode, Redeem
<1> QED BY HookQuiet

\* Payments, deadlines and sessions opened at Stripe.
LEMMA StripeLedger ==
  ASSUME Shape, Ledger, StripeStep
  PROVE  Core' /\ Kept
<1>0. order' = order /\ slot' = slot /\ link' = link /\ click' = click
  BY DEF StripeStep, Pay, SessionTimesOut, OpenPaymentLink, OpenSecondSession, db
<1>1. ASSUME NEW s \in Sessions, NEW c \in Countries, Pay(s, c) PROVE Core' /\ Kept
  <2>1. SessionsStay
    BY <1>1 DEF Pay, SessionsStay, Shape, TypeOK, SessionRow
  <2> QED BY <1>0, <2>1, QuietLedger, SameClicks
<1>2. ASSUME NEW s \in Sessions, SessionTimesOut(s) PROVE Core' /\ Kept
  <2>1. SessionsStay
    BY <1>2 DEF SessionTimesOut, SessionsStay, Shape, TypeOK, SessionRow
  <2> QED BY <1>0, <2>1, QuietLedger, SameClicks
<1>3. ASSUME NEW s \in Sessions, NEW r \in Reports, NEW p \in PlansOnSale, NEW full \in BOOLEAN,
             OpenPaymentLink(s, r, p, full)
      PROVE  Core' /\ Kept
  <2> DEFINE new == [NoStripeSession EXCEPT !.state = "open", !.report = r, !.plan = p,
                                            !.full = full]
  <2>1. stripe[s].state = "none" /\ stripe' = [stripe EXCEPT ![s] = new]
    BY <1>3 DEF OpenPaymentLink
  <2>2. new.state = "open" /\ new.order = None
    BY DEF NoStripeSession
  <2> HIDE DEF new
  <2> QED BY <1>0, <2>1, <2>2, OpensLedger, SameClicks DEF Attaching
<1>4. ASSUME NEW s \in Sessions, NEW o \in Orders, OpenSecondSession(s, o) PROVE Core' /\ Kept
  <2>1. PICK t \in Sessions :
          /\ stripe[t].order = o
          /\ stripe' = [stripe EXCEPT ![s] = [NoStripeSession EXCEPT
               !.state = "open", !.order = o, !.report = stripe[t].report,
               !.plan = stripe[t].plan]]
    BY <1>4 DEF OpenSecondSession
  <2> DEFINE new == [NoStripeSession EXCEPT !.state = "open", !.order = o,
                       !.report = stripe[t].report, !.plan = stripe[t].plan]
  <2>2. new.state = "open" /\ new.order = o
    BY DEF NoStripeSession
  <2>3. /\ stripe[s].state = "none" /\ order[o].session # None
        /\ \A k \in Clicks : ~Attaching(k, o)
    BY <1>4 DEF OpenSecondSession, Attaching
  <2>4. order[o].status # "none" /\ stripe' = [stripe EXCEPT ![s] = new]
    BY <2>1, SetsAssumption DEF Ledger, OpenedOK
  <2>5. \A k \in Clicks, q \in Orders : Attaching(k, q)' => Attaching(k, q)
    BY <1>0 DEF Attaching
  <2>6. ClicksMove
    BY <1>0, SameClicks
  <2> HIDE DEF new
  <2>7. new.order # None =>
            /\ new.order \in Orders /\ order[new.order].status # "none"
            /\ \/ \A u \in Sessions : stripe[u].order # new.order
               \/ /\ \E u \in Sessions : stripe[u].order = new.order
                  /\ order[new.order].session # None
                  /\ \A k \in Clicks : ~Attaching(k, new.order)
            /\ order[new.order].session # None =>
                 \E u \in Sessions : stripe[u].order = new.order
    BY <2>1, <2>2, <2>3, <2>4
  <2> QED BY <1>0, <2>2, <2>3, <2>4, <2>5, <2>6, <2>7, OpensLedger
<1> QED BY <1>1, <1>2, <1>3, <1>4 DEF StripeStep

LEMMA StepCore ==
  ASSUME Shape, Ledger, [Next]_vars
  PROVE  Core' /\ Kept
<1>1. CASE UNCHANGED vars
  BY <1>1, HookQuiet DEF vars
<1>2. CASE Next
  BY <1>2, CheckoutLedger, FulfilLedger, CodeLedger, DeleteLedger, TimeOutLedger, StripeLedger
  DEF Next
<1> QED BY <1>1, <1>2

\* The market of a payment is fixed once it is paid: the order of its session keeps the
\* country it was made for.
LEMMA MarketStays ==
  ASSUME Shape, Ledger, [Next]_vars, NEW s \in Sessions, stripe[s].state = "paid"
  PROVE  OutsideMarket(s)' <=> OutsideMarket(s)
<1>1. stripe'[s] = stripe[s]
  BY PaidStays
<1>2. stripe[s].order # None =>
        order'[stripe[s].order].country = order[stripe[s].order].country
  BY StepCore DEF Kept
<1> QED BY <1>1, <1>2 DEF OutsideMarket

RunOK(h) ==
    hook[h].pc # "idle" =>
        LET s == hook[h].session IN
        /\ stripe[s].full
        /\ hook[h].pc = "settle" => ~OutsideMarket(s)
        /\ hook[h].pc = "review" => OutsideMarket(s)
        /\ hook[h].pc = "market" => order[hook[h].order].session = s

\* What a run of fulfil read of a payment in full stays true of it.
LEMMA RunStays ==
  ASSUME Shape, Ledger, [Next]_vars, NEW h \in Hooks, NEW t \in Sessions,
         hook'[h].session = t, stripe[t].state = "paid", stripe[t].full,
         hook'[h].pc = "settle" => ~OutsideMarket(t),
         hook'[h].pc = "review" => OutsideMarket(t),
         hook'[h].pc = "market" => order'[hook'[h].order].session = t
  PROVE  RunOK(h)'
<1>1. stripe'[t] = stripe[t] /\ (OutsideMarket(t)' <=> OutsideMarket(t))
  BY MarketStays, PaidStays
<1>2. OutsideMarket(t)' <=>
        stripe'[t].order # None /\ stripe'[t].billing # order'[stripe'[t].order].country
  BY DEF OutsideMarket
<1>3. RunOK(h)' <=>
        (hook'[h].pc # "idle" =>
          /\ stripe'[t].full
          /\ hook'[h].pc = "settle" =>
               ~(stripe'[t].order # None /\ stripe'[t].billing # order'[stripe'[t].order].country)
          /\ hook'[h].pc = "review" =>
               stripe'[t].order # None /\ stripe'[t].billing # order'[stripe'[t].order].country
          /\ hook'[h].pc = "market" => order'[hook'[h].order].session = t)
  BY DEF RunOK, OutsideMarket
<1> QED BY <1>1, <1>2, <1>3

\* Only a run of fulfil moves one.
LEMMA CheckoutHooks ==
  ASSUME NEW k \in Clicks, CheckoutStep(k) PROVE hook' = hook
<1>1. CASE Reserve(k)
  BY <1>1 DEF Reserve, ReuseOrder, NewOrder
<1>2. CASE OpenSession(k)
  BY <1>2 DEF OpenSession
<1>3. CASE AttachRead(k) \/ AttachWrite(k)
  BY <1>3 DEF AttachRead, AttachWrite
<1>4. CASE ListSuperseded(k)
  BY <1>4 DEF ListSuperseded
<1>5. CASE ExpireSession(k)
  BY <1>5 DEF ExpireSession
<1>6. CASE MarkExpired(k)
  BY <1>6 DEF MarkExpired
<1>7. CASE ClickDies(k)
  BY <1>7 DEF ClickDies
<1> QED BY <1>1, <1>2, <1>3, <1>4, <1>5, <1>6, <1>7 DEF CheckoutStep

LEMMA OtherHooks ==
  ASSUME [Next]_vars, \A h \in Hooks : ~FulfilStep(h) PROVE hook' = hook
<1>1. CASE CodeStep
  BY <1>1 DEF CodeStep, CreateCode, DisableCode, Redeem
<1>2. CASE StripeStep
  BY <1>2 DEF StripeStep, Pay, SessionTimesOut, OpenPaymentLink, OpenSecondSession
<1>3. CASE (\E r \in Reports : DeleteReport(r)) \/ (\E o \in Orders : OrderTimesOut(o))
  BY <1>3 DEF DeleteReport, OrderTimesOut
<1>4. CASE UNCHANGED vars
  BY <1>4 DEF vars
<1> QED BY <1>1, <1>2, <1>3, <1>4, CheckoutHooks DEF Next

\* What a run of fulfil holds is what the run before it read, or a payment in full.
LEMMA StepRuns ==
  ASSUME Shape, Ledger, [Next]_vars
  PROVE  RunsOK'
<1> SUFFICES ASSUME NEW h \in Hooks, hook'[h].pc # "idle"
             PROVE  RunOK(h)'
  BY DEF RunsOK, RunOK
<1>1. CASE hook'[h] = hook[h]
  <2> DEFINE t == hook[h].session
  <2>1. t \in Sessions /\ stripe[t].state = "paid"
    BY <1>1, PaidNamesReport
  <2>2. /\ stripe[t].full
        /\ hook[h].pc = "settle" => ~OutsideMarket(t)
        /\ hook[h].pc = "review" => OutsideMarket(t)
        /\ hook[h].pc = "market" => hook[h].order \in Orders /\ order[hook[h].order].session = t
    BY <1>1 DEF Ledger, RunsOK, Shape, HookOK
  <2>3. hook[h].pc = "market" => order'[hook[h].order].session = t
    BY <2>1, <2>2, SetsAssumption, StepCore DEF Kept
  <2>4. hook'[h].session = t
    BY <1>1
  <2> HIDE DEF t
  <2> QED BY <1>1, <2>1, <2>2, <2>3, <2>4, RunStays
<1>2. CASE hook'[h] # hook[h]
  <2>1. PICK g \in Hooks : FulfilStep(g)
    BY <1>2, OtherHooks
  <2>2. CASE \E t \in Sessions : Fulfil(g, t)
    <3>1. PICK t \in Sessions :
            /\ stripe[t].state = "paid" /\ ~Refusal(t)
            /\ hook' = [hook EXCEPT ![g] =
                 [pc |-> IF OutsideMarket(t) THEN "review" ELSE "settle",
                  session |-> t, order |-> None]]
      BY <1>2, <2>2 DEF Fulfil
    <3>2. /\ hook'[h].session = t
          /\ hook'[h].pc = IF OutsideMarket(t) THEN "review" ELSE "settle"
      BY <1>2, <3>1 DEF Shape, TypeOK
    <3>3. stripe[t].full
      BY <3>1 DEF Refusal
    <3> QED BY <3>1, <3>2, <3>3, RunStays
  <2>3. CASE Settle(g)
    <3> DEFINE t == hook[g].session
    <3>1. PICK o \in Orders :
            \/ hook' = [hook EXCEPT ![g] = IdleHook]
            \/ /\ RecordedOn(t, o)
               /\ order' = [order EXCEPT ![o] = SettledRow(t, o)]
               /\ hook' = [hook EXCEPT ![g] =
                     IF stripe[t].order = None THEN IdleHook
                     ELSE [pc |-> "market", session |-> t, order |-> o]]
      BY <2>3 DEF Settle
    <3>2. /\ hook'[h].session = t /\ hook'[h].pc = "market" /\ hook'[h].order = o
          /\ RecordedOn(t, o) /\ order' = [order EXCEPT ![o] = SettledRow(t, o)]
      BY <1>2, <3>1 DEF Shape, TypeOK, IdleHook
    <3>3. t \in Sessions /\ stripe[t].state = "paid" /\ stripe[t].full
      BY <2>3, PaidNamesReport DEF Settle, Ledger, RunsOK
    <3>4. order'[o].session = t
      BY <3>2, <3>3, SettledRowIs DEF Shape, TypeOK
    <3> HIDE DEF t
    <3> QED BY <3>2, <3>3, <3>4, RunStays
  <2>4. CASE RecordMarket(g) \/ HoldForReview(g) \/ HookDies(g)
    <3>1. hook' = [hook EXCEPT ![g] = IdleHook]
      BY <2>4 DEF RecordMarket, HoldForReview, HookDies
    <3> QED BY <1>2, <3>1 DEF Shape, TypeOK, IdleHook
  <2> QED BY <2>1, <2>2, <2>3, <2>4 DEF FulfilStep
<1> QED BY <1>1, <1>2

LEMMA StepLedger == Shape /\ Ledger /\ [Next]_vars => Ledger'
  BY StepCore, StepRuns DEF Ledger, Core

LEMMA InitLedger == Init => Ledger
  BY SetsAssumption
  DEF Init, Ledger, OrdersOK, OpenedOK, ClicksOK, LinksOK, RunsOK, NoRow, NoStripeSession,
      IdleClick, IdleHook, Attaching

\* A recorded charge stays on its order, and a PaymentIntent on the order that recorded
\* its charge.
THEOREM ChargeIsKeptHolds == Spec => ChargeIsKept
<1>1. Init => Shape /\ Ledger
  BY InitShape, InitLedger
<1>2. Shape /\ Ledger /\ [Next]_vars => (Shape /\ Ledger)'
  BY StepShape, StepLedger
<1>3. Shape /\ Ledger /\ [Next]_vars =>
        [/\ \A o \in Orders : order[o].charged =>
              order'[o].charged /\ order'[o].session = order[o].session
         /\ \A s \in Sessions : link'[s] # None =>
              order'[link'[s]].session = s /\ order'[link'[s]].charged]_vars
  <2> SUFFICES ASSUME Shape, Ledger, [Next]_vars
               PROVE  /\ \A o \in Orders : order[o].charged =>
                           order'[o].charged /\ order'[o].session = order[o].session
                      /\ \A s \in Sessions : link'[s] # None =>
                           order'[link'[s]].session = s /\ order'[link'[s]].charged
    OBVIOUS
  <2>1. Core' /\ Kept
    BY StepCore
  <2> QED BY <2>1 DEF Core, Kept, LinksOK, Ledger, OrdersOK
<1> QED BY <1>1, <1>2, <1>3, PTL DEF Spec, ChargeIsKept

------------------------------------------------------------------------------
(* Delivery: one order of one paid session unlocks a report.                *)

\* A step by which no session unlocks a report, no order becomes delivered but that of a
\* session that unlocked one before, and none of such a session a duplicate or held.
Unlocks == \A r \in Reports, s \in Sessions : unlock'[r] = s <=> unlock[r] = s

DeliversNothing ==
    /\ Unlocks
    /\ \A o \in Orders :
        /\ order'[o].status = "delivered" =>
              \/ order[o].status = "delivered"
              \/ \E r \in Reports, s \in Sessions : unlock[r] = s /\ order'[o].session = s
        /\ order'[o].status \in {"paid_review", "duplicate"} =>
              \/ order[o].status \in {"paid_review", "duplicate"}
              \/ \A r \in Reports : unlock[r] # order'[o].session
        /\ order[o].session # None => order'[o].report \in {order[o].report, None}
    /\ \A r \in deleted' : r \in deleted \/ \A o \in Orders : order'[o].report # r

\* The facts of a session that unlocked a report, after any step.
LEMMA PaidAfter ==
  ASSUME Shape, Ledger, Delivery, [Next]_vars, NEW r \in Reports, NEW s \in Sessions, unlock[r] = s
  PROVE  /\ stripe'[s].state = "paid" /\ stripe'[s].full /\ stripe'[s].report = r
         /\ ~OutsideMarket(s)'
         /\ \E o \in Orders : /\ order[o].session = s /\ order[o].charged
                              /\ order'[o].session = s /\ order'[o].charged
<1>1. /\ stripe[s].state = "paid" /\ stripe[s].full /\ stripe[s].report = r
      /\ ~OutsideMarket(s)
      /\ \E o \in Orders : order[o].session = s /\ order[o].charged
  BY DEF Delivery, UnlockIsPaid
<1>2. stripe'[s] = stripe[s] /\ ~OutsideMarket(s)'
  BY <1>1, PaidStays, MarketStays
<1>3. PICK o \in Orders : order[o].session = s /\ order[o].charged
  BY <1>1
<1>4. order'[o].session = s /\ order'[o].charged
  BY <1>3, SetsAssumption, StepCore DEF Kept
<1> QED BY <1>1, <1>2, <1>3, <1>4

LEMMA QuietDelivery ==
  ASSUME Shape, Ledger, Delivery, [Next]_vars, DeliversNothing
  PROVE  Delivery'
<1>0. Ledger' /\ Kept
  BY StepLedger, StepCore
<1>1. UnlockIsPaid'
  <2>1. ASSUME NEW r \in Reports, NEW s \in Sessions, unlock'[r] = s
        PROVE  /\ stripe'[s].state = "paid" /\ stripe'[s].full /\ stripe'[s].report = r
               /\ ~OutsideMarket(s)'
               /\ \E o \in Orders : order'[o].session = s /\ order'[o].charged
    <3>1. unlock[r] = s
      BY <2>1 DEF DeliversNothing, Unlocks
    <3> QED BY <3>1, PaidAfter
  <2> QED BY <2>1 DEF UnlockIsPaid, OutsideMarket
<1>2. DeliveredOnce'
  <2> SUFFICES ASSUME NEW o \in Orders
               PROVE  LET s == order'[o].session IN
                      /\ order'[o].status = "delivered" =>
                           /\ s # None
                           /\ unlock'[stripe'[s].report] = s
                           /\ \A p \in Orders \ {o} : order'[p].session # s
                      /\ order'[o].status \in {"paid_review", "duplicate"} =>
                           \A r \in Reports : unlock'[r] # s
    BY DEF DeliveredOnce
  <2> DEFINE s == order'[o].session
  <2>1. \A p \in Orders : order[p].charged =>
           /\ order[p].session \in Sessions /\ order'[p].session = order[p].session
           /\ stripe'[order[p].session] = stripe[order[p].session]
    <3>1. ASSUME NEW p \in Orders, order[p].charged
          PROVE  order[p].session \in Sessions /\ stripe[order[p].session].state = "paid"
      BY <3>1, LedgerTypes DEF Ledger, OpenedOK
    <3> QED BY <1>0, <3>1, PaidStays, SetsAssumption DEF Kept
  <2>2. \A p \in Orders : order[p].status \in {"paid_review", "delivered", "duplicate"} => order[p].charged
    BY DEF Ledger, OrdersOK
  <2>3. CASE order'[o].status = "delivered"
    <3>1. PICK t \in Sessions, r \in Reports :
            s = t /\ stripe'[t].report = r /\ unlock[r] = t
      <4>1. CASE order[o].status = "delivered"
        <5> DEFINE t == order[o].session
        <5>1. order[o].charged
          BY <2>2, <4>1
        <5>2. t \in Sessions /\ s = t /\ stripe'[t] = stripe[t] /\ unlock[stripe[t].report] = t
          BY <2>1, <4>1, <5>1 DEF Delivery, DeliveredOnce
        <5>3. stripe[t].report \in Reports
          BY <5>1, <5>2, SetsAssumption DEF Ledger, OpenedOK, OrdersOK, Shape, SessionOK
        <5> QED BY <5>2, <5>3
      <4>2. CASE \E r \in Reports, t \in Sessions : unlock[r] = t /\ s = t
        BY <4>2, PaidAfter
      <4> QED BY <2>3, <4>1, <4>2 DEF DeliversNothing
    <3>2. unlock'[r] = t /\ t # None
      BY <3>1, SetsAssumption DEF DeliversNothing, Unlocks
    <3>3. \A p \in Orders \ {o} : order'[p].session # s
      BY <1>0, <3>1, <3>2 DEF Ledger, OrdersOK
    <3> QED BY <2>3, <3>1, <3>2, <3>3
  <2>4. CASE order'[o].status \in {"paid_review", "duplicate"}
    <3>1. s \in Sessions
      <4>1. order'[o].charged
        BY <1>0, <2>4 DEF Ledger, OrdersOK
      <4> QED BY <1>0, <4>1, StepShape, LedgerTypes DEF Ledger, OrdersOK, Shape, TypeOK, OrderRow
    <3>2. \A r \in Reports : unlock[r] # s
      <4>1. CASE order[o].status \in {"paid_review", "duplicate"}
        <5>1. s = order[o].session
          BY <2>1, <2>2, <4>1
        <5> QED BY <4>1, <5>1 DEF Delivery, DeliveredOnce
      <4>2. CASE \A r \in Reports : unlock[r] # s
        BY <4>2
      <4> QED BY <2>4, <4>1, <4>2 DEF DeliversNothing
    <3> HIDE DEF s
    <3>3. \A r \in Reports : unlock'[r] # s
      BY <3>1, <3>2 DEF DeliversNothing, Unlocks
    <3> QED BY <2>4, <3>3 DEF s
  <2>5. CASE order'[o].status \notin {"delivered", "paid_review", "duplicate"}
    BY <2>5
  <2> QED BY <2>3, <2>4, <2>5
<1>3. ClearedOK'
  <2> SUFFICES ASSUME NEW r \in deleted', NEW s \in Sessions, NEW o \in Orders,
                      unlock'[r] = s, order'[o].session = s
               PROVE  order'[o].report # r
    BY DEF ClearedOK
  <2>1. r \in Reports
    BY StepShape DEF Shape, TypeOK
  <2>2. unlock[r] = s
    BY <2>1 DEF DeliversNothing, Unlocks
  <2>3. CASE r \in deleted
    <3>1. PICK p \in Orders : order[p].session = s /\ order'[p].session = s
      BY <2>1, <2>2, PaidAfter
    <3>2. p = o
      BY <1>0, <3>1, SetsAssumption DEF Ledger, OrdersOK
    <3>3. order[o].session = s /\ order[o].report # r
      BY <2>2, <2>3, <3>1, <3>2 DEF Delivery, ClearedOK
    <3> QED BY <2>1, <3>3, SetsAssumption DEF DeliversNothing
  <2>4. CASE r \notin deleted
    BY <2>4 DEF DeliversNothing
  <2> QED BY <2>3, <2>4
<1> QED BY <1>1, <1>2, <1>3 DEF Delivery

\* Rows that move like this, with unlocks and reports left alone, deliver nothing.
LEMMA RowsDeliverNothing ==
  ASSUME Unlocks, deleted' = deleted,
         \A o \in Orders :
            /\ order'[o].status \in {order[o].status, "creating", "open"}
            /\ order[o].session # None => order'[o].report = order[o].report
  PROVE  DeliversNothing
  BY DEF DeliversNothing

LEMMA CheckoutDelivers ==
  ASSUME Shape, Ledger, NEW k \in Clicks, CheckoutStep(k)
  PROVE  DeliversNothing
<1>1. Unlocks
  BY CheckoutFrame DEF Unlocks
<1>2. ASSUME NEW r \in Reports, NEW p \in PlansOnSale, NEW l \in Langs, NEW c \in Countries,
             ReuseOrder(k, r, p, l, c)
      PROVE  DeliversNothing
  BY <1>1, <1>2, RowsDeliverNothing DEF ReuseOrder, db
<1>3. ASSUME NEW r \in Reports, NEW p \in PlansOnSale, NEW l \in Langs, NEW c \in Countries,
             NewOrder(k, r, p, l, c)
      PROVE  DeliversNothing
  <2>1. PICK o \in Orders :
          /\ order[o].status = "none"
          /\ order' = [order EXCEPT ![o] =
               [NoRow EXCEPT !.status = "creating", !.report = r, !.plan = p,
                             !.live = TRUE, !.country = c]]
    BY <1>3 DEF NewOrder, Fresh
  <2>2. order'[o].status = "creating" /\ \A q \in Orders : q # o => order'[q] = order[q]
    BY <2>1 DEF Shape, TypeOK, NoRow
  <2>3. order[o].session = None
    BY <2>1, LedgerTypes DEF Ledger, OrdersOK
  <2> QED BY <1>1, <1>3, <2>2, <2>3, RowsDeliverNothing DEF NewOrder
<1>4. CASE OpenSession(k) \/ AttachRead(k) \/ ListSuperseded(k) \/ ClickDies(k)
  <2>1. order' = order /\ deleted' = deleted
    BY <1>4 DEF OpenSession, AttachRead, ListSuperseded, ClickDies, db
  <2> QED BY <1>1, <2>1, RowsDeliverNothing
<1>5. CASE ExpireSession(k)
  BY <1>1, <1>5, RowsDeliverNothing DEF ExpireSession, db
<1>6. CASE AttachWrite(k)
  <2> DEFINE o == click[k].order
             row == Attached(o, click[k].session, click[k].seen)
  <2>1. o \in Orders /\ (order' = order \/ order' = [order EXCEPT ![o] = row])
    BY <1>6 DEF AttachWrite, Shape, ClickOK
  <2>2. row.status \in {order[o].status, "open"} /\ row.report = order[o].report
    BY <2>1 DEF Attached, Shape, TypeOK, OrderRow
  <2> HIDE DEF row
  <2>3. \A p \in Orders : /\ order'[p].status \in {order[p].status, "open"}
                          /\ order'[p].report = order[p].report
    BY <2>1, <2>2 DEF Shape, TypeOK
  <2> QED BY <1>1, <1>6, <2>3, RowsDeliverNothing DEF AttachWrite
<1>7. CASE MarkExpired(k)
  <2> DEFINE o == click[k].order
             row == [order[o] EXCEPT !.live =
                       IF order[o].status = "open" /\ order[o].session = click[k].session
                       THEN FALSE ELSE @]
  <2>1. o \in Orders /\ order' = [order EXCEPT ![o] = row]
    BY <1>7 DEF MarkExpired, Shape, ClickOK
  <2>2. row.status = order[o].status /\ row.report = order[o].report
    BY <2>1 DEF Shape, TypeOK, OrderRow
  <2> HIDE DEF row
  <2>3. \A p \in Orders : /\ order'[p].status = order[p].status
                          /\ order'[p].report = order[p].report
    BY <2>1, <2>2 DEF Shape, TypeOK
  <2> QED BY <1>1, <1>7, <2>3, RowsDeliverNothing DEF MarkExpired
<1> QED BY <1>2, <1>3, <1>4, <1>5, <1>6, <1>7 DEF CheckoutStep, Reserve

\* A charge held for review has unlocked nothing: it was paid from outside the market.
LEMMA HoldDelivers ==
  ASSUME Shape, Ledger, Delivery, NEW h \in Hooks, HoldForReview(h)
  PROVE  DeliversNothing
<1> DEFINE s == hook[h].session
<1>1. /\ s \in Sessions /\ OutsideMarket(s)
      /\ Unlocks /\ deleted' = deleted
  BY DEF HoldForReview, Shape, HookOK, Ledger, RunsOK, Unlocks
<1>2. \A r \in Reports : unlock[r] # s
  BY <1>1 DEF Delivery, UnlockIsPaid
<1>3. PICK o \in Orders :
        order' = order \/ order' = [order EXCEPT ![o] = ReviewRow(s, o)]
  BY DEF HoldForReview
<1> DEFINE row == ReviewRow(s, o)
<1>4. /\ row.session = s /\ row.status = "paid_review"
      /\ order[o].status # "none" => row.report = order[o].report
  BY DEF ReviewRow, Shape, TypeOK, OrderRow, NoRow
<1>5. order[o].status = "none" => order[o].session = None
  BY LedgerTypes DEF Ledger, OrdersOK
<1> HIDE DEF row, s
<1>6. \A p \in Orders : order'[p] = order[p] \/ (p = o /\ order'[p] = row)
  BY <1>3 DEF Shape, TypeOK, row
<1> QED BY <1>1, <1>2, <1>4, <1>5, <1>6 DEF DeliversNothing

\* The outcome of a charge, and the unlock with it.
LEMMA SettleDelivery ==
  ASSUME Shape, Ledger, Delivery, NEW h \in Hooks, Settle(h), [Next]_vars
  PROVE  Delivery'
<1>5. PICK s \in Sessions : s = hook[h].session
  BY PaidNamesReport DEF Settle
<1> DEFINE r == stripe[s].report
<1>0. Ledger' /\ Kept /\ deleted' = deleted
  BY StepLedger, StepCore DEF Settle
<1>1. s \in Sessions /\ r \in Reports /\ stripe[s].state = "paid" /\ s # None
  BY <1>5, PaidNamesReport, SetsAssumption DEF Settle
<1>2. stripe[s].full /\ ~OutsideMarket(s)
  BY <1>5 DEF Settle, Ledger, RunsOK
<1>3. CASE UNCHANGED <<order, unlock, code, link>>
  <2>1. DeliversNothing
    BY <1>0, <1>3, RowsDeliverNothing DEF Unlocks
  <2> QED BY <2>1, QuietDelivery
<1>4. ASSUME NEW o \in Orders, RecordedOn(s, o), ~Disagrees(s, o),
             order' = [order EXCEPT ![o] = SettledRow(s, o)],
             unlock' = IF Delivers(s, o) /\ Unpaid(r) THEN [unlock EXCEPT ![r] = s] ELSE unlock
      PROVE  Delivery'
  <2> DEFINE row == SettledRow(s, o)
  <2>1. /\ row.session = s /\ row.charged /\ row.status = Outcome(s, o)
        /\ row.status \in {"delivered", "duplicate"}
        /\ order[o].status # "none" => row.report = order[o].report
    BY <1>1, <1>4, SettledRowIs
  <2>2. order'[o] = row /\ \A p \in Orders : p # o => order'[p] = order[p]
    BY <1>4 DEF Shape, TypeOK
  <2>3. order[o].status = "none" => order[o].session = None
    BY LedgerTypes DEF Ledger, OrdersOK
  <2>4. order[o].status # "none" => order[o].report = r
    BY <1>4 DEF Disagrees, PaidRow
  <2>5. order[o].status # "delivered" /\ Outcome(s, o) = "delivered" => Unpaid(r) \/ unlock[r] = s
    BY DEF Outcome
  <2>6. Outcome(s, o) = "duplicate" =>
          order[o].status # "delivered" /\ ~(r \notin deleted /\ unlock[r] = s)
    <3>1. order[o].status = "duplicate" => unlock[r] # s
      <4>1. order[o].status = "duplicate" => order[o].session = s
        BY <1>1, <1>4, RecordedTakes DEF Ledger, OrdersOK
      <4> QED BY <1>1, <4>1 DEF Delivery, DeliveredOnce
    <3>2. CASE order[o].status = "delivered"
      BY <3>2 DEF Outcome
    <3>3. CASE r \notin deleted /\ unlock[r] = s
      BY <3>1, <3>3 DEF Outcome
    <3> QED BY <3>2, <3>3
  <2> HIDE DEF row
  <2>7. CASE Delivers(s, o) /\ Unpaid(r)
    <3>1. /\ unlock[r] = None /\ r \notin deleted
          /\ unlock'[r] = s /\ \A q \in Reports : q # r => unlock'[q] = unlock[q]
      BY <1>1, <1>4, <2>7 DEF Unpaid, Shape, TypeOK
    <3>2. row.status = "delivered"
      BY <2>1, <2>7 DEF Delivers
    <3>3. UnlockIsPaid'
      <4>1. ASSUME NEW q \in Reports, NEW t \in Sessions, unlock'[q] = t
            PROVE  /\ stripe'[t].state = "paid" /\ stripe'[t].full /\ stripe'[t].report = q
                   /\ ~OutsideMarket(t)'
                   /\ \E p \in Orders : order'[p].session = t /\ order'[p].charged
        <5>1. CASE q = r
          <6>1. t = s
            BY <3>1, <4>1, <5>1
          <6>2. stripe'[s] = stripe[s] /\ ~OutsideMarket(s)'
            BY <1>1, <1>2, PaidStays, MarketStays
          <6> QED BY <1>1, <1>2, <2>1, <2>2, <5>1, <6>1, <6>2
        <5>2. CASE q # r
          BY <3>1, <4>1, <5>2, PaidAfter
        <5> QED BY <5>1, <5>2
      <4> QED BY <4>1 DEF UnlockIsPaid, OutsideMarket
    <3>4. DeliveredOnce'
      <4> SUFFICES ASSUME NEW p \in Orders
                   PROVE  LET t == order'[p].session IN
                          /\ order'[p].status = "delivered" =>
                               /\ t # None
                               /\ unlock'[stripe'[t].report] = t
                               /\ \A q \in Orders \ {p} : order'[q].session # t
                          /\ order'[p].status \in {"paid_review", "duplicate"} =>
                               \A q \in Reports : unlock'[q] # t
        BY DEF DeliveredOnce
      <4>1. order'[p].session # None => \A q \in Orders \ {p} : order'[q].session # order'[p].session
        BY <1>0 DEF Ledger, OrdersOK
      <4>2. CASE p = o
        <5>1. stripe'[s] = stripe[s]
          BY <1>1, PaidStays
        <5> QED BY <1>1, <2>1, <2>2, <3>1, <3>2, <4>1, <4>2, <5>1
      <4>3. CASE p # o /\ order[p].status = "delivered"
        <5> DEFINE t == order[p].session
        <5>1. order[p].charged /\ t \in Sessions /\ stripe[t].state = "paid"
          BY <4>3, LedgerTypes DEF Ledger, OrdersOK, OpenedOK
        <5>2. unlock[stripe[t].report] = t /\ t # None /\ stripe'[t] = stripe[t]
          BY <4>3, <5>1, PaidStays, SetsAssumption DEF Delivery, DeliveredOnce
        <5>3. stripe[t].report \in Reports
          BY <5>1 DEF Shape, SessionOK
        <5> HIDE DEF t
        <5> QED BY <2>2, <3>1, <4>1, <4>3, <5>2, <5>3 DEF t
      <4>4. CASE p # o /\ order[p].status \in {"paid_review", "duplicate"}
        <5> DEFINE t == order[p].session
        <5>1. t # s
          BY <1>1, <1>4, <4>4, RecordedTakes
        <5>2. \A q \in Reports : unlock[q] # t
          BY <4>4 DEF Delivery, DeliveredOnce
        <5> HIDE DEF t
        <5> QED BY <2>2, <3>1, <4>4, <5>1, <5>2 DEF t
      <4>5. CASE p # o /\ order[p].status \notin {"delivered", "paid_review", "duplicate"}
        BY <2>2, <4>5
      <4> QED BY <4>2, <4>3, <4>4, <4>5
    <3>5. ClearedOK'
      <4> SUFFICES ASSUME NEW q \in deleted, NEW t \in Sessions, NEW p \in Orders,
                          unlock'[q] = t, order'[p].session = t
                   PROVE  order'[p].report # q
        BY <1>0 DEF ClearedOK
      <4>1. q \in Reports /\ q # r /\ unlock[q] = t
        BY <3>1 DEF Shape, TypeOK
      <4>2. t # s
        <5>1. stripe[t].report = q
          BY <4>1 DEF Delivery, UnlockIsPaid
        <5> QED BY <4>1, <5>1
      <4>3. p # o
        BY <2>1, <2>2, <4>2
      <4> QED BY <2>2, <4>1, <4>3 DEF Delivery, ClearedOK
    <3> QED BY <3>3, <3>4, <3>5 DEF Delivery
  <2>8. CASE ~(Delivers(s, o) /\ Unpaid(r))
    <3>1. unlock' = unlock
      BY <1>4, <2>8
    <3>2. CASE row.status = "delivered" /\ order[o].status # "delivered"
      <4>1. unlock[r] = s
        BY <2>1, <2>5, <2>8, <3>2 DEF Delivers
      <4>2. DeliversNothing
        BY <1>0, <1>1, <2>1, <2>2, <2>3, <3>1, <3>2, <4>1 DEF DeliversNothing, Unlocks
      <4> QED BY <4>2, QuietDelivery
    <3>3. CASE row.status = "delivered" /\ order[o].status = "delivered"
      <4>1. DeliversNothing
        BY <1>0, <2>1, <2>2, <2>3, <3>1, <3>3, RowsDeliverNothing DEF Unlocks
      <4> QED BY <4>1, QuietDelivery
    <3>4. CASE row.status = "duplicate"
      <4>1. \A q \in Reports : unlock[q] # s
        <5> SUFFICES ASSUME NEW q \in Reports, unlock[q] = s PROVE FALSE
          OBVIOUS
        <5>1. q = r /\ \E p \in Orders : order[p].session = s
          BY <1>1 DEF Delivery, UnlockIsPaid
        <5>2. r \in deleted
          BY <2>1, <2>6, <3>4, <5>1
        <5>3. order[o].session = s
          BY <1>1, <1>4, <5>1, RecordedTakes
        <5>4. order[o].report = r
          BY <1>1, <2>3, <2>4, <5>3
        <5> QED BY <1>1, <5>1, <5>2, <5>3, <5>4 DEF Delivery, ClearedOK
      <4>2. DeliversNothing
        BY <1>0, <2>1, <2>2, <2>3, <3>1, <3>4, <4>1 DEF DeliversNothing, Unlocks
      <4> QED BY <4>2, QuietDelivery
    <3> QED BY <2>1, <3>2, <3>3, <3>4
  <2> QED BY <2>7, <2>8
<1> QED BY <1>3, <1>4, <1>5, SettleIs

\* Every other step delivers nothing.
LEMMA OtherDelivers ==
  ASSUME Shape, Ledger,
         \/ \E h \in Hooks, s \in Sessions : Fulfil(h, s)
         \/ \E h \in Hooks : RecordMarket(h) \/ HookDies(h)
         \/ CodeStep \/ StripeStep
         \/ \E r \in Reports : DeleteReport(r)
         \/ \E o \in Orders : OrderTimesOut(o)
         \/ UNCHANGED vars
  PROVE  DeliversNothing
<1>1. CASE UNCHANGED <<order, unlock, deleted>>
  BY <1>1, RowsDeliverNothing DEF Unlocks
<1>2. ASSUME NEW h \in Hooks, RecordMarket(h) PROVE DeliversNothing
  <2> DEFINE o == hook[h].order
             row == [order[o] EXCEPT !.country = order[stripe[hook[h].session].order].country,
                                     !.billing = stripe[hook[h].session].billing]
  <2>1. o \in Orders /\ order' = [order EXCEPT ![o] = row]
    BY <1>2 DEF RecordMarket, Shape, HookOK
  <2>2. row.status = order[o].status /\ row.report = order[o].report
    BY <2>1 DEF Shape, TypeOK, OrderRow
  <2> HIDE DEF row
  <2>3. \A p \in Orders : order'[p].status = order[p].status /\ order'[p].report = order[p].report
    BY <2>1, <2>2 DEF Shape, TypeOK
  <2> QED BY <1>2, <2>3, RowsDeliverNothing DEF RecordMarket, Unlocks
<1>3. ASSUME NEW r \in Reports, NEW c \in Codes, Redeem(r, c) PROVE DeliversNothing
  <2>1. \A q \in Reports, s \in Sessions : unlock'[q] = s <=> unlock[q] = s
    BY <1>3, SetsAssumption DEF Redeem, Unpaid, Shape, TypeOK
  <2> QED BY <1>3, <2>1, RowsDeliverNothing DEF Redeem, Unlocks
<1>4. ASSUME NEW r \in Reports, DeleteReport(r) PROVE DeliversNothing
  <2>1. \A o \in Orders :
          order'[o] = IF order[o].report = r
                      THEN [order[o] EXCEPT !.report = None, !.url = FALSE] ELSE order[o]
    BY <1>4 DEF DeleteReport
  <2>2. \A o \in Orders : /\ order'[o].status = order[o].status
                          /\ order'[o].report = IF order[o].report = r THEN None ELSE order[o].report
    BY <2>1 DEF Shape, TypeOK, OrderRow
  <2>3. deleted' = deleted \cup {r} /\ unlock' = unlock
    BY <1>4 DEF DeleteReport
  <2> QED BY <2>2, <2>3, SetsAssumption DEF DeliversNothing, Unlocks
<1>5. ASSUME NEW o \in Orders, OrderTimesOut(o) PROVE DeliversNothing
  <2> DEFINE row == [order[o] EXCEPT !.live = FALSE]
  <2>1. order' = [order EXCEPT ![o] = row]
    BY <1>5 DEF OrderTimesOut
  <2>2. row.status = order[o].status /\ row.report = order[o].report
    BY DEF Shape, TypeOK, OrderRow
  <2> HIDE DEF row
  <2>3. \A p \in Orders : order'[p].status = order[p].status /\ order'[p].report = order[p].report
    BY <2>1, <2>2 DEF Shape, TypeOK
  <2> QED BY <1>5, <2>3, RowsDeliverNothing DEF OrderTimesOut, Unlocks
<1>6. CASE CodeStep
  BY <1>1, <1>3, <1>6 DEF CodeStep, CreateCode, DisableCode
<1>7. CASE StripeStep
  BY <1>1, <1>7 DEF StripeStep, Pay, SessionTimesOut, OpenPaymentLink, OpenSecondSession, db
<1>8. ASSUME NEW h \in Hooks, NEW s \in Sessions, Fulfil(h, s) PROVE DeliversNothing
  BY <1>1, <1>8 DEF Fulfil
<1>9. ASSUME NEW h \in Hooks, HookDies(h) PROVE DeliversNothing
  BY <1>1, <1>9 DEF HookDies, db
<1>10. CASE UNCHANGED vars
  BY <1>1, <1>10 DEF vars
<1> QED BY <1>2, <1>4, <1>5, <1>6, <1>7, <1>8, <1>9, <1>10

LEMMA StepDelivery == Shape /\ Ledger /\ Delivery /\ [Next]_vars => Delivery'
<1> SUFFICES ASSUME Shape, Ledger, Delivery, [Next]_vars PROVE Delivery'
  OBVIOUS
<1>1. ASSUME NEW k \in Clicks, CheckoutStep(k) PROVE Delivery'
  BY <1>1, CheckoutDelivers, QuietDelivery
<1>2. ASSUME NEW h \in Hooks, Settle(h) PROVE Delivery'
  BY <1>2, SettleDelivery
<1>3. ASSUME NEW h \in Hooks, HoldForReview(h) PROVE Delivery'
  BY <1>3, HoldDelivers, QuietDelivery
<1>4. CASE \/ \E h \in Hooks, s \in Sessions : Fulfil(h, s)
           \/ \E h \in Hooks : RecordMarket(h) \/ HookDies(h)
           \/ CodeStep \/ StripeStep
           \/ \E r \in Reports : DeleteReport(r)
           \/ \E o \in Orders : OrderTimesOut(o)
           \/ UNCHANGED vars
  BY <1>4, OtherDelivers, QuietDelivery
<1> QED BY <1>1, <1>2, <1>3, <1>4 DEF Next, FulfilStep

LEMMA InitDelivery == Init => Delivery
  BY SetsAssumption DEF Init, Delivery, DeliveredOnce, UnlockIsPaid, ClearedOK, NoRow

LEMMA DeliveryHolds == Spec => [](Shape /\ Ledger /\ Delivery)
<1>1. Init => Shape /\ Ledger /\ Delivery
  BY InitShape, InitLedger, InitDelivery
<1>2. Shape /\ Ledger /\ Delivery /\ [Next]_vars => (Shape /\ Ledger /\ Delivery)'
  BY StepShape, StepLedger, StepDelivery
<1> QED BY <1>1, <1>2, PTL DEF Spec

\* However many sessions are paid for a report and however often each is redelivered, one
\* order is delivered, and it is the one whose session unlocked the report.
THEOREM DeliveredOnceHolds == Spec => []DeliveredOnce
<1>1. Delivery => DeliveredOnce
  BY DEF Delivery
<1> QED BY <1>1, DeliveryHolds, PTL

\* A report a card unlocked was paid in full, for that report, from the country of its
\* checkout, and its charge is on an order.
THEOREM UnlockIsPaidHolds == Spec => []UnlockIsPaid
<1>1. Delivery => UnlockIsPaid
  BY DEF Delivery
<1> QED BY <1>1, DeliveryHolds, PTL

------------------------------------------------------------------------------
(* Credits: a code has been used by the reports it unlocked, and no more.    *)

Spent(c) == {r \in Reports : unlock[r] = c}

SpentOK ==
    \A c \in Codes :
        /\ IsFiniteSet(Spent(c))
        /\ code[c].used = Cardinality(Spent(c))
        /\ code[c].used <= code[c].credits

LEMMA SpentStays ==
  ASSUME SpentOK, NEW c \in Codes, \A r \in Reports : unlock'[r] = c <=> unlock[r] = c,
         code'[c].used = code[c].used, code[c].credits <= code'[c].credits,
         code \in [Codes -> CodeRow], code' \in [Codes -> CodeRow]
  PROVE  /\ IsFiniteSet(Spent(c)')
         /\ code'[c].used = Cardinality(Spent(c)')
         /\ code'[c].used <= code'[c].credits
<1>1. Spent(c)' = Spent(c)
  BY DEF Spent
<1>2. code[c].used \in Nat /\ code[c].credits \in Nat /\ code'[c].credits \in Nat
  BY DEF CodeRow
<1> QED BY <1>1, <1>2 DEF SpentOK

LEMMA StepSpent == Shape /\ Money /\ SpentOK /\ [Next]_vars => SpentOK'
<1> SUFFICES ASSUME Shape, Money, SpentOK, [Next]_vars,
                    NEW c \in Codes
             PROVE  /\ IsFiniteSet(Spent(c)')
                    /\ code'[c].used = Cardinality(Spent(c)')
                    /\ code'[c].used <= code'[c].credits
  BY DEF SpentOK
<1>0. /\ code \in [Codes -> CodeRow] /\ code' \in [Codes -> CodeRow]
      /\ unlock \in [Reports -> Sessions \cup Codes \cup {None}]
      /\ code[c].used \in Nat /\ code[c].credits \in Nat
  BY StepShape DEF Shape, TypeOK, CodeRow
<1>1. CASE UNCHANGED <<unlock, code>>
  BY <1>0, <1>1, SpentStays
<1> DEFINE Goal == /\ IsFiniteSet(Spent(c)')
                   /\ code'[c].used = Cardinality(Spent(c)')
                   /\ code'[c].used <= code'[c].credits
<1> HIDE DEF Goal
<1>2. ASSUME NEW d \in Codes, CreateCode(d) PROVE Goal
  <2>1. /\ code[d].credits = 0 /\ code' = [code EXCEPT ![d] = [NoCode EXCEPT !.credits = 1]]
        /\ unlock' = unlock
    BY <1>2 DEF CreateCode
  <2>2. code[d].used = 0
    BY <2>1 DEF Money, CodeOK
  <2>3. code'[c].used = code[c].used /\ code[c].credits <= code'[c].credits
    BY <1>0, <2>1, <2>2 DEF NoCode
  <2> QED BY <1>0, <2>1, <2>3, SpentStays DEF Goal
<1>3. ASSUME NEW d \in Codes, DisableCode(d) PROVE Goal
  <2>1. code' = [code EXCEPT ![d].disabled = TRUE] /\ unlock' = unlock
    BY <1>3 DEF DisableCode
  <2>2. code'[c].used = code[c].used /\ code[c].credits <= code'[c].credits
    BY <1>0, <2>1 DEF CodeRow
  <2> QED BY <1>0, <2>1, <2>2, SpentStays DEF Goal
<1>4. ASSUME NEW r \in Reports, NEW d \in Codes, Redeem(r, d) PROVE Goal
  <2>1. /\ unlock[r] = None /\ code[d].used < code[d].credits
        /\ code' = [code EXCEPT ![d].used = @ + 1]
        /\ unlock' = [unlock EXCEPT ![r] = d]
    BY <1>4 DEF Redeem, Unpaid, Usable
  <2>2. code'[c].credits = code[c].credits
    BY <1>0, <2>1 DEF CodeRow
  <2>3. CASE d # c
    <3>1. code'[c] = code[c] /\ \A q \in Reports : unlock'[q] = c <=> unlock[q] = c
      BY <1>0, <2>1, <2>3, SetsAssumption
    <3> QED BY <1>0, <3>1, SpentStays DEF Goal
  <2>4. CASE d = c
    <3>1. Spent(c)' = Spent(c) \cup {r} /\ r \notin Spent(c)
      BY <1>0, <2>1, <2>4, SetsAssumption DEF Spent
    <3>2. IsFiniteSet(Spent(c)) /\ code[c].used = Cardinality(Spent(c))
      BY DEF SpentOK
    <3>3. IsFiniteSet(Spent(c)') /\ Cardinality(Spent(c)') = Cardinality(Spent(c)) + 1
      BY <3>1, <3>2, FS_AddElement
    <3>4. code'[c].used = code[c].used + 1
      BY <1>0, <2>1, <2>4 DEF CodeRow
    <3> QED BY <1>0, <2>1, <2>2, <2>4, <3>2, <3>3, <3>4 DEF Goal
  <2> QED BY <2>3, <2>4
<1>5. ASSUME NEW h \in Hooks, Settle(h) PROVE Goal
  <2>1. CASE ~UNCHANGED <<unlock, code>>
    <3>1. PICK s \in Sessions, r \in Reports :
            /\ unlock[r] = None
            /\ code[PackCode[s]].credits = 0
            /\ unlock' = [unlock EXCEPT ![r] = s]
            /\ code' = IF stripe[s].plan = "pack"
                       THEN [code EXCEPT ![PackCode[s]] = [NoCode EXCEPT !.credits = PackCredits]]
                       ELSE code
      BY <1>5, <2>1, SettleEffect
    <3>2. \A q \in Reports : unlock'[q] = c <=> unlock[q] = c
      BY <1>0, <3>1, SetsAssumption
    <3>3. code[PackCode[s]].used = 0 /\ PackCode[s] \in Codes
      BY <3>1, PackCodeAssumption DEF Money, CodeOK
    <3>4. code'[c].used = code[c].used /\ code[c].credits <= code'[c].credits
      BY <1>0, <3>1, <3>3 DEF NoCode, PackCredits
    <3> QED BY <1>0, <3>2, <3>4, SpentStays DEF Goal
  <2> QED BY <1>1, <2>1 DEF Goal
<1> QED BY <1>1, <1>2, <1>3, <1>4, <1>5, QuietSteps DEF CodeStep, Goal

LEMMA InitSpent == Init => SpentOK
<1> SUFFICES ASSUME Init, NEW c \in Codes
             PROVE  /\ IsFiniteSet(Spent(c))
                    /\ code[c].used = Cardinality(Spent(c))
                    /\ code[c].used <= code[c].credits
  BY DEF SpentOK
<1>1. Spent(c) = {} /\ code[c].used = 0 /\ code[c].credits = 0
  BY SetsAssumption DEF Init, Spent, NoCode
<1> QED BY <1>1, FS_EmptySet

\* A code has been used exactly by the reports it unlocked, and never beyond its credits.
THEOREM CreditsBalanceHolds == Spec => []CreditsBalance
<1>1. Init => Shape /\ Money /\ SpentOK
  BY InitShape, InitMoney, InitSpent
<1>2. Shape /\ Money /\ SpentOK /\ [Next]_vars => (Shape /\ Money /\ SpentOK)'
  BY StepShape, StepMoney, StepSpent
<1>3. SpentOK => CreditsBalance
  BY DEF SpentOK, CreditsBalance, Spent
<1> QED BY <1>1, <1>2, <1>3, PTL DEF Spec

==============================================================================
