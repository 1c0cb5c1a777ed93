------------------------- MODULE PaperTrading_proofs --------------------------
(***************************************************************************)
(* Proofs about the two programs that trade on paper: PaperLoop, for any    *)
(* market, number of bars, limits and crashes; PaperSession, for any feed,  *)
(* target and number of processes, one of them inside it at a time.        *)
(***************************************************************************)
EXTENDS PaperLoop, PaperSession, FiniteSetTheorems, WellFoundedInduction, TLAPS

------------------------------------------------------------------------------
(* What always holds of the files and of the process.                       *)

\* A position was marked on a bar.
Placed(s) == s.invested => s.mark # 0

\* The process is a record of its fields.
CycleRecord ==
    [pc : {"idle", "fetch", "saveSession", "saveLoop", "history"},
     session : Session, loop : Loop, worth : SUBSET Int, done : SUBSET Execution]

\* The fills of a session, in the order they were made, up to its last bar.
InOrder(s) ==
    \A i \in DOMAIN s.fills :
        /\ s.fills[i].target < s.fills[i].at /\ s.fills[i].at <= s.last
        /\ \A j \in 1..(i - 1) :
              s.fills[j].at < s.fills[i].at /\ s.fills[j].target <= s.fills[i].target

\* A pending target is no older than the targets the session has executed.
Awaits(s, l) == l.pending # 0 => \A i \in DOMAIN s.fills : s.fills[i].target <= l.pending

Times(s, t) == {i \in DOMAIN s.fills : s.fills[i].target = t}

\* After k crashes between the writes, a target was executed at most k + 1 times, and one
\* that is still pending at most k times.
Tally(s, l, k) ==
    \A t \in Bars : /\ Cardinality(Times(s, t)) <= 1 + k
                    /\ l.pending = t => Cardinality(Times(s, t)) <= k

\* The orders that k crashes between the writes allow.
Allowed(k) == MaxOrders * k

\* After k crashes between the writes, a day has at most that many orders more than its cap;
\* until the drawdown limit is reached, as many more than the loop counted on its day, and no
\* others on a later one.
Counted(s, l, k) ==
    \A d \in Days :
        /\ Cardinality(OrdersOn(s.fills, d)) <= Allowed(k + 1)
        /\ ~s.drawn /\ d = l.day => Cardinality(OrdersOn(s.fills, d)) <= l.filled + Allowed(k)
        /\ ~s.drawn /\ d > l.day => Cardinality(OrdersOn(s.fills, d)) <= Allowed(k)

\* The loop is not ahead of the session: only the drawdown ends a cycle on a new day early.
Behind(s, l) == ~s.drawn => l.day <= Day(s.last)

\* Until the drawdown limit is reached the loop's day is that of the session's last bar,
\* and it is the latest day that was opened: a halt for the daily loss never opens a day.
InDay(s, l, op) ==
    ~s.drawn =>
        /\ l.day = Day(s.last)
        /\ l.day > 0 => op[l.day] = {l.dayStart}
        /\ \A d \in Days : d > l.day => op[d] = {}

\* Every fill lies in a day that was opened, within the day's loss.
Within(s, op) ==
    \A i \in DOMAIN s.fills :
        /\ op[Day(s.fills[i].at)] # {}
        /\ \A open \in op[Day(s.fills[i].at)] :
              open > 0 => ~Fell(open, s.fills[i].equity, MaxDailyLoss)

\* The equity e of a bar of day d opens the day, unless an earlier bar did.
Opened(op, d, e) == IF op[d] = {} THEN [op EXCEPT ![d] = {e}] ELSE op

\* What `opened` becomes with the session the process is going to write.
OpenedAfter ==
    IF proc.worth # {} /\ opened[proc.loop.day] = {}
    THEN [opened EXCEPT ![proc.loop.day] = proc.worth] ELSE opened

FilesOK ==
    /\ Placed(sessionFile) /\ InOrder(sessionFile) /\ Awaits(sessionFile, loopFile)
    /\ Behind(sessionFile, loopFile)
    /\ proc.pc # "saveLoop" =>
          Tally(sessionFile, loopFile, splits) /\ Counted(sessionFile, loopFile, splits)
    /\ splits = 0 => /\ Within(sessionFile, opened)
                     /\ proc.pc # "saveLoop" => InDay(sessionFile, loopFile, opened)

CycleOK ==
    /\ proc \in CycleRecord
    /\ proc.pc = "idle" => proc = NoProcess
    /\ proc.pc = "fetch" =>
          proc.session = sessionFile /\ proc.loop = loopFile /\ proc.worth = {}
    /\ proc.pc = "saveSession" =>
          /\ Placed(proc.session) /\ InOrder(proc.session)
          /\ Awaits(proc.session, loopFile) /\ Awaits(proc.session, proc.loop)
          /\ Behind(proc.session, loopFile) /\ Behind(proc.session, proc.loop)
          /\ Tally(proc.session, proc.loop, splits) /\ Counted(proc.session, proc.loop, splits)
          /\ proc.worth # {} => proc.loop.day # 0
          /\ splits = 0 => /\ InDay(proc.session, proc.loop, OpenedAfter)
                           /\ Within(proc.session, OpenedAfter)
    /\ proc.pc = "saveLoop" =>
          /\ sessionFile = proc.session /\ Awaits(proc.session, proc.loop)
          /\ Behind(proc.session, proc.loop)
          /\ Tally(proc.session, proc.loop, splits) /\ Counted(proc.session, proc.loop, splits)
          /\ splits = 0 => InDay(proc.session, proc.loop, opened)

LoopInv == TypeOK /\ FilesOK /\ CycleOK

------------------------------------------------------------------------------
(* Days, sequences and their executions.                                    *)

LEMMA Numbers ==
  /\ MaxBar \in Nat \ {0} /\ BarsPerDay \in Nat \ {0} /\ InitialCash \in Nat \ {0}
  /\ Cost \in Nat /\ MaxTrades \in Nat /\ MaxOrders \in Nat
  /\ MaxDailyLoss \in Nat /\ MaxDrawdown \in Nat /\ MaxSplits \in Nat
  /\ \A x \in Levels : x \in Int
  BY LoopNumbers

\* Days follow the bars, and bar 0 is before the first.
LEMMA DayOrder ==
  /\ \A b \in 0..MaxBar : Day(b) \in 0..Day(MaxBar)
  /\ \A b \in Bars : Day(b) \in Days
  /\ \A b, c \in 0..MaxBar : b <= c => Day(b) <= Day(c)
  /\ Day(0) = 0 /\ Day(MaxBar) \in Nat
<1> DEFINE q(b) == (b - 1) \div BarsPerDay
<1>0. BarsPerDay \in Nat \ {0} /\ MaxBar \in Nat \ {0}
  BY LoopNumbers
<1>1. \A b \in Int : q(b) \in Int /\ BarsPerDay * q(b) <= b - 1 /\ b - 1 < BarsPerDay * q(b) + BarsPerDay
  BY <1>0, SMT
<1>2. ASSUME NEW b \in Int, NEW c \in Int, b <= c PROVE q(b) <= q(c)
  <2> DEFINE m == q(b)
             n == q(c)
  <2>1. m \in Int /\ n \in Int /\ BarsPerDay * m <= b - 1 /\ c - 1 < BarsPerDay * n + BarsPerDay
    BY <1>1
  <2> HIDE DEF m, n
  <2>2. BarsPerDay * m < BarsPerDay * (n + 1)
    BY <1>0, <1>2, <2>1, SMT
  <2>3. m < n + 1
    BY <1>0, <2>1, <2>2, SMT
  <2> QED BY <2>1, <2>3 DEF m, n
<1>3. q(0) = -1 /\ q(1) = 0
  BY <1>0, SMT
<1> QED BY <1>0, <1>1, <1>2, <1>3 DEF Day, Days, Bars

LEMMA AppendIs ==
  ASSUME NEW S, NEW q \in Seq(S), NEW e \in S
  PROVE  /\ Append(q, e) \in Seq(S) /\ Len(q) \in Nat
         /\ DOMAIN q = 1..Len(q) /\ DOMAIN Append(q, e) = 1..(Len(q) + 1)
         /\ \A i \in 1..Len(q) : Append(q, e)[i] = q[i] /\ q[i] \in S
         /\ Append(q, e)[Len(q) + 1] = e
  OBVIOUS

\* The executions of a target are finitely many, and one fill adds one.
LEMMA TimesFinite ==
  ASSUME NEW s \in Session, NEW t
  PROVE  IsFiniteSet(Times(s, t)) /\ Cardinality(Times(s, t)) \in Nat
<1>1. s.fills \in Seq(Execution)
  BY DEF Session
<1>2. DOMAIN s.fills = 1..Len(s.fills) /\ Len(s.fills) \in Nat
  BY <1>1
<1>3. IsFiniteSet(1..Len(s.fills))
  BY <1>2, FS_Interval
<1>4. Times(s, t) \subseteq 1..Len(s.fills)
  BY <1>2 DEF Times
<1> QED BY <1>3, <1>4, FS_Subset, FS_CardinalityType

LEMMA TimesAppend ==
  ASSUME NEW s \in Session, NEW s2 \in Session, NEW f \in Execution,
         s2.fills = Append(s.fills, f), NEW t
  PROVE  Cardinality(Times(s2, t)) = IF f.target = t THEN Cardinality(Times(s, t)) + 1
                                                      ELSE Cardinality(Times(s, t))
<1>1. s.fills \in Seq(Execution)
  BY DEF Session
<1> DEFINE n == Len(s.fills)
<1>2. /\ n \in Nat /\ DOMAIN s.fills = 1..n /\ DOMAIN s2.fills = 1..(n + 1)
      /\ \A i \in 1..n : s2.fills[i] = s.fills[i]
      /\ s2.fills[n + 1] = f
  BY <1>1, AppendIs
<1> HIDE DEF n
<1>3. CASE f.target = t
  <2>1. Times(s2, t) = Times(s, t) \cup {n + 1} /\ n + 1 \notin Times(s, t)
    BY <1>2, <1>3 DEF Times
  <2> QED BY <1>3, <2>1, TimesFinite, FS_AddElement
<1>4. CASE f.target # t
  <2>1. Times(s2, t) = Times(s, t)
    BY <1>2, <1>4 DEF Times
  <2> QED BY <1>4, <2>1
<1> QED BY <1>3, <1>4

\* The orders of a day are finitely many, and an execution adds its own to its day.
LEMMA OrdersFinite ==
  ASSUME NEW q \in Seq(Execution), NEW d
  PROVE  IsFiniteSet(OrdersOn(q, d)) /\ Cardinality(OrdersOn(q, d)) \in Nat
<1>1. DOMAIN q = 1..Len(q) /\ Len(q) \in Nat
  OBVIOUS
<1>2. IsFiniteSet(1..Len(q)) /\ IsFiniteSet(1..MaxTrades)
  BY <1>1, Numbers, FS_Interval
<1>3. IsFiniteSet((1..Len(q)) \X (1..MaxTrades))
  BY <1>2, FS_Product
<1>4. OrdersOn(q, d) \subseteq (1..Len(q)) \X (1..MaxTrades)
  BY <1>1 DEF OrdersOn
<1> QED BY <1>3, <1>4, FS_Subset, FS_CardinalityType

LEMMA OrdersAppend ==
  ASSUME NEW q \in Seq(Execution), NEW f \in Execution, NEW d
  PROVE  Cardinality(OrdersOn(Append(q, f), d)) =
            IF Day(f.at) = d THEN Cardinality(OrdersOn(q, d)) + f.fills
                             ELSE Cardinality(OrdersOn(q, d))
<1> DEFINE n == Len(q)
           new == {n + 1} \X (1..f.fills)
<1>1. /\ n \in Nat /\ DOMAIN q = 1..n /\ DOMAIN Append(q, f) = 1..(n + 1)
      /\ \A i \in 1..n : Append(q, f)[i] = q[i]
      /\ Append(q, f)[n + 1] = f
  BY AppendIs
<1>2. f.fills \in 1..MaxTrades /\ MaxTrades \in Nat
  BY Numbers DEF Execution
<1>3. IsFiniteSet(new) /\ Cardinality(new) = f.fills
  <2>1. IsFiniteSet({n + 1}) /\ Cardinality({n + 1}) = 1
    BY FS_Singleton
  <2>2. IsFiniteSet(1..f.fills) /\ Cardinality(1..f.fills) = f.fills
    BY <1>2, FS_Interval
  <2>3. IsFiniteSet(new) /\ Cardinality(new) = Cardinality({n + 1}) * Cardinality(1..f.fills)
    BY <2>1, <2>2, FS_Product
  <2> QED BY <1>2, <2>1, <2>2, <2>3
<1>4. CASE Day(f.at) = d
  <2>1. OrdersOn(Append(q, f), d) = OrdersOn(q, d) \cup new /\ OrdersOn(q, d) \cap new = {}
    BY <1>1, <1>2, <1>4 DEF OrdersOn
  <2> HIDE DEF new
  <2>2. Cardinality(OrdersOn(q, d) \cup new) = Cardinality(OrdersOn(q, d)) + Cardinality(new)
    <3>1. IsFiniteSet(OrdersOn(q, d)) /\ Cardinality(OrdersOn(q, d)) \in Nat
      BY OrdersFinite
    <3>2. Cardinality(OrdersOn(q, d) \cup new) =
            Cardinality(OrdersOn(q, d)) + Cardinality(new) - Cardinality({})
      BY <1>3, <2>1, <3>1, FS_Union
    <3> QED BY <1>2, <1>3, <3>1, <3>2, FS_EmptySet
  <2> QED BY <1>3, <1>4, <2>1, <2>2
<1>5. CASE Day(f.at) # d
  <2>1. OrdersOn(Append(q, f), d) = OrdersOn(q, d)
    BY <1>1, <1>2, <1>5 DEF OrdersOn
  <2> QED BY <1>5, <2>1
<1> QED BY <1>4, <1>5

LEMMA AllowedIs ==
  /\ \A k \in Nat : Allowed(k) \in Nat /\ Allowed(k + 1) = Allowed(k) + MaxOrders
  /\ Allowed(0) = 0 /\ MaxOrders \in Nat
<1>1. MaxOrders \in Nat
  BY Numbers
<1>2. \A m \in Nat, k \in Nat : m * k \in Nat /\ m * (k + 1) = m * k + m /\ m * 0 = 0
  OBVIOUS
<1> QED BY <1>1, <1>2 DEF Allowed

------------------------------------------------------------------------------
(* What a cycle makes of the files it loaded.                               *)

\* Marking moves the equity and the drawdown, never the fills or the last bar.
LEMMA MarkedIs ==
  ASSUME level \in [Bars -> Levels], NEW s \in Session, Placed(s), NEW b \in Bars
  PROVE  /\ Marked(s, b) \in Session /\ Placed(Marked(s, b))
         /\ Marked(s, b).fills = s.fills /\ Marked(s, b).last = s.last
         /\ Marked(s, b).mark = b
         /\ s.drawn => Marked(s, b).drawn
<1> DEFINE equity == IF s.invested THEN s.equity + level[b] - level[s.mark] ELSE s.equity
           high == IF equity > s.high THEN equity ELSE s.high
           drawn == s.drawn \/ (high - equity) * 100 >= MaxDrawdown * high
<1>1. \A c \in Bars : level[c] \in Int
  BY Numbers
<1>2. equity \in Int /\ high \in Int
  <2>1. s.invested => s.mark \in Bars
    BY DEF Session, Placed, Bars
  <2>2. s.equity \in Int /\ s.high \in Int
    BY DEF Session
  <2> QED BY <1>1, <2>1, <2>2
<1>3. Marked(s, b) = [s EXCEPT !.mark = b, !.equity = equity, !.high = high, !.drawn = drawn]
  BY DEF Marked
<1>4. drawn \in BOOLEAN /\ (s.drawn => drawn)
  OBVIOUS
<1> HIDE DEF equity, high, drawn
<1>5. b \in 0..MaxBar /\ b # 0
  BY Numbers DEF Bars
<1>6. Marked(s, b) = [last |-> s.last, mark |-> b, equity |-> equity, high |-> high,
                      drawn |-> drawn, invested |-> s.invested, halted |-> s.halted,
                      fills |-> s.fills]
  BY <1>3 DEF Session
<1>7. /\ s.last \in 0..MaxBar /\ s.invested \in BOOLEAN /\ s.halted \in BOOLEAN
      /\ s.fills \in Seq(Execution)
  BY DEF Session
<1>8. Marked(s, b) \in Session
  BY <1>2, <1>4, <1>5, <1>6, <1>7 DEF Session
<1> QED BY <1>4, <1>5, <1>6, <1>8 DEF Placed

\* The orders the loop has counted on the day of bar b before the cycle.
Sofar(l, b) == IF l.day = Day(b) THEN l.filled ELSE 0

\* The loop state on a bar: the day's opening is the equity at its first bar.
LEMMA OnDayIs ==
  ASSUME NEW l \in Loop, NEW b \in Bars, NEW e \in Int
  PROVE  /\ OnDay(l, b, e) \in Loop
         /\ OnDay(l, b, e).pending = l.pending
         /\ OnDay(l, b, e).day = Day(b)
         /\ OnDay(l, b, e).dayStart = IF l.day = Day(b) THEN l.dayStart ELSE e
         /\ OnDay(l, b, e).filled = Sofar(l, b)
<1>1. Day(b) \in 0..Day(MaxBar) /\ 0 \in 0..MaxOrders
  BY DayOrder, Numbers DEF Bars
<1> QED BY <1>1 DEF OnDay, Loop, Sofar

\* The first bar of a day never breaches the day's loss.
LEMMA NoLossYet ==
  ASSUME NEW s \in Session, NEW l \in Loop, Breached(s, l)
  PROVE  l.dayStart # s.equity
<1> SUFFICES ASSUME l.dayStart = s.equity PROVE FALSE
  OBVIOUS
<1>1. l.dayStart \in Int /\ l.dayStart > 0 /\ MaxDailyLoss \in Nat
  BY Numbers DEF Breached, Loop
<1> DEFINE x == l.dayStart
<1>2. (x - x) * 100 > MaxDailyLoss * x
  BY DEF Breached, Fell
<1> HIDE DEF x
<1>3. x \in Nat /\ x > 0
  BY <1>1 DEF x
<1>4. (x - x) * 100 = 0
  BY <1>3
<1>5. MaxDailyLoss * x \in Nat
  BY <1>1, <1>3
<1> QED BY <1>2, <1>4, <1>5

\* An execution of n orders.
LEMMA FilledIs ==
  ASSUME NEW s \in Session, s.mark # 0, NEW b \in Bars, NEW t \in Bars, NEW n \in 0..MaxTrades,
         NEW invested \in BOOLEAN
  PROVE  /\ Filled(s, b, t, n, invested) \in Session
         /\ Placed(Filled(s, b, t, n, invested))
         /\ Filled(s, b, t, n, invested).drawn = s.drawn
         /\ \/ n = 0 /\ Filled(s, b, t, n, invested).fills = s.fills
            \/ \E f \in Execution : /\ f.target = t /\ f.at = b /\ f.equity = s.equity
                                    /\ f.fills = n
                                    /\ Filled(s, b, t, n, invested).fills = Append(s.fills, f)
<1>1. CASE n = 0
  BY <1>1 DEF Filled, Placed
<1>2. CASE n # 0
  <2> DEFINE f == [target |-> t, at |-> b, fills |-> n, equity |-> s.equity]
             r == [s EXCEPT !.equity = s.equity - n * Cost, !.invested = invested,
                            !.fills = Append(s.fills, f)]
  <2>1. Filled(s, b, t, n, invested) = r
    BY <1>2 DEF Filled
  <2>2. f \in Execution /\ f.target = t /\ f.at = b /\ f.equity = s.equity /\ f.fills = n
    BY <1>2, Numbers DEF Execution, Session
  <2> HIDE DEF f
  <2>3. Append(s.fills, f) \in Seq(Execution)
    BY <2>2 DEF Session
  <2>4. s.equity - n * Cost \in Int
    BY Numbers DEF Session
  <2>5. r \in Session /\ r.mark = s.mark /\ r.drawn = s.drawn /\ r.fills = Append(s.fills, f)
    BY <2>3, <2>4 DEF Session
  <2> HIDE DEF r
  <2> QED BY <2>1, <2>2, <2>5 DEF Placed
<1> QED BY <1>1, <1>2

\* A cycle on bar b, with the equity e it marked: it halts, on a later bar of the day or
\* for the drawdown; or it goes on to the bar, with one execution or none.
Moves(s, l, b, e, s2, l2) ==
    /\ l2.day = Day(b)
    /\ l2.dayStart = IF l.day = Day(b) THEN l.dayStart ELSE e
    /\ Placed(s2)
    /\ s.drawn => s2.drawn
    /\ \/ /\ s2.fills = s.fills /\ s2.last = s.last /\ l2.pending = l.pending
          /\ s2.drawn \/ l.day = Day(b)
          /\ l2.filled = Sofar(l, b)
       \/ /\ s2.last = b /\ ~s.drawn
          /\ \/ /\ s2.fills = s.fills /\ l2.pending \in {l.pending, 0, b}
                /\ l2.filled = Sofar(l, b)
             \/ \E f \in Execution :
                  /\ l.pending # 0 /\ l.pending < b
                  /\ f.target = l.pending /\ f.at = b /\ f.equity = e
                  /\ l2.dayStart > 0 => ~Fell(l2.dayStart, e, MaxDailyLoss)
                  /\ s2.fills = Append(s.fills, f)
                  /\ l2.pending \in {0, b}
                  /\ l2.filled = Sofar(l, b) + f.fills

LEMMA ExecutedMoves ==
  ASSUME NEW s \in Session, s.mark # 0, NEW l \in Loop, NEW b \in Bars,
         ~Breached(s, l), ~s.drawn,
         NEW x \in Executed(s, l, b), NEW next \in Decided(x, b)
  PROVE  /\ [x.s EXCEPT !.last = b] \in Session /\ next \in Loop
         /\ next.day = l.day /\ next.dayStart = l.dayStart
         /\ Placed([x.s EXCEPT !.last = b])
         /\ [x.s EXCEPT !.last = b].last = b
         /\ \/ /\ [x.s EXCEPT !.last = b].fills = s.fills /\ next.pending \in {l.pending, 0, b}
               /\ next.filled = l.filled
            \/ \E f \in Execution :
                  /\ l.pending # 0 /\ l.pending < b
                  /\ f.target = l.pending /\ f.at = b /\ f.equity = s.equity
                  /\ [x.s EXCEPT !.last = b].fills = Append(s.fills, f)
                  /\ next.pending \in {0, b}
                  /\ next.filled = l.filled + f.fills
<1>0. b \in 0..MaxBar /\ l.pending \in 0..MaxBar
  BY Numbers DEF Bars, Loop
<1>1. /\ x.s \in Session /\ x.l \in Loop /\ Placed(x.s)
      /\ x.l.day = l.day /\ x.l.dayStart = l.dayStart
      /\ \/ x.s.fills = s.fills /\ x.l.pending \in {l.pending, 0} /\ x.l.filled = l.filled
         \/ \E f \in Execution :
                  /\ l.pending # 0 /\ l.pending < b
                  /\ f.target = l.pending /\ f.at = b /\ f.equity = s.equity
                  /\ x.s.fills = Append(s.fills, f)
                  /\ x.l.pending = 0 /\ x.l.filled = l.filled + f.fills
  <2>1. CASE l.pending = 0 \/ l.pending >= b
    <3>1. x = [s |-> s, l |-> l]
      BY <2>1 DEF Executed
    <3> QED BY <3>1 DEF Placed
  <2>2. CASE ~(l.pending = 0 \/ l.pending >= b)
    <3>1. PICK n \in 0..Room(l), invested \in BOOLEAN :
            x = [s |-> IF Breached(Filled(s, b, l.pending, n, invested), l)
                       THEN Halted(Filled(s, b, l.pending, n, invested))
                       ELSE Filled(s, b, l.pending, n, invested),
                 l |-> Cleared(l, n)]
      BY <2>2 DEF Executed
    <3> DEFINE after == Filled(s, b, l.pending, n, invested)
    <3>2. n \in 0..MaxTrades /\ l.filled + n \in 0..MaxOrders
      BY Numbers DEF Room, Loop
    <3>3. l.pending \in Bars
      BY <1>0, <2>2 DEF Bars
    <3>4. /\ after \in Session /\ Placed(after)
          /\ \/ n = 0 /\ after.fills = s.fills
             \/ \E f \in Execution : /\ f.target = l.pending /\ f.at = b /\ f.equity = s.equity
                                     /\ f.fills = n
                                     /\ after.fills = Append(s.fills, f)
      BY <3>2, <3>3, FilledIs
    <3>5. x.s \in {after, Halted(after)} /\ x.l = Cleared(l, n)
      BY <3>1
    <3> HIDE DEF after
    <3>6. Halted(after) \in Session /\ Placed(Halted(after)) /\ Halted(after).fills = after.fills
      BY <3>4 DEF Halted, Session, Placed
    <3>7. /\ Cleared(l, n) \in Loop /\ Cleared(l, n).pending = 0
          /\ Cleared(l, n).day = l.day /\ Cleared(l, n).dayStart = l.dayStart
          /\ Cleared(l, n).filled = l.filled + n /\ l.filled + 0 = l.filled
      <4>1. 0 \in 0..MaxBar /\ l.filled + n \in 0..MaxOrders
        BY <3>2, Numbers
      <4>2. Cleared(l, n) = [l EXCEPT !.pending = 0, !.filled = l.filled + n]
        BY DEF Cleared
      <4>3. l.filled + 0 = l.filled
        BY DEF Loop
      <4> QED BY <4>1, <4>2, <4>3 DEF Loop
    <3>8. x.s \in Session /\ Placed(x.s) /\ x.s.fills = after.fills
      BY <3>4, <3>5, <3>6
    <3>9. l.pending # 0 /\ l.pending < b
      BY <1>0, <2>2
    <3> QED BY <3>4, <3>5, <3>7, <3>8, <3>9
  <2> QED BY <2>1, <2>2
<1>2. /\ next \in Loop /\ next.day = x.l.day /\ next.dayStart = x.l.dayStart
      /\ next.pending \in {x.l.pending, b} /\ next.filled = x.l.filled
  BY <1>0, <1>1 DEF Decided, Loop
<1>3. /\ [x.s EXCEPT !.last = b] \in Session /\ [x.s EXCEPT !.last = b].last = b
      /\ Placed([x.s EXCEPT !.last = b])
      /\ [x.s EXCEPT !.last = b].fills = x.s.fills
  BY <1>0, <1>1 DEF Session, Placed
<1> QED BY <1>1, <1>2, <1>3

\* Process saves what a cycle makes of the files it loaded.
LEMMA ProcessMoves ==
  ASSUME TypeOK, proc \in CycleRecord, Placed(proc.session), NEW b \in Bars, Process(b)
  PROVE  /\ proc.pc = "fetch" /\ proc.session.last < b
         /\ UNCHANGED <<level, killed, sessionFile, loopFile, torn, history, splits, opened>>
         /\ \E s2 \in Session, l2 \in Loop, e \in Int, done \in SUBSET Execution :
              /\ proc' = [pc |-> "saveSession", session |-> s2, loop |-> l2, worth |-> {e},
                          done |-> done]
              /\ Moves(proc.session, proc.loop, b, e, s2, l2)
<1> DEFINE s0 == proc.session
           l0 == proc.loop
           s == Marked(s0, b)
           l == OnDay(l0, b, s.equity)
<1>0. s0 \in Session /\ l0 \in Loop
  BY DEF CycleRecord
<1>1. /\ s \in Session /\ Placed(s) /\ s.fills = s0.fills /\ s.last = s0.last /\ s.mark = b
      /\ s0.drawn => s.drawn
  BY <1>0, MarkedIs DEF TypeOK
<1>2. s.equity \in Int /\ b # 0 /\ b \in 0..MaxBar
  BY <1>1, Numbers DEF Session, Bars
<1>3. /\ l \in Loop /\ l.pending = l0.pending /\ l.day = Day(b)
      /\ l.dayStart = IF l0.day = Day(b) THEN l0.dayStart ELSE s.equity
      /\ l.filled = Sofar(l0, b)
  BY <1>0, <1>2, OnDayIs
<1>4. /\ proc.pc = "fetch" /\ s0.last < b
      /\ UNCHANGED <<level, killed, sessionFile, loopFile, torn, history, splits, opened>>
      /\ IF Breached(s, l) \/ s.drawn
         THEN Saving(Halted(s), l, {s.equity})
         ELSE \E x \in Executed(s, l, b) : \E next \in Decided(x, b) :
                 Saving([x.s EXCEPT !.last = b], next, {s.equity})
  BY DEF Process, IsNew
<1>5. ASSUME NEW s2 \in Session, NEW l2 \in Loop, Saving(s2, l2, {s.equity}),
             Moves(s0, l0, b, s.equity, s2, l2)
      PROVE  \E s3 \in Session, l3 \in Loop, e \in Int, done \in SUBSET Execution :
              /\ proc' = [pc |-> "saveSession", session |-> s3, loop |-> l3, worth |-> {e},
                          done |-> done]
              /\ Moves(proc.session, proc.loop, b, e, s3, l3)
  <2> DEFINE done == ToSet(s2.fills) \ ToSet(proc.session.fills)
  <2>1. proc' = [pc |-> "saveSession", session |-> s2, loop |-> l2, worth |-> {s.equity},
                 done |-> done]
    BY <1>5 DEF Saving
  <2>2. done \in SUBSET Execution
    <3>1. s2.fills \in Seq(Execution)
      BY DEF Session
    <3>2. \A i \in DOMAIN s2.fills : s2.fills[i] \in Execution
      BY <3>1
    <3> QED BY <3>2 DEF ToSet
  <2> HIDE DEF done, s
  <2> QED BY <1>2, <1>5, <2>1, <2>2
<1> HIDE DEF s, l, s0, l0
<1>6. CASE Breached(s, l) \/ s.drawn
  <2>1. Halted(s) \in Session /\ Placed(Halted(s)) /\ Halted(s).fills = s.fills
        /\ Halted(s).last = s.last /\ Halted(s).drawn = s.drawn
    BY <1>1 DEF Halted, Session, Placed
  <2>2. s.drawn \/ l0.day = Day(b)
    BY <1>1, <1>3, <1>6, NoLossYet
  <2>3. Moves(s0, l0, b, s.equity, Halted(s), l)
    BY <1>1, <1>3, <2>1, <2>2 DEF Moves
  <2> QED BY <1>3, <1>4, <1>5, <1>6, <2>1, <2>3 DEF s0, l0
<1>7. CASE ~(Breached(s, l) \/ s.drawn)
  <2>1. PICK x \in Executed(s, l, b) : \E next \in Decided(x, b) :
          Saving([x.s EXCEPT !.last = b], next, {s.equity})
    BY <1>4, <1>7
  <2>2. PICK next \in Decided(x, b) : Saving([x.s EXCEPT !.last = b], next, {s.equity})
    BY <2>1
  <2> DEFINE s2 == [x.s EXCEPT !.last = b]
  <2>3. /\ s2 \in Session /\ next \in Loop
        /\ next.day = l.day /\ next.dayStart = l.dayStart
        /\ Placed(s2) /\ s2.last = b
        /\ \/ /\ s2.fills = s.fills /\ next.pending \in {l.pending, 0, b}
              /\ next.filled = l.filled
           \/ \E f \in Execution :
                  /\ l.pending # 0 /\ l.pending < b
                  /\ f.target = l.pending /\ f.at = b /\ f.equity = s.equity
                  /\ s2.fills = Append(s.fills, f)
                  /\ next.pending \in {0, b} /\ next.filled = l.filled + f.fills
    BY <1>1, <1>2, <1>3, <1>7, ExecutedMoves
  <2> HIDE DEF s2
  <2>4. next.dayStart > 0 => ~Fell(next.dayStart, s.equity, MaxDailyLoss)
    BY <1>7, <2>3 DEF Breached
  <2>5. Moves(s0, l0, b, s.equity, s2, next)
    BY <1>1, <1>3, <1>7, <2>3, <2>4 DEF Moves
  <2>6. Saving(s2, next, {s.equity})
    BY <2>2 DEF s2
  <2> QED BY <1>4, <1>5, <2>3, <2>5, <2>6 DEF s0, l0
<1> QED BY <1>4, <1>6, <1>7 DEF s0, l0

\* A cycle keeps the fills in order ...
LEMMA MovesOrder ==
  ASSUME NEW s \in Session, NEW l \in Loop, NEW b \in Bars, NEW e, NEW s2 \in Session,
         NEW l2 \in Loop, s.last < b, InOrder(s), Awaits(s, l), Moves(s, l, b, e, s2, l2)
  PROVE  InOrder(s2) /\ Awaits(s2, l) /\ Awaits(s2, l2)
<1> DEFINE n == Len(s.fills)
<1>1. /\ s.fills \in Seq(Execution) /\ s.last \in Int /\ b \in Int /\ l.pending \in Int
      /\ n \in Nat /\ DOMAIN s.fills = 1..n
      /\ \A i \in 1..n : /\ s.fills[i].target \in Int /\ s.fills[i].at \in Int
                         /\ s.fills[i].target < b /\ s.fills[i].at < b
  <2>1. s.fills \in Seq(Execution) /\ s.last \in Int /\ b \in Int /\ l.pending \in Int
    BY Numbers DEF Session, Loop, Bars
  <2>2. n \in Nat /\ DOMAIN s.fills = 1..n /\ \A i \in 1..n : s.fills[i] \in Execution
    BY <2>1
  <2>3. \A f \in Execution : f.target \in Int /\ f.at \in Int
    BY Numbers DEF Execution, Bars
  <2> QED BY <2>1, <2>2, <2>3 DEF InOrder
<1>2. CASE s2.fills = s.fills /\ s2.last = s.last /\ l2.pending = l.pending
  BY <1>2 DEF InOrder, Awaits
<1>3. CASE s2.fills = s.fills /\ s2.last = b /\ l2.pending \in {l.pending, 0, b}
  <2>1. \A i \in 1..n : s.fills[i].at <= b /\ s.fills[i].target <= b
    BY <1>1
  <2>2. InOrder(s2)
    BY <1>1, <1>3, <2>1 DEF InOrder
  <2>3. Awaits(s2, l) /\ Awaits(s2, l2)
    BY <1>1, <1>3, <2>1 DEF Awaits
  <2> QED BY <2>2, <2>3
<1>4. ASSUME NEW f \in Execution, l.pending # 0, l.pending < b, f.target = l.pending, f.at = b,
             s2.fills = Append(s.fills, f), s2.last = b, l2.pending \in {0, b}
      PROVE  InOrder(s2) /\ Awaits(s2, l) /\ Awaits(s2, l2)
  <2>1. /\ DOMAIN s2.fills = 1..(n + 1)
        /\ \A i \in 1..n : s2.fills[i] = s.fills[i]
        /\ s2.fills[n + 1] = f
    BY <1>1, <1>4, AppendIs
  <2> HIDE DEF n
  <2>2. InOrder(s2)
    <3> SUFFICES ASSUME NEW i \in 1..(n + 1)
                 PROVE  /\ s2.fills[i].target < s2.fills[i].at /\ s2.fills[i].at <= s2.last
                        /\ \A j \in 1..(i - 1) :
                             s2.fills[j].at < s2.fills[i].at /\ s2.fills[j].target <= s2.fills[i].target
      BY <2>1 DEF InOrder
    <3>1. CASE i \in 1..n
      <4>1. /\ s.fills[i].target < s.fills[i].at /\ s.fills[i].at <= s.last
            /\ \A j \in 1..(i - 1) :
                 s.fills[j].at < s.fills[i].at /\ s.fills[j].target <= s.fills[i].target
        BY <1>1, <3>1 DEF InOrder
      <4>2. \A j \in 1..(i - 1) : j \in 1..n
        BY <1>1, <3>1
      <4> QED BY <1>1, <1>4, <2>1, <3>1, <4>1, <4>2
    <3>2. CASE i = n + 1
      <4>1. \A j \in 1..(i - 1) : j \in 1..n
        BY <1>1, <3>2
      <4>2. \A j \in 1..n : s.fills[j].target <= l.pending
        BY <1>1, <1>4 DEF Awaits
      <4> QED BY <1>1, <1>4, <2>1, <3>2, <4>1, <4>2
    <3> QED BY <1>1, <3>1, <3>2
  <2>3. \A i \in 1..(n + 1) : s2.fills[i].target <= l.pending
    BY <1>1, <1>4, <2>1 DEF Awaits
  <2>4. \A i \in 1..(n + 1) : s2.fills[i].target <= b
    BY <1>1, <1>4, <2>1
  <2> QED BY <1>4, <2>1, <2>2, <2>3, <2>4 DEF Awaits
<1> QED BY <1>2, <1>3, <1>4 DEF Moves

\* ... and every target at most once more than the crashes between the writes ...
LEMMA MovesTally ==
  ASSUME NEW s \in Session, NEW l \in Loop, NEW b \in Bars, NEW e, NEW s2 \in Session,
         NEW l2 \in Loop, NEW k \in Nat, s.last < b, InOrder(s), Tally(s, l, k),
         Moves(s, l, b, e, s2, l2)
  PROVE  Tally(s2, l2, k)
<1>1. \A t \in Bars : Cardinality(Times(s, t)) \in Nat
  BY TimesFinite
<1>2. s.last \in Int /\ b \in Int /\ l.pending \in 0..MaxBar /\ b # 0 /\ MaxBar \in Nat
  BY Numbers DEF Session, Bars, Loop
<1>3. Cardinality(Times(s, b)) = 0
  <2>1. \A i \in DOMAIN s.fills : s.fills[i] \in Execution
    BY DEF Session
  <2>2. \A f \in Execution : f.target \in Int /\ f.at \in Int
    BY Numbers DEF Execution, Bars
  <2>3. Times(s, b) = {}
    BY <1>2, <2>1, <2>2 DEF Times, InOrder
  <2> QED BY <2>3, FS_EmptySet
<1>4. CASE s2.fills = s.fills /\ l2.pending \in {l.pending, 0, b}
  <2>1. \A t \in Bars : Times(s2, t) = Times(s, t)
    BY <1>4 DEF Times
  <2>2. \A t \in Bars : t # 0
    BY DEF Bars
  <2> QED BY <1>1, <1>3, <1>4, <2>1, <2>2 DEF Tally
<1>5. ASSUME NEW f \in Execution, l.pending # 0, l.pending < b, f.target = l.pending,
             s2.fills = Append(s.fills, f), l2.pending \in {0, b}
      PROVE  Tally(s2, l2, k)
  <2>1. \A t \in Bars : Cardinality(Times(s2, t)) =
          IF l.pending = t THEN Cardinality(Times(s, t)) + 1 ELSE Cardinality(Times(s, t))
    BY <1>5, TimesAppend
  <2>2. \A t \in Bars : t # 0
    BY DEF Bars
  <2>3. Cardinality(Times(s2, b)) = 0
    BY <1>2, <1>3, <1>5, <2>1
  <2> QED BY <1>1, <1>5, <2>1, <2>2, <2>3 DEF Tally
<1> QED BY <1>4, <1>5 DEF Moves

\* ... and the orders of a day within what is allowed ...
LEMMA MovesCount ==
  ASSUME NEW s \in Session, NEW l \in Loop, NEW b \in Bars, NEW e, NEW s2 \in Session,
         NEW l2 \in Loop, NEW k \in Nat, s.last < b, Behind(s, l), Counted(s, l, k),
         Moves(s, l, b, e, s2, l2)
  PROVE  Counted(s2, l2, k) /\ Behind(s2, l) /\ Behind(s2, l2)
<1>1. /\ l2.day = Day(b) /\ Day(b) \in Days /\ Day(b) \in Int /\ l.day \in Int
      /\ Day(s.last) <= Day(b) /\ Day(s.last) \in Int
      /\ l.filled \in Nat /\ l2.filled \in 0..MaxOrders
  <2>1. s.last \in 0..MaxBar /\ b \in 0..MaxBar /\ s.last <= b
    BY Numbers DEF Session, Bars
  <2>2. l.day \in 0..Day(MaxBar) /\ l.filled \in Nat /\ l2.filled \in 0..MaxOrders
    BY Numbers DEF Loop
  <2>3. Day(b) \in Days /\ Day(s.last) <= Day(b) /\ Day(s.last) \in 0..Day(MaxBar)
    BY <2>1, DayOrder
  <2> QED BY <2>1, <2>2, <2>3, DayOrder DEF Moves, Days
<1>2. /\ Allowed(k) \in Nat /\ Allowed(k + 1) = Allowed(k) + MaxOrders /\ MaxOrders \in Nat
  BY AllowedIs
<1>3. s.fills \in Seq(Execution) /\ \A d \in Days : Cardinality(OrdersOn(s.fills, d)) \in Nat
  BY OrdersFinite DEF Session
<1>4. ~s2.drawn => ~s.drawn
  BY DEF Moves
<1>5. ~s.drawn => l.day <= Day(b)
  BY <1>1 DEF Behind
<1> DEFINE C(q, d) == Cardinality(OrdersOn(q, d))
<1>6. ~s.drawn => /\ \A d \in Days : d > Day(b) => C(s.fills, d) <= Allowed(k)
                  /\ C(s.fills, Day(b)) <= Sofar(l, b) + Allowed(k)
  <2> SUFFICES ASSUME ~s.drawn
               PROVE  /\ \A d \in Days : d > Day(b) => C(s.fills, d) <= Allowed(k)
                      /\ C(s.fills, Day(b)) <= Sofar(l, b) + Allowed(k)
    OBVIOUS
  <2>1. \A d \in Days : /\ d = l.day => C(s.fills, d) <= l.filled + Allowed(k)
                        /\ d > l.day => C(s.fills, d) <= Allowed(k)
    BY DEF Counted
  <2>2. \A d \in Days : C(s.fills, d) \in Nat /\ d \in Int
    BY <1>3 DEF Days
  <2>3. Sofar(l, b) = IF l.day = Day(b) THEN l.filled ELSE 0
    BY DEF Sofar
  <2> HIDE DEF C
  <2>4. \A d \in Days : d > Day(b) => d > l.day
    BY <1>1, <1>5, <2>2
  <2>5. CASE l.day = Day(b)
    BY <1>1, <2>1, <2>3, <2>4, <2>5
  <2>6. CASE l.day # Day(b)
    <3>1. Day(b) > l.day
      BY <1>1, <1>5, <2>6
    <3> QED BY <1>1, <1>2, <2>1, <2>2, <2>3, <2>4, <2>6, <3>1
  <2> QED BY <2>5, <2>6
<1>7. Behind(s2, l) /\ Behind(s2, l2)
  <2>1. CASE s2.last = s.last /\ (s2.drawn \/ l.day = Day(b))
    BY <1>1, <1>4, <2>1 DEF Behind
  <2>2. CASE s2.last = b
    BY <1>1, <1>4, <1>5, <2>2 DEF Behind
  <2> QED BY <2>1, <2>2 DEF Moves
<1>8. CASE s2.fills = s.fills /\ l2.filled = Sofar(l, b)
  BY <1>1, <1>2, <1>3, <1>4, <1>6, <1>7, <1>8 DEF Counted
<1>9. ASSUME ~s.drawn, NEW f \in Execution, f.at = b, s2.fills = Append(s.fills, f),
             l2.filled = Sofar(l, b) + f.fills
      PROVE  Counted(s2, l2, k)
  <2>1. f.fills \in Nat /\ Sofar(l, b) \in Nat
    BY <1>1, Numbers DEF Execution, Sofar
  <2>2. \A d \in Days : C(s2.fills, d) = IF Day(b) = d THEN C(s.fills, d) + f.fills ELSE C(s.fills, d)
    BY <1>3, <1>9, OrdersAppend
  <2>3. C(s2.fills, Day(b)) <= l2.filled + Allowed(k)
    BY <1>1, <1>2, <1>3, <1>6, <1>9, <2>1, <2>2
  <2>4. \A d \in Days : C(s.fills, d) \in Nat /\ d \in Int /\ C(s.fills, d) <= Allowed(k + 1)
    BY <1>3 DEF Days, Counted
  <2>5. \A d \in Days : d # Day(b) => C(s2.fills, d) = C(s.fills, d)
    BY <2>2
  <2> HIDE DEF C
  <2>6. \A d \in Days : d = Day(b) \/ d # Day(b)
    OBVIOUS
  <2>7. C(s2.fills, Day(b)) <= Allowed(k + 1)
    <3>1. C(s2.fills, Day(b)) \in Nat
      BY <1>1, <2>1, <2>2, <2>4
    <3> QED BY <1>1, <1>2, <2>3, <3>1
  <2>8. ASSUME NEW d \in Days
        PROVE  /\ C(s2.fills, d) <= Allowed(k + 1)
               /\ ~s2.drawn /\ d = l2.day => C(s2.fills, d) <= l2.filled + Allowed(k)
               /\ ~s2.drawn /\ d > l2.day => C(s2.fills, d) <= Allowed(k)
    <3>1. CASE d = Day(b)
      BY <1>1, <2>3, <2>7, <3>1
    <3>2. CASE d # Day(b)
      BY <1>1, <1>6, <1>9, <2>4, <2>5, <3>2
    <3> QED BY <3>1, <3>2
  <2> QED BY <2>8 DEF Counted, C
<1> QED BY <1>7, <1>8, <1>9 DEF Moves

\* ... and in its day, within the day's loss.
LEMMA MovesDay ==
  ASSUME NEW s \in Session, NEW l \in Loop, NEW b \in Bars, NEW e \in Int, NEW s2 \in Session,
         NEW l2 \in Loop, s.last < b, Moves(s, l, b, e, s2, l2),
         NEW op \in [Days -> SUBSET Int], InDay(s, l, op), Within(s, op)
  PROVE  /\ InDay(s2, l2, Opened(op, l2.day, e))
         /\ Within(s2, Opened(op, l2.day, e))
<1> DEFINE op2 == Opened(op, l2.day, e)
<1>a. op2 = IF op[l2.day] = {} THEN [op EXCEPT ![l2.day] = {e}] ELSE op
  BY DEF Opened
<1>b. op2 \in [Days -> SUBSET Int]
  BY <1>a
<1> SUFFICES InDay(s2, l2, op2) /\ Within(s2, op2)
  OBVIOUS
<1> HIDE DEF op2
<1>0. /\ l2.day = Day(b) /\ Day(b) \in Days /\ Day(b) \in Int /\ l.day \in Int /\ Day(b) > 0
      /\ Day(s.last) <= Day(b) /\ Day(s.last) \in Int
  <2>1. s.last \in 0..MaxBar /\ b \in 0..MaxBar /\ s.last <= b /\ l.day \in Int
    <3>1. s.last \in 0..MaxBar /\ b \in 0..MaxBar /\ s.last <= b
      BY Numbers DEF Session, Bars
    <3>2. l.day \in 0..Day(MaxBar)
      BY DEF Loop
    <3> QED BY <3>1, <3>2, DayOrder
  <2>2. Day(b) \in Days /\ Day(s.last) <= Day(b) /\ Day(s.last) \in 0..Day(MaxBar)
    BY <2>1, DayOrder
  <2> QED BY <2>1, <2>2 DEF Moves, Days
<1>1. \A d \in Days : op[d] # {} => op2[d] = op[d]
  BY <1>a, <1>0
<1>2. \A i \in DOMAIN s.fills : Day(s.fills[i].at) \in Days
  <2>1. \A i \in DOMAIN s.fills : s.fills[i] \in Execution
    BY DEF Session
  <2> QED BY <2>1, DayOrder DEF Execution
<1>3. Within(s, op2)
  BY <1>1, <1>2 DEF Within
<1>4. ~s2.drawn => InDay(s, l, op) /\ ~s.drawn
  BY DEF Moves
<1>5. CASE s2.fills = s.fills /\ s2.last = s.last /\ (s2.drawn \/ l.day = Day(b))
  <2>1. Within(s2, op2)
    BY <1>3, <1>5 DEF Within
  <2>2. InDay(s2, l2, op2)
    <3> SUFFICES ASSUME ~s2.drawn
                 PROVE  /\ l2.day = Day(s2.last)
                        /\ l2.day > 0 => op2[l2.day] = {l2.dayStart}
                        /\ \A d \in Days : d > l2.day => op2[d] = {}
      BY DEF InDay
    <3>1. /\ l.day = Day(b) /\ l2.dayStart = l.dayStart
          /\ l.day = Day(s.last) /\ op[l.day] = {l.dayStart}
          /\ \A d \in Days : d > l.day => op[d] = {}
      BY <1>0, <1>4, <1>5 DEF InDay, Moves
    <3>2. op2 = op
      BY <1>a, <1>0, <3>1
    <3> QED BY <1>0, <1>5, <3>1, <3>2
  <2> QED BY <2>1, <2>2
<1>6. CASE s2.last = b /\ ~s.drawn
  <2>1. /\ l.day = Day(s.last)
        /\ l.day > 0 => op[l.day] = {l.dayStart}
        /\ \A d \in Days : d > l.day => op[d] = {}
    BY <1>6 DEF InDay
  <2>2. /\ op2[Day(b)] = {l2.dayStart}
        /\ \A d \in Days : d > Day(b) => op2[d] = {}
    <3>1. CASE l.day = Day(b)
      <4>1. l2.dayStart = l.dayStart /\ op2 = op
        BY <1>a, <1>0, <2>1, <3>1 DEF Moves
      <4> QED BY <1>0, <2>1, <3>1, <4>1
    <3>2. CASE l.day # Day(b)
      <4>1. l2.dayStart = e /\ op[Day(b)] = {}
        BY <1>0, <2>1, <3>2 DEF Moves
      <4>2. op2 = [op EXCEPT ![Day(b)] = {e}]
        BY <1>a, <1>0, <4>1
      <4> QED BY <1>0, <2>1, <4>1, <4>2 DEF Days
    <3> QED BY <3>1, <3>2
  <2>3. InDay(s2, l2, op2)
    BY <1>0, <1>6, <2>2 DEF InDay
  <2>4. CASE s2.fills = s.fills
    <3>1. Within(s2, op2)
      BY <1>3, <2>4 DEF Within
    <3> QED BY <2>3, <3>1
  <2>5. ASSUME NEW f \in Execution, f.at = b, f.equity = e, s2.fills = Append(s.fills, f),
               l2.dayStart > 0 => ~Fell(l2.dayStart, e, MaxDailyLoss)
        PROVE  Within(s2, op2)
    <3> DEFINE n == Len(s.fills)
    <3>1. s.fills \in Seq(Execution)
      BY DEF Session
    <3>2. /\ n \in Nat /\ DOMAIN s.fills = 1..n /\ DOMAIN s2.fills = 1..(n + 1)
          /\ \A i \in 1..n : s2.fills[i] = s.fills[i]
          /\ s2.fills[n + 1] = f
      BY <2>5, <3>1, AppendIs
    <3> HIDE DEF n
    <3> SUFFICES ASSUME NEW i \in 1..(n + 1)
                 PROVE  /\ op2[Day(s2.fills[i].at)] # {}
                        /\ \A open \in op2[Day(s2.fills[i].at)] :
                              open > 0 => ~Fell(open, s2.fills[i].equity, MaxDailyLoss)
      BY <3>2 DEF Within
    <3>3. CASE i \in 1..n
      BY <1>3, <3>2, <3>3 DEF Within
    <3>4. CASE i = n + 1
      BY <2>2, <2>5, <3>2, <3>4
    <3> QED BY <3>2, <3>3, <3>4
  <2> QED BY <2>3, <2>4, <2>5 DEF Moves
<1> QED BY <1>5, <1>6 DEF Moves

------------------------------------------------------------------------------
(* Every step keeps the invariant.                                          *)

\* Halting a session, or clearing its halt, changes nothing else.
LEMMA SameCourse ==
  ASSUME NEW s, NEW s2, s2.fills = s.fills, s2.last = s.last, s2.mark = s.mark,
         s2.drawn = s.drawn, s2.invested = s.invested
  PROVE  /\ Placed(s) => Placed(s2)
         /\ InOrder(s) => InOrder(s2)
         /\ \A l : Awaits(s, l) => Awaits(s2, l)
         /\ \A l, k : Tally(s, l, k) => Tally(s2, l, k)
         /\ \A l, k : Counted(s, l, k) => Counted(s2, l, k)
         /\ \A l : Behind(s, l) => Behind(s2, l)
         /\ \A l, op : InDay(s, l, op) => InDay(s2, l, op)
         /\ \A op : Within(s, op) => Within(s2, op)
<1>1. \A t : Times(s2, t) = Times(s, t)
  BY DEF Times
<1>2. Placed(s) => Placed(s2)
  BY DEF Placed
<1>3. InOrder(s) => InOrder(s2)
  BY DEF InOrder
<1>4. \A l : Awaits(s, l) => Awaits(s2, l)
  BY DEF Awaits
<1>5. \A l, k : Tally(s, l, k) => Tally(s2, l, k)
  BY <1>1 DEF Tally
<1>6. \A l, op : InDay(s, l, op) => InDay(s2, l, op)
  BY DEF InDay
<1>7. \A op : Within(s, op) => Within(s2, op)
  BY DEF Within
<1>8. /\ \A l, k : Counted(s, l, k) => Counted(s2, l, k)
      /\ \A l : Behind(s, l) => Behind(s2, l)
  BY DEF Counted, Behind
<1> QED BY <1>2, <1>3, <1>4, <1>5, <1>6, <1>7, <1>8

LEMMA NoProcessIs ==
  /\ NewSession \in Session /\ NewLoop \in Loop
  /\ NoProcess \in CycleRecord /\ NoProcess.pc = "idle" /\ NoProcess.worth = {}
<1>1. NewSession \in Session
  BY Numbers DEF NewSession, Session
<1>2. NewLoop \in Loop
  <2>1. 0 \in 0..MaxBar /\ 0 \in 0..MaxOrders /\ InitialCash \in Int
    BY Numbers
  <2>2. 0 \in 0..Day(MaxBar)
    BY DayOrder
  <2> QED BY <2>1, <2>2 DEF NewLoop, Loop
<1> QED BY <1>1, <1>2 DEF NoProcess, CycleRecord

LEMMA InitLoop == ASSUME Init PROVE LoopInv
<1>0. /\ level \in [Bars -> Levels] /\ killed = FALSE /\ sessionFile = NewSession
      /\ loopFile = NewLoop /\ torn = {} /\ proc = NoProcess /\ history = {} /\ splits = 0
      /\ opened = [d \in Days |-> {}]
  BY DEF Init
<1>1. /\ NewSession.fills = <<>> /\ NewSession.last = 0 /\ ~NewSession.invested
      /\ NewLoop.day = 0 /\ NewLoop.pending = 0
  BY DEF NewSession, NewLoop
<1>2. DOMAIN <<>> = {}
  OBVIOUS
<1>3. Placed(sessionFile) /\ InOrder(sessionFile) /\ Awaits(sessionFile, loopFile)
      /\ Within(sessionFile, opened)
  BY <1>0, <1>1, <1>2 DEF Placed, InOrder, Awaits, Within
<1>4. Tally(sessionFile, loopFile, splits)
  <2>1. \A t \in Bars : t # 0
    BY DEF Bars
  <2>2. \A t : Times(sessionFile, t) = {}
    BY <1>0, <1>1, <1>2 DEF Times
  <2>3. Cardinality({}) = 0
    BY FS_EmptySet
  <2>4. \A t : Cardinality(Times(sessionFile, t)) = 0
    BY <2>2, <2>3
  <2>5. loopFile.pending = 0 /\ splits = 0
    BY <1>0, <1>1
  <2> QED BY <2>1, <2>4, <2>5 DEF Tally
<1>5. InDay(sessionFile, loopFile, opened)
  <2>1. \A d \in Days : opened[d] = {}
    BY <1>0
  <2> QED BY <1>0, <1>1, <2>1, DayOrder DEF InDay
<1>6. TypeOK
  <2>1. 0 \in 0..MaxSplits
    BY Numbers
  <2>2. opened \in [Days -> SUBSET Int]
    BY <1>0
  <2> QED BY <1>0, <2>1, <2>2, NoProcessIs DEF TypeOK, NoProcess
<1>7. CycleOK
  BY <1>0, NoProcessIs DEF CycleOK
<1>8. Counted(sessionFile, loopFile, splits) /\ Behind(sessionFile, loopFile)
  <2>1. \A d : OrdersOn(<<>>, d) = {}
    BY <1>2 DEF OrdersOn
  <2>2. Cardinality({}) = 0
    BY FS_EmptySet
  <2>3. \A d : Cardinality(OrdersOn(sessionFile.fills, d)) = 0
    BY <1>0, <1>1, <2>1, <2>2
  <2>4. loopFile.filled = 0 /\ loopFile.day = 0 /\ sessionFile.last = 0 /\ splits = 0
    BY <1>0, <1>1 DEF NewLoop
  <2>5. Allowed(splits) \in Nat /\ Allowed(splits + 1) \in Nat
    BY <2>4, AllowedIs
  <2>6. Counted(sessionFile, loopFile, splits)
    BY <2>3, <2>4, <2>5 DEF Counted
  <2> QED BY <2>4, <2>6, DayOrder DEF Behind
<1> QED BY <1>3, <1>4, <1>5, <1>6, <1>7, <1>8 DEF LoopInv, FilesOK

LEMMA StartLoop == ASSUME LoopInv, Start PROVE LoopInv'
<1>0. /\ proc = NoProcess /\ proc.pc = "idle" /\ proc.worth = {} /\ proc.done = {}
      /\ UNCHANGED <<level, killed, sessionFile, loopFile, torn, history, splits, opened>>
  BY DEF LoopInv, CycleOK, Start, NoProcess
<1>1. /\ sessionFile \in Session /\ loopFile \in Loop
      /\ Placed(sessionFile) /\ InOrder(sessionFile) /\ Awaits(sessionFile, loopFile)
      /\ Tally(sessionFile, loopFile, splits) /\ Counted(sessionFile, loopFile, splits)
      /\ Behind(sessionFile, loopFile)
      /\ splits = 0 => Within(sessionFile, opened) /\ InDay(sessionFile, loopFile, opened)
  BY <1>0 DEF LoopInv, TypeOK, FilesOK
<1>2. CASE proc' = [proc EXCEPT !.pc = "saveSession", !.session = Halted(sessionFile),
                                !.loop = loopFile]
  <2> DEFINE s == Halted(sessionFile)
  <2>1. /\ s \in Session /\ s.fills = sessionFile.fills /\ s.last = sessionFile.last
        /\ s.mark = sessionFile.mark /\ s.drawn = sessionFile.drawn
        /\ s.invested = sessionFile.invested
    BY <1>1 DEF Halted, Session
  <2>2. /\ Placed(s) /\ InOrder(s) /\ Awaits(s, loopFile) /\ Tally(s, loopFile, splits)
        /\ Counted(s, loopFile, splits) /\ Behind(s, loopFile)
        /\ splits = 0 => Within(s, opened) /\ InDay(s, loopFile, opened)
    BY <1>1, <2>1, SameCourse
  <2> HIDE DEF s
  <2>3. proc' = [pc |-> "saveSession", session |-> s, loop |-> loopFile, worth |-> {},
                 done |-> {}]
    BY <1>0, <1>2 DEF NoProcess, s
  <2>4. OpenedAfter' = opened
    BY <1>0, <2>3 DEF OpenedAfter
  <2>5. proc' \in CycleRecord
    BY <1>1, <2>1, <2>3 DEF CycleRecord
  <2>6. CycleOK'
    BY <1>0, <2>2, <2>3, <2>4, <2>5 DEF CycleOK
  <2>7. FilesOK'
    BY <1>0, <1>1, <2>3 DEF FilesOK
  <2>8. TypeOK'
    BY <1>0, <1>1, <2>1, <2>3 DEF LoopInv, TypeOK
  <2> QED BY <2>6, <2>7, <2>8 DEF LoopInv
<1>3. CASE proc' = [proc EXCEPT !.pc = "fetch", !.session = sessionFile, !.loop = loopFile]
  <2>3. proc' = [pc |-> "fetch", session |-> sessionFile, loop |-> loopFile, worth |-> {},
                 done |-> {}]
    BY <1>0, <1>3 DEF NoProcess
  <2>5. proc' \in CycleRecord
    BY <1>1, <2>3 DEF CycleRecord
  <2>6. CycleOK'
    BY <1>0, <2>3, <2>5 DEF CycleOK
  <2>7. FilesOK'
    BY <1>0, <1>1, <2>3 DEF FilesOK
  <2>8. TypeOK'
    BY <1>0, <1>1, <2>3 DEF LoopInv, TypeOK
  <2> QED BY <2>6, <2>7, <2>8 DEF LoopInv
<1> QED BY <1>2, <1>3 DEF Start

LEMMA IdleLoop ==
  ASSUME TypeOK, FilesOK, Tally(sessionFile, loopFile, splits)',
         Counted(sessionFile, loopFile, splits)',
         splits' = 0 => InDay(sessionFile, loopFile, opened)',
         proc' = NoProcess, UNCHANGED <<level, killed, sessionFile, loopFile, opened>>,
         torn' \subseteq {"session", "loop"}, history' \subseteq Execution,
         splits' \in {splits, splits + 1}, splits' <= MaxSplits
  PROVE  LoopInv'
<1>0. splits \in Nat /\ splits' \in 0..MaxSplits /\ (splits' = 0 => splits = 0)
  BY Numbers DEF TypeOK
<1>1. TypeOK'
  BY <1>0, NoProcessIs DEF TypeOK, CycleRecord, NoProcess
<1>2. FilesOK'
  BY <1>0, NoProcessIs DEF FilesOK
<1>3. CycleOK'
  BY NoProcessIs DEF CycleOK
<1> QED BY <1>1, <1>2, <1>3 DEF LoopInv

LEMMA NoNewBarLoop == ASSUME LoopInv, NoNewBar PROVE LoopInv'
<1>1. /\ TypeOK /\ FilesOK /\ proc.pc = "fetch" /\ proc' = NoProcess
      /\ UNCHANGED <<level, killed, sessionFile, loopFile, torn, history, splits, opened>>
  BY DEF LoopInv, NoNewBar
<1>2. splits' <= MaxSplits /\ torn' \subseteq {"session", "loop"} /\ history' \subseteq Execution
  BY <1>1, Numbers DEF TypeOK
<1>3. /\ Tally(sessionFile, loopFile, splits)' /\ Counted(sessionFile, loopFile, splits)'
      /\ splits' = 0 => InDay(sessionFile, loopFile, opened)'
  BY <1>1 DEF FilesOK
<1> QED BY <1>1, <1>2, <1>3, IdleLoop

LEMMA AppendHistoryLoop == ASSUME LoopInv, AppendHistory PROVE LoopInv'
<1>1. /\ TypeOK /\ FilesOK /\ proc.pc = "history" /\ proc' = NoProcess
      /\ history' = history \cup proc.done
      /\ UNCHANGED <<level, killed, sessionFile, loopFile, torn, splits, opened>>
  BY DEF LoopInv, AppendHistory
<1>2. splits' <= MaxSplits /\ torn' \subseteq {"session", "loop"} /\ history' \subseteq Execution
  BY <1>1, Numbers DEF TypeOK
<1>3. /\ Tally(sessionFile, loopFile, splits)' /\ Counted(sessionFile, loopFile, splits)'
      /\ splits' = 0 => InDay(sessionFile, loopFile, opened)'
  BY <1>1 DEF FilesOK
<1> QED BY <1>1, <1>2, <1>3, IdleLoop

\* A crash between the writes leaves a session whose executed target is still pending: it
\* is what one more execution of that target is allowed for.
LEMMA CrashLoop == ASSUME LoopInv, Crash PROVE LoopInv'
<1>1. /\ TypeOK /\ FilesOK /\ CycleOK /\ proc' = NoProcess
      /\ UNCHANGED <<level, killed, sessionFile, loopFile, history, opened>>
      /\ torn' \subseteq {"session", "loop"}
      /\ IF proc.pc = "saveLoop" THEN splits < MaxSplits /\ splits' = splits + 1
         ELSE splits' = splits
  BY DEF LoopInv, Crash, TypeOK
<1>2. history' \subseteq Execution /\ splits \in 0..MaxSplits
  BY <1>1 DEF TypeOK
<1>3. CASE proc.pc # "saveLoop"
  <2>1. splits' = splits /\ splits' <= MaxSplits
    BY <1>1, <1>2, <1>3, Numbers
  <2>2. /\ Tally(sessionFile, loopFile, splits)' /\ Counted(sessionFile, loopFile, splits)'
        /\ splits' = 0 => InDay(sessionFile, loopFile, opened)'
    BY <1>1, <1>3, <2>1 DEF FilesOK
  <2> QED BY <1>1, <1>2, <2>1, <2>2, IdleLoop
<1>4. CASE proc.pc = "saveLoop"
  <2>1. splits' = splits + 1 /\ splits' <= MaxSplits /\ splits' # 0 /\ splits \in Nat
    BY <1>1, <1>2, <1>4, Numbers
  <2>2. /\ Tally(sessionFile, proc.loop, splits) /\ sessionFile \in Session
        /\ Counted(sessionFile, proc.loop, splits) /\ loopFile \in Loop
    BY <1>1, <1>4 DEF CycleOK, TypeOK
  <2>3. \A t \in Bars : Cardinality(Times(sessionFile, t)) \in Nat
    BY <2>2, TimesFinite
  <2>4. Tally(sessionFile, loopFile, splits + 1)
    BY <2>1, <2>2, <2>3 DEF Tally
  <2>5. Counted(sessionFile, loopFile, splits + 1)
    <3>1. \A d \in Days : Cardinality(OrdersOn(sessionFile.fills, d)) \in Nat
      BY <2>2, OrdersFinite DEF Session
    <3>2. /\ Allowed(splits + 1) \in Nat /\ loopFile.filled \in Nat /\ MaxOrders \in Nat
          /\ Allowed((splits + 1) + 1) = Allowed(splits + 1) + MaxOrders
      BY <2>1, <2>2, AllowedIs DEF Loop
    <3> QED BY <2>2, <3>1, <3>2 DEF Counted
  <2> QED BY <1>1, <1>2, <2>1, <2>4, <2>5, IdleLoop
<1> QED BY <1>3, <1>4

\* What the process is going to write becomes the file, and its day is opened.
LEMMA SaveSessionLoop == ASSUME LoopInv, SaveSession PROVE LoopInv'
<1>1. /\ TypeOK /\ FilesOK /\ CycleOK /\ proc.pc = "saveSession"
      /\ sessionFile' = proc.session /\ opened' = OpenedAfter
      /\ proc' = [proc EXCEPT !.pc = "saveLoop"]
      /\ UNCHANGED <<level, killed, loopFile, torn, history, splits>>
  BY DEF LoopInv, SaveSession, OpenedAfter
<1>2. /\ proc.session \in Session /\ proc.loop \in Loop /\ proc.worth \subseteq Int
      /\ proc.done \subseteq Execution
  BY <1>1 DEF CycleOK, CycleRecord
<1>3. /\ proc' \in CycleRecord /\ proc'.pc = "saveLoop" /\ proc'.session = proc.session
      /\ proc'.loop = proc.loop /\ proc'.worth = proc.worth /\ proc'.done = proc.done
  BY <1>1 DEF CycleOK, CycleRecord
<1>4. /\ Placed(proc.session) /\ InOrder(proc.session)
      /\ Awaits(proc.session, loopFile) /\ Awaits(proc.session, proc.loop)
      /\ Tally(proc.session, proc.loop, splits) /\ Counted(proc.session, proc.loop, splits)
      /\ Behind(proc.session, loopFile) /\ Behind(proc.session, proc.loop)
      /\ splits = 0 => /\ InDay(proc.session, proc.loop, OpenedAfter)
                       /\ Within(proc.session, OpenedAfter)
  BY <1>1 DEF CycleOK
<1>5. OpenedAfter \in [Days -> SUBSET Int]
  <2>1. opened \in [Days -> SUBSET Int]
    BY <1>1 DEF TypeOK
  <2> QED BY <1>2, <2>1 DEF OpenedAfter
<1> HIDE DEF OpenedAfter
<1>6. TypeOK'
  BY <1>1, <1>2, <1>3, <1>5 DEF TypeOK
<1>7. FilesOK'
  BY <1>1, <1>3, <1>4 DEF FilesOK
<1>8. CycleOK'
  BY <1>1, <1>3, <1>4 DEF CycleOK
<1> QED BY <1>6, <1>7, <1>8 DEF LoopInv

LEMMA SaveLoopLoop == ASSUME LoopInv, SaveLoop PROVE LoopInv'
<1>1. /\ TypeOK /\ FilesOK /\ CycleOK /\ proc.pc = "saveLoop" /\ loopFile' = proc.loop
      /\ proc' = [proc EXCEPT !.pc = "history"]
      /\ UNCHANGED <<level, killed, sessionFile, torn, history, splits, opened>>
  BY DEF LoopInv, SaveLoop
<1>2. /\ proc' \in CycleRecord /\ proc'.pc = "history" /\ proc'.session = proc.session
      /\ proc'.loop = proc.loop /\ proc'.worth = proc.worth /\ proc'.done = proc.done
      /\ proc.loop \in Loop
  BY <1>1 DEF CycleOK, CycleRecord
<1>3. /\ sessionFile = proc.session /\ Awaits(proc.session, proc.loop)
      /\ Tally(proc.session, proc.loop, splits) /\ Counted(proc.session, proc.loop, splits)
      /\ Behind(proc.session, proc.loop)
      /\ splits = 0 => InDay(proc.session, proc.loop, opened)
  BY <1>1 DEF CycleOK
<1>4. TypeOK'
  BY <1>1, <1>2 DEF TypeOK
<1>5. FilesOK'
  BY <1>1, <1>2, <1>3 DEF FilesOK
<1>6. CycleOK'
  BY <1>1, <1>2 DEF CycleOK
<1> QED BY <1>4, <1>5, <1>6 DEF LoopInv

LEMMA ProcessLoop == ASSUME LoopInv, NEW b \in Bars, Process(b) PROVE LoopInv'
<1>1. TypeOK /\ FilesOK /\ CycleOK /\ proc \in CycleRecord
  BY DEF LoopInv, CycleOK
<1>2. proc.pc = "fetch"
  BY DEF Process
<1>3. proc.session = sessionFile /\ proc.loop = loopFile
  BY <1>1, <1>2 DEF CycleOK
<1>4. /\ sessionFile \in Session /\ loopFile \in Loop /\ splits \in Nat
      /\ opened \in [Days -> SUBSET Int]
      /\ Placed(sessionFile) /\ InOrder(sessionFile) /\ Awaits(sessionFile, loopFile)
      /\ Tally(sessionFile, loopFile, splits) /\ Counted(sessionFile, loopFile, splits)
      /\ Behind(sessionFile, loopFile)
      /\ splits = 0 => Within(sessionFile, opened) /\ InDay(sessionFile, loopFile, opened)
  BY <1>1, <1>2, Numbers DEF TypeOK, FilesOK
<1>5. /\ sessionFile.last < b
      /\ UNCHANGED <<level, killed, sessionFile, loopFile, torn, history, splits, opened>>
      /\ \E s2 \in Session, l2 \in Loop, e \in Int, done \in SUBSET Execution :
              /\ proc' = [pc |-> "saveSession", session |-> s2, loop |-> l2, worth |-> {e},
                          done |-> done]
              /\ Moves(sessionFile, loopFile, b, e, s2, l2)
  BY <1>1, <1>3, <1>4, ProcessMoves
<1>6. PICK s2 \in Session, l2 \in Loop, e \in Int, done \in SUBSET Execution :
              /\ proc' = [pc |-> "saveSession", session |-> s2, loop |-> l2, worth |-> {e},
                          done |-> done]
              /\ Moves(sessionFile, loopFile, b, e, s2, l2)
  BY <1>5
<1> DEFINE op2 == Opened(opened, l2.day, e)
<1>7. Placed(s2) /\ l2.day = Day(b) /\ Day(b) \in Days
  BY <1>6, DayOrder DEF Moves
<1>9. OpenedAfter' = op2
  BY <1>5, <1>6 DEF OpenedAfter, Opened
<1> HIDE DEF op2
<1>10. InOrder(s2) /\ Awaits(s2, loopFile) /\ Awaits(s2, l2)
  BY <1>4, <1>5, <1>6, MovesOrder
<1>11. /\ Tally(s2, l2, splits) /\ Counted(s2, l2, splits)
       /\ Behind(s2, loopFile) /\ Behind(s2, l2)
  BY <1>4, <1>5, <1>6, MovesTally, MovesCount
<1>12. splits = 0 => InDay(s2, l2, op2) /\ Within(s2, op2)
  <2> SUFFICES ASSUME splits = 0 PROVE InDay(s2, l2, op2) /\ Within(s2, op2)
    OBVIOUS
  <2>1. InDay(sessionFile, loopFile, opened) /\ Within(sessionFile, opened)
    BY <1>4
  <2>2. Moves(sessionFile, loopFile, b, e, s2, l2) /\ sessionFile.last < b
    BY <1>5, <1>6
  <2> QED BY <1>4, <2>1, <2>2, MovesDay DEF op2
<1>13. proc' \in CycleRecord
  BY <1>6 DEF CycleRecord
<1>14. l2.day # 0
  BY <1>7 DEF Days
<1>15. CycleOK'
  BY <1>5, <1>6, <1>7, <1>9, <1>10, <1>11, <1>12, <1>13, <1>14 DEF CycleOK
<1>16. FilesOK'
  BY <1>4, <1>5, <1>6 DEF FilesOK
<1>17. TypeOK'
  BY <1>1, <1>5, <1>6 DEF TypeOK
<1> QED BY <1>15, <1>16, <1>17 DEF LoopInv

LEMMA SwitchKillLoop == ASSUME LoopInv, SwitchKill PROVE LoopInv'
<1>1. TypeOK'
  <2>1. TypeOK /\ killed' = ~killed
           /\ UNCHANGED <<level, sessionFile, loopFile, torn, proc, history, splits, opened>>
    BY DEF LoopInv, SwitchKill
  <2>2. killed' \in BOOLEAN
    BY <2>1, Zenon DEF TypeOK
  <2> QED BY <2>1, <2>2 DEF TypeOK
<1>2. UNCHANGED <<sessionFile, loopFile, proc, splits, opened>> /\ FilesOK /\ CycleOK
  BY DEF LoopInv, SwitchKill
<1>3. FilesOK'
  BY <1>2 DEF FilesOK
<1>4. CycleOK'
  BY <1>2 DEF CycleOK, OpenedAfter
<1> QED BY <1>1, <1>3, <1>4 DEF LoopInv

LEMMA ClearLoop == ASSUME LoopInv, Clear PROVE LoopInv'
<1>1. /\ TypeOK /\ FilesOK /\ CycleOK /\ proc = NoProcess /\ proc.pc = "idle"
      /\ sessionFile' = [sessionFile EXCEPT !.halted = FALSE]
      /\ UNCHANGED <<level, killed, loopFile, torn, proc, history, splits, opened>>
  BY DEF LoopInv, CycleOK, Clear
<1>2. /\ sessionFile' \in Session /\ sessionFile'.fills = sessionFile.fills
      /\ sessionFile'.last = sessionFile.last /\ sessionFile'.mark = sessionFile.mark
      /\ sessionFile'.drawn = sessionFile.drawn /\ sessionFile'.invested = sessionFile.invested
  BY <1>1 DEF TypeOK, Session
<1>3. TypeOK'
  BY <1>1, <1>2 DEF TypeOK
<1>4. /\ Placed(sessionFile) /\ InOrder(sessionFile) /\ Awaits(sessionFile, loopFile)
      /\ Tally(sessionFile, loopFile, splits) /\ Counted(sessionFile, loopFile, splits)
      /\ Behind(sessionFile, loopFile)
      /\ splits = 0 => Within(sessionFile, opened) /\ InDay(sessionFile, loopFile, opened)
  BY <1>1 DEF FilesOK
<1> DEFINE s == sessionFile'
<1>5. /\ Placed(s) /\ InOrder(s) /\ Awaits(s, loopFile) /\ Tally(s, loopFile, splits)
      /\ Counted(s, loopFile, splits) /\ Behind(s, loopFile)
      /\ splits = 0 => Within(s, opened) /\ InDay(s, loopFile, opened)
  BY <1>2, <1>4, SameCourse
<1>6. FilesOK'
  BY <1>1, <1>5 DEF FilesOK
<1>7. CycleOK'
  BY <1>1, NoProcessIs DEF CycleOK
<1> QED BY <1>3, <1>6, <1>7 DEF LoopInv

LEMMA NextLoop == LoopInv /\ [Next]_vars => LoopInv'
<1> SUFFICES ASSUME LoopInv, [Next]_vars PROVE LoopInv'
  OBVIOUS
<1>1. CASE UNCHANGED vars
  <2>1. TypeOK'
    BY <1>1 DEF LoopInv, TypeOK, vars
  <2>2. UNCHANGED <<sessionFile, loopFile, proc, splits, opened>> /\ FilesOK /\ CycleOK
    BY <1>1 DEF LoopInv, vars
  <2>3. FilesOK'
    BY <2>2 DEF FilesOK
  <2>4. CycleOK'
    BY <2>2 DEF CycleOK, OpenedAfter
  <2> QED BY <2>1, <2>3, <2>4 DEF LoopInv
<1>2. CASE Next
  BY <1>2, StartLoop, NoNewBarLoop, ProcessLoop, SaveSessionLoop, SaveLoopLoop,
     AppendHistoryLoop, CrashLoop, SwitchKillLoop, ClearLoop DEF Next
<1> QED BY <1>1, <1>2

THEOREM LoopAlways == Spec => []LoopInv
<1>1. Init => LoopInv
  BY InitLoop
<1>2. LoopInv /\ [Next]_vars => LoopInv'
  BY NextLoop
<1> QED BY <1>1, <1>2, PTL DEF Spec

------------------------------------------------------------------------------
(* What it implies.                                                        *)

\* Over any cycles, kills, half-written files and cleared halts: every fill comes after the
\* bar its target was decided on, no bar is filled twice and no older target follows a
\* newer one.
THEOREM FillsInOrderHolds == Spec => []FillsInOrder
<1>1. LoopInv => FillsInOrder
  BY DEF LoopInv, FilesOK, InOrder, FillsInOrder, Fills
<1> QED BY <1>1, LoopAlways, PTL

\* A target is executed once, and once more at most for every crash that fell between the
\* writes of the two files.
THEOREM OncePerCrashHolds == Spec => []OncePerCrash
<1>1. ASSUME LoopInv PROVE OncePerCrash
  <2>1. TypeOK /\ FilesOK /\ CycleOK
    BY <1>1 DEF LoopInv
  <2>2. \E l : Tally(sessionFile, l, splits)
    BY <2>1 DEF FilesOK, CycleOK
  <2>3. \A t : ExecutionsOf(t) = Times(sessionFile, t)
    BY DEF ExecutionsOf, Times, Fills
  <2> QED BY <2>1, <2>2, <2>3 DEF OncePerCrash, Tally
<1> QED BY <1>1, LoopAlways, PTL

\* Over all cycles, kills and cleared halts of a day, no more orders are filled than
\* max_orders_per_day, and once as many more for every crash between the writes.
THEOREM DayCapHolds == Spec => []DayCap
<1>1. ASSUME LoopInv PROVE DayCap
  <2>1. TypeOK /\ FilesOK /\ CycleOK
    BY <1>1 DEF LoopInv
  <2>2. \E l : Counted(sessionFile, l, splits)
    BY <2>1 DEF FilesOK, CycleOK
  <2>3. splits + 1 = 1 + splits
    BY <2>1 DEF TypeOK
  <2> QED BY <2>2, <2>3 DEF DayCap, Counted, Allowed, Fills
<1> QED BY <1>1, LoopAlways, PTL

\* The daily-loss breaker, across restarts and cleared halts of a day, as long as no crash
\* fell between the writes: no order is filled once the equity has fallen through the limit.
THEOREM BreakerHoldsAlways == Spec => []BreakerHolds
<1>1. LoopInv => BreakerHolds
  BY DEF LoopInv, FilesOK, Within, BreakerHolds, Fills
<1> QED BY <1>1, LoopAlways, PTL

------------------------------------------------------------------------------
(* Induction: the library's induction theorems take the statement as an     *)
(* operator, so it is had here from the well-founded order of finite sets.  *)

LEMMA Least ==
  ASSUME NEW T \in SUBSET Nat, T # {}
  PROVE  \E n \in T : \A m \in T : n <= m
<1> DEFINE Below(n) == 0..(n - 1)
           B == {Below(n) : n \in T}
<1>1. \A n \in Nat : IsFiniteSet(Below(n)) /\ Below(n) \in SUBSET Nat
  BY FS_Interval
<1>2. B \subseteq FiniteSubsetsOf(Nat) /\ B # {}
  BY <1>1 DEF FiniteSubsetsOf
<1>3. PICK x \in B : \A y \in B : ~(<<y, x>> \in StrictSubsetOrdering(Nat))
  <2> HIDE DEF B
  <2> QED BY <1>2, FS_StrictSubsetOrderingWellFounded, WFMin
<1>4. PICK n \in T : x = Below(n)
  BY <1>3
<1>5. ASSUME NEW m \in T, m < n PROVE FALSE
  <2>1. Below(m) \in B
    OBVIOUS
  <2>2. m \in Below(n) /\ m \notin Below(m) /\ Below(m) \subseteq Below(n)
    BY <1>5
  <2>3. <<Below(m), Below(n)>> \in StrictSubsetOrdering(Nat)
    BY <2>2 DEF StrictSubsetOrdering
  <2> QED BY <1>3, <1>4, <2>1, <2>3
<1> QED BY <1>5

LEMMA Induction ==
  ASSUME NEW T, 0 \in T, \A n \in Nat : n \in T => n + 1 \in T
  PROVE  Nat \subseteq T
<1>1. SUFFICES ASSUME Nat \ T # {} PROVE FALSE
  OBVIOUS
<1>2. PICK n \in Nat \ T : \A m \in Nat \ T : n <= m
  BY <1>1, Least
<1>3. n # 0 /\ n - 1 \in Nat /\ n - 1 \in T
  BY <1>2
<1> QED BY <1>2, <1>3

------------------------------------------------------------------------------
(* The model's recursive functions: each satisfies its equation.            *)

\* A position is a number.
LEMMA PositionType ==
  ASSUME NEW leg, NEW fills \in Seq(Fill)
  PROVE  Position(leg, fills) \in Int
<1> DEFINE N == Len(fills)
<1> DEFINE Step(n, v) == IF fills[n].leg = leg THEN v + Signed(fills[n]) ELSE v
           Good(k, g) == g = [n \in 0..k |-> IF n = 0 THEN 0 ELSE Step(n, g[n - 1])]
           T == {k \in Nat : \E g : Good(k, g)}
           sum == CHOOSE g : Good(N, g)
<1>1. Position(leg, fills) = sum[N]
  BY DEF Position
<1> HIDE DEF Step
<1>2. Good(N, sum)
  <2>1. 0 \in T
    <3>1. Good(0, [n \in 0..0 |-> 0])
      OBVIOUS
    <3> QED BY <3>1
  <2>2. ASSUME NEW k \in Nat, k \in T PROVE k + 1 \in T
    <3>1. PICK g : Good(k, g)
      BY <2>2
    <3> DEFINE h == [n \in 0..(k + 1) |-> IF n <= k THEN g[n] ELSE Step(n, g[n - 1])]
    <3>2. ASSUME NEW n \in 0..(k + 1)
          PROVE  h[n] = IF n = 0 THEN 0 ELSE Step(n, h[n - 1])
      <4>1. CASE n = 0
        BY <3>1, <4>1
      <4>2. CASE n # 0 /\ n <= k
        BY <3>1, <4>2
      <4>3. CASE n = k + 1
        BY <4>3
      <4> QED BY <4>1, <4>2, <4>3
    <3>3. Good(k + 1, h)
      BY <3>2
    <3> HIDE DEF h
    <3> QED BY <3>3
  <2>3. N \in T
    <3> HIDE DEF T
    <3> QED BY <2>1, <2>2, Induction
  <2> QED BY <2>3
<1> HIDE DEF sum
<1>3. ASSUME NEW n \in Nat, n + 1 <= N, NEW v \in Int PROVE Step(n + 1, v) \in Int
  <2>1. fills[n + 1] \in Fill
    BY <1>3
  <2>2. Signed(fills[n + 1]) \in Int
    BY <2>1 DEF Fill, Signed
  <2> QED BY <2>2 DEF Step
<1> DEFINE S == {n \in Nat : n <= N => sum[n] \in Int}
<1>4. Nat \subseteq S
  <2>1. 0 \in S
    BY <1>2
  <2>2. ASSUME NEW n \in Nat, n \in S PROVE n + 1 \in S
    BY <1>2, <1>3, <2>2
  <2> HIDE DEF S
  <2> QED BY <2>1, <2>2, Induction
<1> QED BY <1>1, <1>4

\* What is left of open orders is open orders; of none, none.
LEMMA RemainingType ==
  ASSUME NEW orders \in Seq(Order), NEW t
  PROVE  /\ Remaining(orders, t) \in Seq(Order)
         /\ orders = <<>> => Remaining(orders, t) = <<>>
<1> DEFINE N == Len(orders)
<1> DEFINE Step(n, v) == IF After(orders[n], t).left > 0 THEN Append(v, After(orders[n], t)) ELSE v
           Good(k, g) == g = [n \in 0..k |-> IF n = 0 THEN <<>> ELSE Step(n, g[n - 1])]
           T == {k \in Nat : \E g : Good(k, g)}
           open == CHOOSE g : Good(N, g)
<1>1. Remaining(orders, t) = open[N]
  BY DEF Remaining
<1> HIDE DEF Step
<1>2. Good(N, open)
  <2>1. 0 \in T
    <3>1. Good(0, [n \in 0..0 |-> <<>>])
      OBVIOUS
    <3> QED BY <3>1
  <2>2. ASSUME NEW k \in Nat, k \in T PROVE k + 1 \in T
    <3>1. PICK g : Good(k, g)
      BY <2>2
    <3> DEFINE h == [n \in 0..(k + 1) |-> IF n <= k THEN g[n] ELSE Step(n, g[n - 1])]
    <3>2. ASSUME NEW n \in 0..(k + 1)
          PROVE  h[n] = IF n = 0 THEN <<>> ELSE Step(n, h[n - 1])
      <4>1. CASE n = 0
        BY <3>1, <4>1
      <4>2. CASE n # 0 /\ n <= k
        BY <3>1, <4>2
      <4>3. CASE n = k + 1
        BY <4>3
      <4> QED BY <4>1, <4>2, <4>3
    <3>3. Good(k + 1, h)
      BY <3>2
    <3> HIDE DEF h
    <3> QED BY <3>3
  <2>3. N \in T
    <3> HIDE DEF T
    <3> QED BY <2>1, <2>2, Induction
  <2> QED BY <2>3
<1> HIDE DEF open
<1>3. ASSUME NEW n \in Nat, n + 1 <= N, NEW v \in Seq(Order) PROVE Step(n + 1, v) \in Seq(Order)
  <2>1. orders[n + 1] \in Order
    BY <1>3
  <2>2. orders[n + 1] = [leg |-> orders[n + 1].leg, buy |-> orders[n + 1].buy,
                         left |-> orders[n + 1].left]
        /\ orders[n + 1].leg \in Legs /\ orders[n + 1].buy \in BOOLEAN
        /\ orders[n + 1].left \in Nat \ {0}
    BY <2>1 DEF Order
  <2>3. Quantity(orders[n + 1], t) \in Nat
    BY <2>2 DEF Quantity, Min2
  <2>4. After(orders[n + 1], t) = [leg |-> orders[n + 1].leg, buy |-> orders[n + 1].buy,
                                   left |-> orders[n + 1].left - Quantity(orders[n + 1], t)]
    BY <2>2 DEF After
  <2>5. After(orders[n + 1], t).left > 0 => After(orders[n + 1], t) \in Order
    BY <2>2, <2>3, <2>4 DEF Order
  <2> QED BY <2>5 DEF Step
<1> DEFINE S == {n \in Nat : n <= N => open[n] \in Seq(Order)}
<1>4. Nat \subseteq S
  <2>1. 0 \in S
    BY <1>2
  <2>2. ASSUME NEW n \in Nat, n \in S PROVE n + 1 \in S
    <3>1. ASSUME n + 1 <= N PROVE open[n + 1] \in Seq(Order)
      <4>1. open[n] \in Seq(Order)
        BY <2>2, <3>1
      <4>2. open[n + 1] = Step(n + 1, open[n])
        BY <1>2, <3>1
      <4> QED BY <1>3, <3>1, <4>1, <4>2
    <3> QED BY <3>1
  <2> HIDE DEF S
  <2> QED BY <2>1, <2>2, Induction
<1>5. orders = <<>> => open[N] = <<>>
  BY <1>2
<1> QED BY <1>1, <1>4, <1>5

\* What a record adds to the fills read so far.
Reads(v, r) == IF r.kind = "fill" THEN Append(v, r.fill) ELSE v

\* The fills read in a journal: after each of its records, what those before it and it hold.
LEMMA FillsRead ==
  ASSUME NEW records \in Seq(Record)
  PROVE  \E read :
           /\ read[0] = <<>> /\ FillsIn(records) = read[Len(records)]
           /\ \A n \in 1..Len(records) : read[n] = Reads(read[n - 1], records[n])
           /\ \A n \in 0..Len(records) : read[n] \in Seq(Fill \cup {None})
<1> DEFINE N == Len(records)
<1> DEFINE Step(n, v) == IF records[n].kind = "fill" THEN Append(v, records[n].fill) ELSE v
           Good(k, g) == g = [n \in 0..k |-> IF n = 0 THEN <<>> ELSE Step(n, g[n - 1])]
           T == {k \in Nat : \E g : Good(k, g)}
           read == CHOOSE g : Good(N, g)
<1>1. FillsIn(records) = read[N]
  BY DEF FillsIn
<1> HIDE DEF Step
<1>2. Good(N, read)
  <2>1. 0 \in T
    <3>1. Good(0, [n \in 0..0 |-> <<>>])
      OBVIOUS
    <3> QED BY <3>1
  <2>2. ASSUME NEW k \in Nat, k \in T PROVE k + 1 \in T
    <3>1. PICK g : Good(k, g)
      BY <2>2
    <3> DEFINE h == [n \in 0..(k + 1) |-> IF n <= k THEN g[n] ELSE Step(n, g[n - 1])]
    <3>2. ASSUME NEW n \in 0..(k + 1)
          PROVE  h[n] = IF n = 0 THEN <<>> ELSE Step(n, h[n - 1])
      <4>1. CASE n = 0
        BY <3>1, <4>1
      <4>2. CASE n # 0 /\ n <= k
        BY <3>1, <4>2
      <4>3. CASE n = k + 1
        BY <4>3
      <4> QED BY <4>1, <4>2, <4>3
    <3>3. Good(k + 1, h)
      BY <3>2
    <3> HIDE DEF h
    <3> QED BY <3>3
  <2>3. N \in T
    <3> HIDE DEF T
    <3> QED BY <2>1, <2>2, Induction
  <2> QED BY <2>3
<1> HIDE DEF read
<1>3. ASSUME NEW n \in Nat, n + 1 <= N, NEW v \in Seq(Fill \cup {None})
      PROVE  Step(n + 1, v) \in Seq(Fill \cup {None})
  <2>1. records[n + 1] \in Record
    BY <1>3
  <2>2. records[n + 1].fill \in Fill \cup {None}
    BY <2>1 DEF Record
  <2> QED BY <2>2 DEF Step
<1> DEFINE S == {n \in Nat : n <= N => read[n] \in Seq(Fill \cup {None})}
<1>4. Nat \subseteq S
  <2>1. 0 \in S
    BY <1>2
  <2>2. ASSUME NEW n \in Nat, n \in S PROVE n + 1 \in S
    <3>1. ASSUME n + 1 <= N PROVE read[n + 1] \in Seq(Fill \cup {None})
      <4>1. read[n] \in Seq(Fill \cup {None})
        BY <2>2, <3>1
      <4>2. read[n + 1] = Step(n + 1, read[n])
        BY <1>2, <3>1
      <4> QED BY <1>3, <3>1, <4>1, <4>2
    <3> QED BY <3>1
  <2> HIDE DEF S
  <2> QED BY <2>1, <2>2, Induction
<1>5. read[0] = <<>> /\ \A n \in 1..N : read[n] = Step(n, read[n - 1])
  BY <1>2
<1>6. \A n \in 1..N : read[n] = Reads(read[n - 1], records[n])
  BY <1>5 DEF Step, Reads
<1> QED BY <1>1, <1>4, <1>5, <1>6

\* One record more adds its fill, if it holds one.
LEMMA FillsAppended ==
  ASSUME NEW records \in Seq(Record), NEW r \in Record
  PROVE  /\ FillsIn(records) \in Seq(Fill \cup {None})
         /\ FillsIn(Append(records, r)) = Reads(FillsIn(records), r)
<1> DEFINE N == Len(records)
           more == Append(records, r)
<1>1. more \in Seq(Record) /\ Len(more) = N + 1 /\ more[N + 1] = r
      /\ \A n \in 1..N : more[n] = records[n]
  OBVIOUS
<1>2. PICK f : /\ f[0] = <<>> /\ FillsIn(records) = f[Len(records)]
               /\ \A n \in 1..Len(records) : f[n] = Reads(f[n - 1], records[n])
               /\ \A n \in 0..Len(records) : f[n] \in Seq(Fill \cup {None})
  BY FillsRead
<1> HIDE DEF more
<1>3. PICK g : /\ g[0] = <<>> /\ FillsIn(more) = g[Len(more)]
               /\ \A n \in 1..Len(more) : g[n] = Reads(g[n - 1], more[n])
  BY <1>1, FillsRead
<1> DEFINE S == {n \in Nat : n <= N => g[n] = f[n]}
<1>4. Nat \subseteq S
  <2>1. 0 \in S
    BY <1>2, <1>3
  <2>2. ASSUME NEW n \in Nat, n \in S PROVE n + 1 \in S
    <3>1. ASSUME n + 1 <= N PROVE g[n + 1] = f[n + 1]
      <4>1. f[n + 1] = Reads(f[n], records[n + 1])
        BY <1>2, <3>1
      <4>2. g[n + 1] = Reads(g[n], more[n + 1]) /\ more[n + 1] = records[n + 1]
        BY <1>1, <1>3, <3>1
      <4> QED BY <2>2, <3>1, <4>1, <4>2
    <3> QED BY <3>1
  <2> HIDE DEF S
  <2> QED BY <2>1, <2>2, Induction
<1>5. g[N + 1] = Reads(g[N], r) /\ g[N] = f[N]
  BY <1>1, <1>3, <1>4
<1> QED BY <1>1, <1>2, <1>3, <1>5 DEF more

\* A journal without records has none.
LEMMA FillsOfNone == FillsIn(<<>>) = <<>>
<1>1. <<>> \in Seq(Record) /\ Len(<<>>) = 0
  OBVIOUS
<1> QED BY <1>1, FillsRead

------------------------------------------------------------------------------
(* A tick.                                                                  *)

\* Every open order fills, whole or in part.
LEMMA MatchType ==
  ASSUME NEW orders \in Seq(Order), NEW t \in Ticks
  PROVE  /\ Match(orders, t) \in Seq(Fill)
         /\ Len(Match(orders, t)) = Len(orders)
<1>1. ASSUME NEW i \in DOMAIN orders
      PROVE  [tick |-> t, leg |-> orders[i].leg, buy |-> orders[i].buy,
              qty |-> Quantity(orders[i], t)] \in Fill
  <2>1. orders[i] \in Order
    OBVIOUS
  <2>2. orders[i].leg \in Legs /\ orders[i].buy \in BOOLEAN /\ orders[i].left \in Nat \ {0}
    BY <2>1 DEF Order
  <2>3. Quantity(orders[i], t) \in Nat \ {0}
    BY <2>2 DEF Quantity, Min2
  <2> QED BY <2>2, <2>3 DEF Fill
<1>2. DOMAIN orders = 1..Len(orders)
  OBVIOUS
<1> QED BY <1>1, <1>2 DEF Match

\* Two sequences of the same things make a third.
LEMMA ConcatType ==
  ASSUME NEW S, NEW s \in Seq(S), NEW t \in Seq(S)
  PROVE  s \o t \in Seq(S)
OBVIOUS

\* One leg of a pair is an order, or none for no quantity.
LEMMA LeggedType ==
  ASSUME NEW leg \in Legs, NEW buy \in BOOLEAN, NEW qty \in Nat
  PROVE  Legged(leg, buy, qty) \in Seq(Order)
<1>1. CASE qty = 0
  BY <1>1 DEF Legged
<1>2. CASE qty # 0
  <2>1. [leg |-> leg, buy |-> buy, left |-> qty] \in Order
    BY <1>2 DEF Order
  <2> QED BY <1>2, <2>1 DEF Legged
<1> QED BY <1>1, <1>2

\* What the session does is orders, and nothing unless it runs.
LEMMA ActType ==
  ASSUME NEW status, NEW fills \in Seq(Fill), NEW t
  PROVE  /\ Act(status, fills, t) \in Seq(Order)
         /\ status # "running" => Act(status, fills, t) = <<>>
<1>1. Target \in Nat
  BY SessionConstants
<1>2. OpenLegs \in Seq(Order)
  <2>1. Legged("spot", TRUE, Target) \in Seq(Order) /\ Legged("perp", FALSE, Target) \in Seq(Order)
    BY <1>1, LeggedType DEF Legs
  <2> QED BY <2>1, ConcatType, Zenon DEF OpenLegs
<1>3. CloseLegs(fills) \in Seq(Order)
  <2>1. \A leg : Position(leg, fills) \in Int
    BY PositionType
  <2>2. \A leg : Abs(Position(leg, fills)) \in Nat
    BY <2>1 DEF Abs
  <2>3. Legged("spot", FALSE, Abs(Position("spot", fills))) \in Seq(Order)
        /\ Legged("perp", TRUE, Abs(Position("perp", fills))) \in Seq(Order)
    BY <2>2, LeggedType DEF Legs
  <2> QED BY <2>3, ConcatType, Zenon DEF CloseLegs
<1>4. <<>> \in Seq(Order)
  OBVIOUS
<1> QED BY <1>2, <1>3, <1>4 DEF Act

\* The breaker of a gap halts the session and changes nothing else.
LEMMA TrippedFacts ==
  ASSUME NEW m \in SessionType, NEW t
  PROVE  /\ Tripped(m, t) \in SessionType
         /\ Tripped(m, t).ticks = m.ticks /\ Tripped(m, t).fills = m.fills
         /\ Tripped(m, t).orders = m.orders /\ Tripped(m, t).seq = m.seq
         /\ Tripped(m, t).status = (IF t \in market.gaps THEN "halted" ELSE m.status)
         /\ Tripped(m, t).breakers = (m.breakers \/ t \in market.gaps)
<1> DEFINE halted == IF t \in market.gaps THEN "halted" ELSE m.status
           broken == m.breakers \/ t \in market.gaps
<1>1. Tripped(m, t) = [m EXCEPT !.breakers = broken, !.status = halted]
  BY Zenon DEF Tripped
<1>2. broken \in BOOLEAN /\ halted \in Status
  BY DEF SessionType, Status
<1> HIDE DEF broken, halted
<1>3. /\ Tripped(m, t) \in SessionType
      /\ Tripped(m, t).ticks = m.ticks /\ Tripped(m, t).fills = m.fills
      /\ Tripped(m, t).orders = m.orders /\ Tripped(m, t).seq = m.seq
      /\ Tripped(m, t).status = halted /\ Tripped(m, t).breakers = broken
  BY <1>1, <1>2 DEF SessionType
<1> QED BY <1>3, Zenon DEF broken, halted

\* What a tick makes of a session.
LEMMA AfterTickFacts ==
  ASSUME NEW m \in SessionType, NEW t \in Ticks
  PROVE  /\ AfterTick(m, t) \in SessionType
         /\ AfterTick(m, t).ticks = Append(m.ticks, t)
         /\ AfterTick(m, t).fills = m.fills \o Match(m.orders, t)
         /\ AfterTick(m, t).orders = Remaining(m.orders, t)
                \o Act(Tripped(m, t).status, m.fills \o Match(m.orders, t), t)
         /\ AfterTick(m, t).seq >= m.seq
         /\ AfterTick(m, t).breakers = (m.breakers \/ t \in market.gaps)
         /\ AfterTick(m, t).status = IF t \in market.gaps THEN "halted" ELSE m.status
<1> DEFINE filled == Match(m.orders, t)
           status == IF t \in market.gaps THEN "halted" ELSE m.status
           new == Act(status, m.fills \o filled, t)
<1>1. m = [ticks |-> m.ticks, fills |-> m.fills, orders |-> m.orders, status |-> m.status,
           breakers |-> m.breakers, seq |-> m.seq]
      /\ m.ticks \in Seq(Ticks) /\ m.fills \in Seq(Fill) /\ m.orders \in Seq(Order)
      /\ m.status \in Status /\ m.breakers \in BOOLEAN /\ m.seq \in Nat
  BY DEF SessionType
<1>2. /\ Tripped(m, t) \in SessionType
      /\ Tripped(m, t).ticks = m.ticks /\ Tripped(m, t).fills = m.fills
      /\ Tripped(m, t).orders = m.orders /\ Tripped(m, t).seq = m.seq
  BY <1>1, TrippedFacts
<1>3. /\ Tripped(m, t).status = status
      /\ Tripped(m, t).breakers = (m.breakers \/ t \in market.gaps)
  BY <1>1, TrippedFacts
<1> DEFINE n == Tripped(m, t)
           fills == n.fills \o filled
<1>4. filled \in Seq(Fill) /\ Len(filled) \in Nat
  BY <1>1, MatchType
<1> HIDE DEF filled, status
<1>5. m.fills \o filled \in Seq(Fill)
  BY <1>1, <1>4, ConcatType
<1>6. new \in Seq(Order) /\ Len(new) \in Nat
  <2>1. new \in Seq(Order)
    BY <1>5, ActType, Zenon
  <2> HIDE DEF new
  <2> QED BY <2>1
<1>7. Remaining(m.orders, t) \in Seq(Order)
  BY <1>1, RemainingType
<1>8. Remaining(m.orders, t) \o new \in Seq(Order)
  BY <1>6, <1>7, ConcatType
<1> HIDE DEF new, n
<1>9. AfterTick(m, t) =
        [n EXCEPT !.ticks = Append(n.ticks, t), !.fills = m.fills \o filled,
                  !.orders = Remaining(m.orders, t) \o new,
                  !.seq = n.seq + Len(filled) + Len(new)]
  BY <1>2, <1>3, Zenon DEF AfterTick, filled, new, n
<1>10. n \in SessionType /\ n.ticks = m.ticks /\ n.seq = m.seq /\ n.status = status
       /\ n.breakers = (m.breakers \/ t \in market.gaps)
  BY <1>2, <1>3, Zenon DEF n
<1>11. Append(n.ticks, t) \in Seq(Ticks) /\ n.seq + Len(filled) + Len(new) \in Nat
       /\ n.seq + Len(filled) + Len(new) >= m.seq
  BY <1>1, <1>4, <1>6, <1>10
<1>12. AfterTick(m, t) \in SessionType
  BY <1>5, <1>8, <1>9, <1>10, <1>11 DEF SessionType
<1>13. /\ AfterTick(m, t).ticks = Append(n.ticks, t)
       /\ AfterTick(m, t).fills = m.fills \o filled
       /\ AfterTick(m, t).orders = Remaining(m.orders, t) \o new
       /\ AfterTick(m, t).seq = n.seq + Len(filled) + Len(new)
       /\ AfterTick(m, t).status = n.status
       /\ AfterTick(m, t).breakers = n.breakers
  BY <1>9, <1>10 DEF SessionType
<1>14. Tripped(m, t).status = status
  BY <1>3
<1> QED BY <1>10, <1>11, <1>12, <1>13, <1>14 DEF filled, new, status

\* A replayed tick moves nothing but the clock: no order is open and none is made.
LEMMA QuietTick ==
  ASSUME NEW m \in SessionType, NEW t \in Ticks, m.orders = <<>>, m.status # "running"
  PROVE  /\ AfterTick(m, t).orders = <<>>
         /\ AfterTick(m, t).fills = m.fills
         /\ AfterTick(m, t).seq = m.seq
         /\ AfterTick(m, t).status # "running"
<1>1. m.fills \in Seq(Fill) /\ m.orders \in Seq(Order) /\ m.seq \in Nat
      /\ m = [ticks |-> m.ticks, fills |-> m.fills, orders |-> m.orders, status |-> m.status,
              breakers |-> m.breakers, seq |-> m.seq]
  BY DEF SessionType
<1>2. Match(m.orders, t) = <<>>
  <2>1. Match(m.orders, t) \in Seq(Fill) /\ Len(Match(m.orders, t)) = 0
    BY <1>1, MatchType
  <2> QED BY <2>1
<1>3. Remaining(m.orders, t) = <<>>
  BY <1>1, RemainingType
<1>4. Tripped(m, t).status # "running" /\ Tripped(m, t).seq = m.seq
  BY <1>1, TrippedFacts
<1>5. Act(Tripped(m, t).status, m.fills \o Match(m.orders, t), t) = <<>>
  <2>1. m.fills \o Match(m.orders, t) \in Seq(Fill)
    BY <1>1, MatchType, ConcatType
  <2> QED BY <1>4, <2>1, ActType, Zenon
<1>6. AfterTick(m, t).orders = <<>> /\ AfterTick(m, t).fills = m.fills
      /\ AfterTick(m, t).status # "running"
  <2>1. m.fills \o <<>> = m.fills /\ <<>> \o <<>> = <<>>
    BY <1>1
  <2>2. /\ AfterTick(m, t).fills = m.fills \o Match(m.orders, t)
        /\ AfterTick(m, t).orders = Remaining(m.orders, t)
                \o Act(Tripped(m, t).status, m.fills \o Match(m.orders, t), t)
        /\ AfterTick(m, t).status = IF t \in market.gaps THEN "halted" ELSE m.status
    BY AfterTickFacts
  <2>3. AfterTick(m, t).status # "running"
    BY <2>2
  <2> QED BY <1>2, <1>3, <1>5, <2>1, <2>2, <2>3, Zenon
<1>7. AfterTick(m, t).seq = m.seq
  <2>1. Tripped(m, t).fills = m.fills /\ Tripped(m, t).orders = m.orders
    BY <1>1, TrippedFacts
  <2>2. AfterTick(m, t).seq = Tripped(m, t).seq + Len(Match(m.orders, t)) + Len(<<>>)
    BY <1>1, <1>5, <2>1 DEF AfterTick, Tripped
  <2> QED BY <1>1, <1>2, <1>4, <2>2
<1> QED BY <1>6, <1>7

\* A tick appends its fills, then its orders.
LEMMA AppendedFacts ==
  ASSUME NEW m \in SessionType, NEW t \in Ticks
  PROVE  /\ Appended(m, t) \in Seq(Record)
         /\ Len(m.orders) \in 0..Len(Appended(m, t))
         /\ \A i \in DOMAIN Appended(m, t) :
               Appended(m, t)[i].kind = IF i <= Len(m.orders) THEN "fill" ELSE "order"
         /\ \A i \in 1..Len(m.orders) : Appended(m, t)[i].fill = Match(m.orders, t)[i]
<1> DEFINE filled == Match(m.orders, t)
           after == Act(Tripped(m, t).status, m.fills \o filled, t)
           new == Len(AfterTick(m, t).orders) - Len(Remaining(m.orders, t))
           rec(i) == IF i <= Len(filled) THEN Rec("fill", m.seq + i, t, filled[i])
                     ELSE Rec("order", m.seq + i, t, None)
<1>1. m.fills \in Seq(Fill) /\ m.orders \in Seq(Order) /\ m.seq \in Nat
  BY DEF SessionType
<1>2. filled \in Seq(Fill) /\ Len(filled) = Len(m.orders) /\ Len(filled) \in Nat
  BY <1>1, MatchType
<1>3. new \in Nat
  <2>1. m.fills \o filled \in Seq(Fill)
    BY <1>1, <1>2
  <2>2. after \in Seq(Order) /\ Remaining(m.orders, t) \in Seq(Order)
    BY <1>1, <2>1, ActType, RemainingType
  <2>3. AfterTick(m, t).orders = Remaining(m.orders, t) \o after
    BY AfterTickFacts
  <2> HIDE DEF after
  <2>4. Len(Remaining(m.orders, t) \o after) = Len(Remaining(m.orders, t)) + Len(after)
        /\ Len(after) \in Nat /\ Len(Remaining(m.orders, t)) \in Nat
    BY <2>2
  <2> QED BY <2>3, <2>4
<1> HIDE DEF new, filled
<1>4. ASSUME NEW i \in 1..(Len(filled) + new) PROVE rec(i) \in Record
  <2>1. i \in Nat /\ m.seq + i \in Nat
    BY <1>1, <1>2, <1>3
  <2>2. i <= Len(filled) => filled[i] \in Fill
    BY <1>2
  <2> QED BY <2>1, <2>2 DEF Record, Rec
<1>5. Appended(m, t) = [i \in 1..(Len(filled) + new) |-> rec(i)]
  BY DEF Appended, filled, new
<1>6. Appended(m, t) \in Seq(Record) /\ Len(Appended(m, t)) = Len(filled) + new
      /\ DOMAIN Appended(m, t) = 1..(Len(filled) + new)
  <2> HIDE DEF rec
  <2> QED BY <1>2, <1>3, <1>4, <1>5
<1>7. \A i \in 1..(Len(filled) + new) :
         /\ rec(i).kind = IF i <= Len(filled) THEN "fill" ELSE "order"
         /\ i <= Len(filled) => rec(i).fill = filled[i]
  BY DEF Rec
<1> HIDE DEF rec
<1> QED BY <1>2, <1>3, <1>5, <1>6, <1>7 DEF filled

------------------------------------------------------------------------------
(* What always holds of the journal, the checkpoint and the process.        *)

IsTick(r) == r.kind = "tick"

\* A journal has its ticks in order and without a gap, each with a greater number.
TicksInOrder(js) ==
    /\ \A j \in DOMAIN js : IsTick(js[j]) => js[j].tick \in Ticks
    /\ \A i, j \in DOMAIN js : i < j /\ IsTick(js[i]) /\ IsTick(js[j]) =>
          js[i].seq < js[j].seq /\ js[i].tick < js[j].tick
    /\ \A j \in DOMAIN js : IsTick(js[j]) /\ js[j].tick > 1 =>
          \E i \in DOMAIN js : IsTick(js[i]) /\ js[i].tick = js[j].tick - 1

\* The sequence number of a session tells which ticks of the journal it has.
Agrees(js, m) ==
    \A j \in DOMAIN js : IsTick(js[j]) =>
        (js[j].tick <= Len(m.ticks) <=> js[j].seq <= m.seq)

\* It has every one of them.
Covers(js, m) ==
    \A j \in DOMAIN js : IsTick(js[j]) => js[j].tick <= Len(m.ticks) /\ js[j].seq <= m.seq

\* Its ticks are in the journal.
Backed(js, m) ==
    \A t \in 1..Len(m.ticks) : \E j \in DOMAIN js : IsTick(js[j]) /\ js[j].tick = t

\* A session is not behind its checkpoint, and has not moved if that recorded a breaker.
Ahead(cp, m) ==
    /\ Len(cp.ticks) <= Len(m.ticks) /\ cp.seq <= m.seq
    /\ cp.breakers => m.breakers /\ m.ticks = cp.ticks

\* The replay has its place in the journal, and every tick before it.
Replaying(js, td, m) ==
    /\ m.orders = <<>> /\ m.status # "running"
    /\ Len(td) <= Len(js)
    /\ \A i \in 1..Len(td) : td[i] = js[Len(js) - Len(td) + i]
    /\ \A j \in 1..(Len(js) - Len(td)) : IsTick(js[j]) => js[j].tick <= Len(m.ticks)

\* What is to be appended are fills and orders ...
Appending(td) == \A i \in DOMAIN td : ~IsTick(td[i])

\* ... the fills first, which give the books that are in memory.
Pending(js, td, m) ==
    \E n \in 0..Len(td) :
        /\ \A i \in 1..n : td[i].kind = "fill"
        /\ \A i \in (n + 1)..Len(td) : td[i].kind # "fill"
        /\ m.fills = FillsIn(js) \o [i \in 1..n |-> td[i].fill]

Running == {"save", "ready", "append", "renew", "stop", "release"}

\* A process that has the session, at p with m in memory.
WriterOK(p, m, td, js, te, cp, c) ==
    /\ p \in Running \cup {"replay"} => Ahead(cp, m) /\ (te \/ Backed(js, m))
    /\ p = "replay" => Agrees(js, m) /\ Replaying(js, td, m)
    /\ p \in Running => Covers(js, m) /\ (m.breakers => m.status = "halted")
    /\ p = "append" => ~cp.breakers /\ Appending(td)
    /\ ~c /\ p \in (Running \ {"append"}) \cup {"replay"} => m.fills = cp.fills
    /\ ~c /\ p = "append" => Pending(js, td, m)

\* The files; free of a process between a tick and its checkpoint, and settled unless one
\* was killed there.
JournalOK(js, te, cp, c, free) ==
    /\ TicksInOrder(js)
    /\ Agrees(js, cp) /\ (te \/ Backed(js, cp))
    /\ cp.breakers => Covers(js, cp)
    /\ ~c => ~te
    /\ ~c /\ free => Covers(js, cp) /\ FillsIn(js) = cp.fills

Free == \A w \in Writers : pc[w] # "append"

SessionInv ==
    /\ TicksOnce
    /\ JournalOK(journal, tornEnd, checkpoint, cut, Free)
    /\ \A w \in Writers : WriterOK(pc[w], mem[w], todo[w], journal, tornEnd, checkpoint, cut)

------------------------------------------------------------------------------
(* Steps of the journal.                                                    *)

LEMMA CoversAgrees ==
  ASSUME NEW js \in Seq(Record), NEW m, Covers(js, m)
  PROVE  Agrees(js, m)
BY DEF Covers, Agrees

\* A record that is no tick changes nothing of the ticks.
LEMMA AppendOther ==
  ASSUME NEW js \in Seq(Record), NEW r \in Record, ~IsTick(r), NEW m
  PROVE  /\ TicksInOrder(js) => TicksInOrder(Append(js, r))
         /\ Agrees(js, m) => Agrees(Append(js, r), m)
         /\ Covers(js, m) => Covers(Append(js, r), m)
         /\ Backed(js, m) => Backed(Append(js, r), m)
<1> DEFINE more == Append(js, r)
<1>1. /\ Len(more) = Len(js) + 1 /\ DOMAIN more = 1..(Len(js) + 1) /\ DOMAIN js = 1..Len(js)
      /\ more[Len(js) + 1] = r /\ \A n \in DOMAIN js : more[n] = js[n]
  OBVIOUS
<1> HIDE DEF more
<1>2. \A j \in DOMAIN more : IsTick(more[j]) => j \in DOMAIN js /\ more[j] = js[j]
  BY <1>1
<1>3. \A j \in DOMAIN js : j \in DOMAIN more /\ more[j] = js[j] /\ j \in Nat
  BY <1>1
<1>4. TicksInOrder(js) => TicksInOrder(more)
  <2> SUFFICES ASSUME TicksInOrder(js) PROVE TicksInOrder(more)
    OBVIOUS
  <2>1. \A j \in DOMAIN more : IsTick(more[j]) => more[j].tick \in Ticks
    BY <1>2 DEF TicksInOrder
  <2>2. \A i, j \in DOMAIN more : i < j /\ IsTick(more[i]) /\ IsTick(more[j]) =>
            more[i].seq < more[j].seq /\ more[i].tick < more[j].tick
    BY <1>2 DEF TicksInOrder
  <2>3. ASSUME NEW j \in DOMAIN more, IsTick(more[j]), more[j].tick > 1
        PROVE  \E i \in DOMAIN more : IsTick(more[i]) /\ more[i].tick = more[j].tick - 1
    <3>1. PICK i \in DOMAIN js : IsTick(js[i]) /\ js[i].tick = js[j].tick - 1
      BY <1>2, <2>3 DEF TicksInOrder
    <3> QED BY <1>2, <1>3, <2>3, <3>1
  <2> QED BY <2>1, <2>2, <2>3 DEF TicksInOrder
<1>5. Agrees(js, m) => Agrees(more, m)
  BY <1>2 DEF Agrees
<1>6. Covers(js, m) => Covers(more, m)
  BY <1>2 DEF Covers
<1>7. Backed(js, m) => Backed(more, m)
  BY <1>3 DEF Backed
<1> QED BY <1>4, <1>5, <1>6, <1>7 DEF more

\* The next tick of a session whose ticks are all in the journal, and the journal's all in it.
LEMMA AppendTick ==
  ASSUME NEW js \in Seq(Record), NEW r \in Record, IsTick(r),
         NEW m \in SessionType, NEW n \in SessionType, NEW cp \in SessionType,
         TicksInOrder(js), Covers(js, m), Backed(js, m),
         r.tick = Len(m.ticks) + 1, r.tick \in Ticks, r.seq = m.seq + 1,
         Len(n.ticks) = r.tick, n.seq >= r.seq,
         Agrees(js, cp), Backed(js, cp), Len(cp.ticks) <= Len(m.ticks), cp.seq <= m.seq
  PROVE  /\ TicksInOrder(Append(js, r))
         /\ Covers(Append(js, r), n) /\ Backed(Append(js, r), n)
         /\ Agrees(Append(js, r), cp) /\ Backed(Append(js, r), cp)
<1> DEFINE more == Append(js, r)
           N == Len(js)
<1>1. /\ N \in Nat /\ DOMAIN more = 1..(N + 1) /\ DOMAIN js = 1..N
      /\ more[N + 1] = r /\ \A j \in DOMAIN js : more[j] = js[j]
  OBVIOUS
<1>2. /\ m.seq \in Nat /\ n.seq \in Nat /\ cp.seq \in Nat
      /\ Len(m.ticks) \in Nat /\ Len(n.ticks) \in Nat /\ Len(cp.ticks) \in Nat
  BY DEF SessionType
<1>3. \A j \in DOMAIN js : js[j].seq \in Nat /\ js[j].tick \in Nat
  <2>1. \A r1 \in Record : r1.seq \in Nat /\ r1.tick \in Nat
    BY SessionConstants DEF Record, Ticks
  <2> QED BY <2>1
<1> HIDE DEF more, N
<1>4. \A j \in DOMAIN js : j \in DOMAIN more /\ more[j] = js[j] /\ j \in Nat /\ j < N + 1
  BY <1>1
<1>5. \A j \in DOMAIN more : j \in DOMAIN js \/ (j = N + 1 /\ more[j] = r)
  BY <1>1
<1>6. \A j \in DOMAIN js : IsTick(js[j]) => js[j].tick < r.tick /\ js[j].seq < r.seq
  BY <1>2, <1>3 DEF Covers
<1>7. TicksInOrder(more)
  <2>1. \A j \in DOMAIN more : IsTick(more[j]) => more[j].tick \in Ticks
    BY <1>4, <1>5 DEF TicksInOrder
  <2>2. ASSUME NEW i \in DOMAIN more, NEW j \in DOMAIN more, i < j, IsTick(more[i]), IsTick(more[j])
        PROVE  more[i].seq < more[j].seq /\ more[i].tick < more[j].tick
    <3>1. i \in DOMAIN js
      BY <1>1, <2>2
    <3>2. CASE j \in DOMAIN js
      BY <1>4, <2>2, <3>1, <3>2 DEF TicksInOrder
    <3>3. CASE more[j] = r
      BY <1>4, <1>6, <2>2, <3>1, <3>3
    <3> QED BY <1>5, <3>2, <3>3
  <2>3. ASSUME NEW j \in DOMAIN more, IsTick(more[j]), more[j].tick > 1
        PROVE  \E i \in DOMAIN more : IsTick(more[i]) /\ more[i].tick = more[j].tick - 1
    <3>1. CASE j \in DOMAIN js
      <4>1. PICK i \in DOMAIN js : IsTick(js[i]) /\ js[i].tick = js[j].tick - 1
        BY <1>4, <2>3, <3>1 DEF TicksInOrder
      <4> QED BY <1>4, <3>1, <4>1
    <3>2. CASE more[j] = r
      <4>1. Len(m.ticks) \in 1..Len(m.ticks)
        BY <1>2, <2>3, <3>2
      <4>2. PICK i \in DOMAIN js : IsTick(js[i]) /\ js[i].tick = Len(m.ticks)
        BY <4>1 DEF Backed
      <4>3. more[i] = js[i] /\ i \in DOMAIN more
        BY <1>4
      <4>4. more[j].tick - 1 = Len(m.ticks)
        <5>1. more[j].tick = Len(m.ticks) + 1
          BY <3>2
        <5> QED BY <1>2, <5>1
      <4> QED BY <4>2, <4>3, <4>4
    <3> QED BY <1>5, <3>1, <3>2
  <2> QED BY <2>1, <2>2, <2>3 DEF TicksInOrder
<1>8. Covers(more, n)
  <2>1. ASSUME NEW j \in DOMAIN more, IsTick(more[j])
        PROVE  more[j].tick <= Len(n.ticks) /\ more[j].seq <= n.seq
    <3>1. CASE j \in DOMAIN js
      BY <1>2, <1>3, <1>4, <1>6, <2>1, <3>1
    <3>2. CASE more[j] = r
      BY <1>2, <3>2
    <3> QED BY <1>5, <3>1, <3>2
  <2> QED BY <2>1 DEF Covers
<1>9. Backed(more, n)
  <2>1. ASSUME NEW t \in 1..Len(n.ticks)
        PROVE  \E j \in DOMAIN more : IsTick(more[j]) /\ more[j].tick = t
    <3>1. CASE t = r.tick
      BY <1>1, <3>1
    <3>2. CASE t # r.tick
      <4>1. t \in 1..Len(m.ticks)
        BY <1>2, <2>1, <3>2
      <4>2. PICK j \in DOMAIN js : IsTick(js[j]) /\ js[j].tick = t
        BY <4>1 DEF Backed
      <4> QED BY <1>4, <4>2
    <3> QED BY <3>1, <3>2
  <2> QED BY <2>1 DEF Backed
<1>10. Agrees(more, cp)
  <2>1. ASSUME NEW j \in DOMAIN more, IsTick(more[j])
        PROVE  more[j].tick <= Len(cp.ticks) <=> more[j].seq <= cp.seq
    <3>1. CASE j \in DOMAIN js
      BY <1>4, <2>1, <3>1 DEF Agrees
    <3>2. CASE more[j] = r
      BY <1>2, <3>2
    <3> QED BY <1>5, <3>1, <3>2
  <2> QED BY <2>1 DEF Agrees
<1>11. Backed(more, cp)
  BY <1>4 DEF Backed
<1> QED BY <1>7, <1>8, <1>9, <1>10, <1>11 DEF more

\* A session that is ahead of one that has every tick of the journal has them too.
LEMMA CoversAhead ==
  ASSUME NEW js \in Seq(Record), NEW cp \in SessionType, NEW m \in SessionType,
         Covers(js, cp), Ahead(cp, m)
  PROVE  Covers(js, m)
<1>1. /\ cp.seq \in Nat /\ m.seq \in Nat /\ Len(cp.ticks) \in Nat /\ Len(m.ticks) \in Nat
  BY DEF SessionType
<1>2. \A j \in DOMAIN js : js[j].seq \in Nat /\ js[j].tick \in Nat
  <2>1. \A r \in Record : r.seq \in Nat /\ r.tick \in Nat
    BY SessionConstants DEF Record, Ticks
  <2> QED BY <2>1
<1> QED BY <1>1, <1>2 DEF Covers, Ahead

\* A session whose orders are empty, with a later number, is one still.
LEMMA LaterNumber ==
  ASSUME NEW m \in SessionType, NEW q \in Nat
  PROVE  /\ [m EXCEPT !.seq = Max2(@, q)] \in SessionType
         /\ [m EXCEPT !.seq = Max2(@, q)].seq = Max2(m.seq, q)
         /\ [m EXCEPT !.seq = Max2(@, q)].ticks = m.ticks
         /\ [m EXCEPT !.seq = Max2(@, q)].fills = m.fills
         /\ [m EXCEPT !.seq = Max2(@, q)].orders = m.orders
         /\ [m EXCEPT !.seq = Max2(@, q)].status = m.status
         /\ [m EXCEPT !.seq = Max2(@, q)].breakers = m.breakers
<1>1. Max2(m.seq, q) \in Nat
  BY DEF SessionType, Max2
<1> DEFINE b == m.breakers
<1>2. [m EXCEPT !.seq = Max2(@, q)] = [m EXCEPT !.seq = Max2(m.seq, q)]
  OBVIOUS
<1>3. /\ [m EXCEPT !.seq = Max2(m.seq, q)] \in SessionType
      /\ [m EXCEPT !.seq = Max2(m.seq, q)].seq = Max2(m.seq, q)
      /\ [m EXCEPT !.seq = Max2(m.seq, q)].ticks = m.ticks
      /\ [m EXCEPT !.seq = Max2(m.seq, q)].fills = m.fills
      /\ [m EXCEPT !.seq = Max2(m.seq, q)].orders = m.orders
      /\ [m EXCEPT !.seq = Max2(m.seq, q)].status = m.status
      /\ [m EXCEPT !.seq = Max2(m.seq, q)].breakers = m.breakers
  BY <1>1 DEF SessionType
<1> QED BY <1>2, <1>3

\* One more tick keeps a session's ticks in order.
LEMMA NextInOrder ==
  ASSUME NEW ticks \in Seq(Ticks), EachOnce(ticks), NEW t, t = Len(ticks) + 1
  PROVE  EachOnce(Append(ticks, t))
BY DEF EachOnce

\* The replay takes one record: a tick beyond the session is the one after its last.
LEMMA ReplayStep ==
  ASSUME NEW js \in Seq(Record), NEW td \in Seq(Record), td # <<>>,
         NEW m \in SessionType, NEW n,
         EachOnce(m.ticks), TicksInOrder(js), Agrees(js, m), Replaying(js, td, m),
         n = IF Head(td).seq <= m.seq \/ Head(td).kind # "tick" THEN m
             ELSE AfterTick([m EXCEPT !.seq = Max2(@, Head(td).seq)], Head(td).tick)
  PROVE  /\ n \in SessionType /\ EachOnce(n.ticks) /\ n.fills = m.fills
         /\ Agrees(js, n) /\ Replaying(js, Tail(td), n)
         /\ Backed(js, m) => Backed(js, n)
         /\ Len(m.ticks) <= Len(n.ticks) /\ m.seq <= n.seq
         /\ m.breakers => n.breakers
         /\ Covers(js, m) => n = m
<1> DEFINE r == Head(td)
           k == Len(js) - Len(td) + 1
           K == Len(m.ticks)
<1>1. /\ Len(td) \in Nat /\ Len(js) \in Nat /\ Len(td) >= 1 /\ td[1] = r
      /\ Tail(td) \in Seq(Record) /\ Len(Tail(td)) = Len(td) - 1
      /\ \A i \in 1..Len(Tail(td)) : Tail(td)[i] = td[i + 1]
      /\ DOMAIN js = 1..Len(js)
  OBVIOUS
<1>2. k \in DOMAIN js /\ js[k] = r /\ k \in Nat
  BY <1>1 DEF Replaying
<1>3. r \in Record /\ r.seq \in Nat /\ r.tick \in Nat
  <2>1. r \in Record
    OBVIOUS
  <2>2. \A x \in Record : x.seq \in Nat /\ x.tick \in Nat
    BY SessionConstants DEF Record, Ticks
  <2> QED BY <2>1, <2>2
<1>4. /\ m.seq \in Nat /\ K \in Nat /\ m.ticks \in Seq(Ticks) /\ m.orders = <<>>
      /\ m.status # "running" /\ m.breakers \in BOOLEAN
  BY DEF SessionType, Replaying
<1>5. /\ Len(Tail(td)) <= Len(js)
      /\ Len(js) - Len(Tail(td)) = k /\ k - 1 = Len(js) - Len(td)
      /\ \A i \in 1..Len(Tail(td)) : Tail(td)[i] = js[Len(js) - Len(Tail(td)) + i]
  BY <1>1 DEF Replaying
<1>6. \A j \in 1..(k - 1) : IsTick(js[j]) => js[j].tick <= K
  BY <1>5 DEF Replaying
<1>7. \A j \in DOMAIN js : js[j].seq \in Nat /\ js[j].tick \in Nat /\ j \in Nat
  <2>1. \A x \in Record : x.seq \in Nat /\ x.tick \in Nat
    BY SessionConstants DEF Record, Ticks
  <2> QED BY <1>1, <2>1
<1> HIDE DEF k
<1>8. CASE r.seq <= m.seq \/ r.kind # "tick"
  <2>1. n = m
    BY <1>8
  <2>2. IsTick(r) => r.tick <= K
    BY <1>2, <1>8 DEF Agrees, IsTick
  <2>3. \A j \in 1..k : IsTick(js[j]) => js[j].tick <= K
    BY <1>2, <1>6, <2>2
  <2>4. Replaying(js, Tail(td), m)
    BY <1>4, <1>5, <2>3 DEF Replaying
  <2> QED BY <1>4, <2>1, <2>4
<1>9. CASE ~(r.seq <= m.seq) /\ r.kind = "tick"
  <2> DEFINE m1 == [m EXCEPT !.seq = Max2(@, r.seq)]
  <2>1. n = AfterTick(m1, r.tick)
    BY <1>9
  <2>2. /\ m1 \in SessionType /\ m1.seq = r.seq /\ m1.ticks = m.ticks /\ m1.fills = m.fills
        /\ m1.orders = <<>> /\ m1.status # "running" /\ m1.breakers = m.breakers
    <3>1. Max2(m.seq, r.seq) = r.seq
      BY <1>3, <1>4, <1>9 DEF Max2
    <3> QED BY <1>3, <1>4, <3>1, LaterNumber, Zenon
  <2> HIDE DEF m1
  <2>3. IsTick(js[k]) /\ r.tick \in Ticks /\ r.tick > K
    BY <1>2, <1>3, <1>4, <1>9 DEF IsTick, Agrees, TicksInOrder
  <2>4. r.tick = K + 1
    <3>1. SUFFICES ASSUME r.tick > K + 1 PROVE FALSE
      BY <1>3, <1>4, <2>3
    <3>2. r.tick > 1
      BY <1>3, <1>4, <3>1
    <3>3. PICK i \in DOMAIN js : IsTick(js[i]) /\ js[i].tick = r.tick - 1
      BY <1>2, <2>3, <3>2 DEF TicksInOrder
    <3>4. ~(k < i) /\ i # k
      BY <1>2, <1>3, <1>7, <2>3, <3>3 DEF TicksInOrder
    <3>5. i \in 1..(k - 1)
      BY <1>1, <1>2, <1>7, <3>4
    <3> QED BY <1>3, <1>4, <1>6, <3>1, <3>3, <3>5
  <2>5. /\ n \in SessionType /\ n.ticks = Append(m.ticks, r.tick)
        /\ n.breakers = (m.breakers \/ r.tick \in market.gaps)
        /\ n.orders = <<>> /\ n.fills = m.fills /\ n.seq = r.seq /\ n.status # "running"
    <3>1. /\ AfterTick(m1, r.tick) \in SessionType
          /\ AfterTick(m1, r.tick).ticks = Append(m1.ticks, r.tick)
          /\ AfterTick(m1, r.tick).breakers = (m1.breakers \/ r.tick \in market.gaps)
      BY <2>2, <2>3, AfterTickFacts, Zenon
    <3>2. /\ AfterTick(m1, r.tick).orders = <<>> /\ AfterTick(m1, r.tick).fills = m1.fills
          /\ AfterTick(m1, r.tick).seq = m1.seq /\ AfterTick(m1, r.tick).status # "running"
      BY <2>2, <2>3, QuietTick, Zenon
    <3> QED BY <2>1, <2>2, <3>1, <3>2, Zenon
  <2>6. Len(n.ticks) = K + 1 /\ EachOnce(n.ticks)
    <3>1. Len(Append(m.ticks, r.tick)) = K + 1
      BY <1>4
    <3>2. EachOnce(Append(m.ticks, r.tick))
      BY <1>4, <2>4, NextInOrder
    <3> QED BY <2>5, <3>1, <3>2
  <2>7. Agrees(js, n)
    <3>1. ASSUME NEW j \in DOMAIN js, IsTick(js[j])
          PROVE  js[j].tick <= Len(n.ticks) <=> js[j].seq <= n.seq
      <4>1. CASE j = k
        BY <1>2, <1>3, <1>4, <2>4, <2>5, <2>6, <4>1
      <4>2. CASE j < k
        <5>1. js[j].seq < r.seq /\ js[j].tick < r.tick
          BY <1>2, <2>3, <3>1, <4>2 DEF TicksInOrder
        <5> QED BY <1>3, <1>4, <1>7, <2>4, <2>5, <2>6, <5>1
      <4>3. CASE k < j
        <5>1. r.seq < js[j].seq /\ r.tick < js[j].tick
          BY <1>2, <2>3, <3>1, <4>3 DEF TicksInOrder
        <5> QED BY <1>3, <1>4, <1>7, <2>4, <2>5, <2>6, <5>1
      <4> QED BY <1>2, <1>7, <4>1, <4>2, <4>3
    <3> QED BY <3>1 DEF Agrees
  <2>8. Replaying(js, Tail(td), n)
    <3>1. \A j \in 1..k : IsTick(js[j]) => js[j].tick <= Len(n.ticks)
      <4>1. ASSUME NEW j \in 1..k, IsTick(js[j]) PROVE js[j].tick <= Len(n.ticks)
        <5>1. CASE j = k
          BY <1>2, <1>3, <1>4, <2>4, <2>6, <5>1
        <5>2. CASE j # k
          <6>1. j \in 1..(k - 1) /\ j \in DOMAIN js
            BY <1>1, <1>2, <5>2
          <6> QED BY <1>4, <1>6, <1>7, <2>6, <4>1, <6>1
        <5> QED BY <5>1, <5>2
      <4> QED BY <4>1
    <3> QED BY <1>5, <2>5, <3>1 DEF Replaying
  <2>9. Backed(js, m) => Backed(js, n)
    <3>1. ASSUME Backed(js, m), NEW t \in 1..Len(n.ticks)
          PROVE  \E j \in DOMAIN js : IsTick(js[j]) /\ js[j].tick = t
      <4>1. CASE t = K + 1
        BY <1>2, <2>3, <2>4, <4>1
      <4>2. CASE t # K + 1
        <5>1. t \in 1..Len(m.ticks)
          BY <1>4, <2>6, <3>1, <4>2
        <5> QED BY <3>1, <5>1 DEF Backed
      <4> QED BY <4>1, <4>2
    <3> QED BY <3>1 DEF Backed
  <2>10. ~Covers(js, m)
    BY <1>2, <1>3, <1>4, <2>3 DEF Covers
  <2>11. Len(m.ticks) <= Len(n.ticks) /\ m.seq <= n.seq
    BY <1>3, <1>4, <1>9, <2>5, <2>6
  <2> QED BY <2>5, <2>6, <2>7, <2>8, <2>9, <2>10, <2>11
<1> QED BY <1>8, <1>9

\* What a checkpoint keeps of a session is all the invariant speaks of.
LEMMA SavedFacts ==
  ASSUME NEW m \in SessionType, NEW js
  PROVE  /\ Saved(m) \in SessionType /\ Saved(m).orders = <<>>
         /\ Saved(m).ticks = m.ticks /\ Saved(m).seq = m.seq /\ Saved(m).fills = m.fills
         /\ Saved(m).breakers = m.breakers /\ Saved(m).status = m.status
         /\ Agrees(js, Saved(m)) <=> Agrees(js, m)
         /\ Covers(js, Saved(m)) <=> Covers(js, m)
         /\ Backed(js, Saved(m)) <=> Backed(js, m)
<1>1. /\ Saved(m) \in SessionType /\ Saved(m).orders = <<>>
      /\ Saved(m).ticks = m.ticks /\ Saved(m).seq = m.seq /\ Saved(m).fills = m.fills
      /\ Saved(m).breakers = m.breakers /\ Saved(m).status = m.status
  <2>0. <<>> \in Seq(Order)
    OBVIOUS
  <2>1. PICK none \in Seq(Order) : none = <<>>
    BY <2>0
  <2>2. Saved(m) = [m EXCEPT !.orders = none]
    BY <2>1 DEF Saved
  <2>3. /\ [m EXCEPT !.orders = none] \in SessionType /\ [m EXCEPT !.orders = none].orders = none
        /\ [m EXCEPT !.orders = none].ticks = m.ticks /\ [m EXCEPT !.orders = none].seq = m.seq
        /\ [m EXCEPT !.orders = none].fills = m.fills
        /\ [m EXCEPT !.orders = none].breakers = m.breakers
        /\ [m EXCEPT !.orders = none].status = m.status
    BY DEF SessionType
  <2> QED BY <2>1, <2>2, <2>3
<1> QED BY <1>1 DEF Agrees, Covers, Backed

------------------------------------------------------------------------------
(* Steps of a process.                                                      *)

Places == {"off", "acquire", "restore", "replay", "save", "ready", "append", "renew", "stop",
           "release"}

\* No other process is inside the session.
Alone(w) == \A v \in Writers \ {w} : pc[v] \in {"off", "acquire"}

LEMMA NotInside ==
  ASSUME NEW p \in {"off", "acquire", "restore"}, NEW m, NEW td, NEW js, NEW te, NEW cp, NEW c
  PROVE  WriterOK(p, m, td, js, te, cp, c)
BY DEF WriterOK, Running

LEMMA Known ==
  ASSUME SessionInv, NEW w \in Writers
  PROVE  /\ journal \in Seq(Record) /\ tornEnd \in BOOLEAN /\ cut \in BOOLEAN
         /\ checkpoint \in SessionType /\ checkpoint.orders = <<>> /\ EachOnce(checkpoint.ticks)
         /\ mem[w] \in SessionType /\ EachOnce(mem[w].ticks) /\ todo[w] \in Seq(Record)
         /\ pc[w] \in Places /\ pc = [pc EXCEPT ![w] = pc[w]]
         /\ mem = [mem EXCEPT ![w] = mem[w]] /\ todo = [todo EXCEPT ![w] = todo[w]]
         /\ processes \in 0..MaxOpened /\ lease \in [token : Writers \cup {None}, live : BOOLEAN]
BY DEF SessionInv, TicksOnce, SessionTypes, Places

LEMMA KnownFiles ==
  ASSUME SessionInv, NEW w \in Writers, Alone(w)
  PROVE  /\ JournalOK(journal, tornEnd, checkpoint, cut, pc[w] # "append")
         /\ WriterOK(pc[w], mem[w], todo[w], journal, tornEnd, checkpoint, cut)
<1>1. Free <=> pc[w] # "append"
  BY DEF Alone, Free
<1> QED BY <1>1 DEF SessionInv, JournalOK

\* The invariant after a step of w.
LEMMA Stepped ==
  ASSUME SessionInv, NEW w \in Writers, Alone(w),
         NEW p \in Places, pc' = [pc EXCEPT ![w] = p],
         NEW m \in SessionType, mem' = [mem EXCEPT ![w] = m], EachOnce(m.ticks),
         NEW td \in Seq(Record), todo' = [todo EXCEPT ![w] = td],
         journal' \in Seq(Record), tornEnd' \in BOOLEAN, cut' \in BOOLEAN,
         checkpoint' \in SessionType, checkpoint'.orders = <<>>, EachOnce(checkpoint'.ticks),
         processes' \in 0..MaxOpened, lease' \in [token : Writers \cup {None}, live : BOOLEAN],
         JournalOK(journal', tornEnd', checkpoint', cut', p # "append"),
         WriterOK(p, m, td, journal', tornEnd', checkpoint', cut')
  PROVE  SessionInv'
<1>1. /\ pc \in [Writers -> Places] /\ mem \in [Writers -> SessionType]
      /\ todo \in [Writers -> Seq(Record)] /\ \A v \in Writers : EachOnce(mem[v].ticks)
  BY DEF SessionInv, TicksOnce, SessionTypes, Places
<1>2. /\ pc' \in [Writers -> Places] /\ mem' \in [Writers -> SessionType]
      /\ todo' \in [Writers -> Seq(Record)]
      /\ pc'[w] = p /\ mem'[w] = m /\ todo'[w] = td
      /\ \A v \in Writers \ {w} : pc'[v] = pc[v] /\ mem'[v] = mem[v] /\ todo'[v] = todo[v]
  BY <1>1
<1>3. \A v \in Writers : EachOnce(mem'[v].ticks)
  BY <1>1, <1>2
<1>4. Free' <=> p # "append"
  BY <1>2 DEF Free, Alone
<1>5. \A v \in Writers : WriterOK(pc'[v], mem'[v], todo'[v], journal', tornEnd', checkpoint', cut')
  <2>1. ASSUME NEW v \in Writers \ {w}
        PROVE  WriterOK(pc'[v], mem'[v], todo'[v], journal', tornEnd', checkpoint', cut')
    BY <1>2, NotInside DEF Alone
  <2> QED BY <1>2, <2>1
<1>6. TicksOnce'
  BY <1>2, <1>3 DEF TicksOnce, SessionTypes, Places
<1>7. JournalOK(journal', tornEnd', checkpoint', cut', Free')
  BY <1>4 DEF JournalOK
<1> QED BY <1>5, <1>6, <1>7 DEF SessionInv

LEMMA InitInv == SessionInit => SessionInv
<1> SUFFICES ASSUME SessionInit PROVE SessionInv
  OBVIOUS
<1> USE SessionConstants
<1>1. Fresh \in SessionType /\ Fresh.orders = <<>> /\ Fresh.ticks = <<>> /\ Fresh.breakers = FALSE
      /\ Fresh.fills = <<>> /\ EachOnce(Fresh.ticks)
  BY DEF Fresh, SessionType, Status, EachOnce
<1>2. Rec("started", 0, 0, None) \in Record /\ ~IsTick(Rec("started", 0, 0, None))
  BY DEF Rec, Record, IsTick
<1>3. /\ journal \in Seq(Record) /\ journal = Append(<<>>, Rec("started", 0, 0, None))
      /\ \A j \in DOMAIN journal : ~IsTick(journal[j])
  BY <1>2 DEF SessionInit
<1>4. TicksOnce
  <2>1. mem \in [Writers -> SessionType] /\ \A w \in Writers : mem[w] = Fresh
    BY <1>1 DEF SessionInit
  <2>2. <<>> \in Seq(Record)
    OBVIOUS
  <2>3. todo \in [Writers -> Seq(Record)]
    BY <2>2 DEF SessionInit
  <2>4. /\ checkpoint = Fresh /\ tornEnd = FALSE /\ cut = FALSE /\ processes \in 0..MaxOpened
        /\ pc = [w \in Writers |-> "off"]
        /\ lease \in [token : Writers \cup {None}, live : BOOLEAN]
    BY DEF SessionInit
  <2>5. SessionTypes
    BY <1>1, <1>3, <2>1, <2>3, <2>4 DEF SessionTypes
  <2> QED BY <1>1, <2>1, <2>4, <2>5 DEF TicksOnce
<1>5. FillsIn(journal) = <<>>
  <2>1. <<>> \in Seq(Record)
    OBVIOUS
  <2>2. FillsIn(journal) = Reads(FillsIn(<<>>), Rec("started", 0, 0, None))
    BY <1>2, <1>3, <2>1, FillsAppended
  <2> QED BY <2>2, FillsOfNone DEF Reads, Rec
<1>6. JournalOK(journal, tornEnd, checkpoint, cut, Free)
  BY <1>1, <1>3, <1>5 DEF SessionInit, JournalOK, TicksInOrder, Agrees, Covers, Backed
<1>7. \A w \in Writers : WriterOK(pc[w], mem[w], todo[w], journal, tornEnd, checkpoint, cut)
  BY NotInside DEF SessionInit
<1> QED BY <1>4, <1>6, <1>7 DEF SessionInv

LEMMA OpenKeeps ==
  ASSUME SessionInv, NEW w \in Writers, Open(w)
  PROVE  SessionInv'
<1>1. /\ pc \in [Writers -> Places] /\ pc[w] = "off" /\ pc' = [pc EXCEPT ![w] = "acquire"]
      /\ UNCHANGED <<journal, tornEnd, checkpoint, lease, mem, todo, cut>>
      /\ processes' \in 0..MaxOpened
  BY SessionConstants DEF Open, Goto, disk, SessionInv, TicksOnce, SessionTypes, Places
<1>2. pc' \in [Writers -> Places] /\ pc'[w] = "acquire" /\ \A v \in Writers \ {w} : pc'[v] = pc[v]
  BY <1>1 DEF Places
<1>3. TicksOnce'
  BY <1>1, <1>2 DEF SessionInv, TicksOnce, SessionTypes, Places
<1>4. Free' <=> Free
  BY <1>1, <1>2 DEF Free
<1>5. JournalOK(journal', tornEnd', checkpoint', cut', Free')
  BY <1>1, <1>4 DEF SessionInv, JournalOK
<1>6. \A v \in Writers : WriterOK(pc'[v], mem'[v], todo'[v], journal', tornEnd', checkpoint', cut')
  <2>1. WriterOK(pc'[w], mem'[w], todo'[w], journal', tornEnd', checkpoint', cut')
    BY <1>2, NotInside
  <2>2. ASSUME NEW v \in Writers \ {w}
        PROVE  WriterOK(pc'[v], mem'[v], todo'[v], journal', tornEnd', checkpoint', cut')
    BY <1>1, <1>2 DEF SessionInv
  <2> QED BY <2>1, <2>2
<1> QED BY <1>3, <1>5, <1>6 DEF SessionInv

LEMMA StillKeeps ==
  ASSUME SessionInv,
         UNCHANGED <<journal, tornEnd, checkpoint, pc, mem, todo, processes, cut>>,
         lease' \in [token : Writers \cup {None}, live : BOOLEAN]
  PROVE  SessionInv'
<1>1. TicksOnce'
  BY DEF SessionInv, TicksOnce, SessionTypes
<1>2. JournalOK(journal', tornEnd', checkpoint', cut', Free')
  BY DEF SessionInv, JournalOK, Free
<1>3. \A v \in Writers : WriterOK(pc'[v], mem'[v], todo'[v], journal', tornEnd', checkpoint', cut')
  BY DEF SessionInv
<1> QED BY <1>1, <1>2, <1>3 DEF SessionInv

LEMMA AcquireKeeps ==
  ASSUME SessionInv, NEW w \in Writers, Alone(w), Acquire(w)
  PROVE  SessionInv'
<1>1. /\ pc[w] = "acquire" /\ pc' = [pc EXCEPT ![w] = "restore"]
      /\ UNCHANGED <<journal, tornEnd, checkpoint, mem, todo, processes, cut>>
      /\ lease' \in [token : Writers \cup {None}, live : BOOLEAN]
  BY DEF Acquire, Goto, disk
<1>2. JournalOK(journal', tornEnd', checkpoint', cut', "restore" # "append")
  BY <1>1, KnownFiles
<1>3. WriterOK("restore", mem[w], todo[w], journal', tornEnd', checkpoint', cut')
  BY NotInside
<1> QED BY <1>1, <1>2, <1>3, Known, Stepped DEF Places

LEMMA RenewKeeps ==
  ASSUME SessionInv, NEW w \in Writers, Alone(w), Renew(w)
  PROVE  SessionInv'
<1>1. /\ pc[w] = "renew" /\ pc' = [pc EXCEPT ![w] = "ready"]
      /\ UNCHANGED <<journal, tornEnd, checkpoint, mem, todo, processes, cut>>
      /\ lease' \in [token : Writers \cup {None}, live : BOOLEAN]
  BY DEF Renew, Goto, disk
<1>2. JournalOK(journal', tornEnd', checkpoint', cut', "ready" # "append")
  BY <1>1, KnownFiles
<1>3. WriterOK("ready", mem[w], todo[w], journal', tornEnd', checkpoint', cut')
  BY <1>1, KnownFiles DEF WriterOK, Running
<1> QED BY <1>1, <1>2, <1>3, Known, Stepped DEF Places

LEMMA RestoreKeeps ==
  ASSUME SessionInv, NEW w \in Writers, Alone(w), Restore(w)
  PROVE  SessionInv'
<1> DEFINE m == [checkpoint EXCEPT !.status = "stopped"]
<1>1. /\ pc[w] = "restore" /\ pc' = [pc EXCEPT ![w] = "replay"]
      /\ mem' = [mem EXCEPT ![w] = m] /\ todo' = [todo EXCEPT ![w] = journal]
      /\ UNCHANGED <<journal, tornEnd, checkpoint, lease, processes, cut>>
  BY DEF Restore, Goto, Remember, disk
<1>2. /\ m \in SessionType /\ m.ticks = checkpoint.ticks /\ m.seq = checkpoint.seq
      /\ m.fills = checkpoint.fills /\ m.breakers = checkpoint.breakers
      /\ m.orders = checkpoint.orders /\ m.status = "stopped"
  <2>1. checkpoint \in SessionType
    BY Known
  <2>2. \A b \in Status : /\ [checkpoint EXCEPT !.status = b] \in SessionType
                          /\ [checkpoint EXCEPT !.status = b].ticks = checkpoint.ticks
                          /\ [checkpoint EXCEPT !.status = b].seq = checkpoint.seq
                          /\ [checkpoint EXCEPT !.status = b].fills = checkpoint.fills
                          /\ [checkpoint EXCEPT !.status = b].breakers = checkpoint.breakers
                          /\ [checkpoint EXCEPT !.status = b].orders = checkpoint.orders
                          /\ [checkpoint EXCEPT !.status = b].status = b
    BY <2>1 DEF SessionType
  <2>3. "stopped" \in Status
    BY DEF Status
  <2> QED BY <2>2, <2>3
<1> HIDE DEF m
<1>3. JournalOK(journal', tornEnd', checkpoint', cut', "replay" # "append")
  BY <1>1, KnownFiles
<1>4. Agrees(journal, m) /\ (tornEnd \/ Backed(journal, m))
  BY <1>2, KnownFiles DEF JournalOK, Agrees, Backed
<1>5. Replaying(journal, journal, m)
  <2>1. Len(journal) \in Nat /\ m.orders = <<>> /\ m.status # "running"
    BY <1>2, Known
  <2> QED BY <2>1 DEF Replaying
<1>6. Ahead(checkpoint, m)
  BY <1>2, Known DEF Ahead, SessionType
<1>7. WriterOK("replay", m, journal, journal', tornEnd', checkpoint', cut')
  BY <1>1, <1>2, <1>4, <1>5, <1>6 DEF WriterOK, Running
<1> QED BY <1>1, <1>2, <1>3, <1>7, Known, Stepped DEF Places

LEMMA ReplayKeeps ==
  ASSUME SessionInv, NEW w \in Writers, Alone(w), Replay(w)
  PROVE  SessionInv'
<1> DEFINE r == Head(todo[w])
           n == IF r.seq <= mem[w].seq \/ r.kind # "tick" THEN mem[w]
                ELSE AfterTick([mem[w] EXCEPT !.seq = Max2(@, r.seq)], r.tick)
<1>1. /\ pc[w] = "replay" /\ pc' = [pc EXCEPT ![w] = "replay"] /\ todo[w] # <<>>
      /\ mem' = [mem EXCEPT ![w] = n] /\ todo' = [todo EXCEPT ![w] = Tail(todo[w])]
      /\ UNCHANGED <<journal, tornEnd, checkpoint, lease, processes, cut>>
  <2>1. /\ pc[w] = "replay" /\ pc' = [pc EXCEPT ![w] = "replay"] /\ todo[w] # <<>>
        /\ todo' = [todo EXCEPT ![w] = Tail(todo[w])]
        /\ UNCHANGED <<journal, tornEnd, checkpoint, lease, processes, cut>>
    BY Known DEF Replay, disk
  <2>2. mem' = [mem EXCEPT ![w] = n]
    <3>1. mem = [mem EXCEPT ![w] = mem[w]]
      BY Known
    <3> QED BY <3>1, Zenon DEF Replay, Remember
  <2> QED BY <2>1, <2>2
<1>2. /\ mem[w] \in SessionType /\ EachOnce(mem[w].ticks) /\ todo[w] \in Seq(Record)
      /\ journal \in Seq(Record) /\ checkpoint \in SessionType /\ Tail(todo[w]) \in Seq(Record)
  BY <1>1, Known
<1>3. /\ TicksInOrder(journal) /\ Agrees(journal, mem[w]) /\ Replaying(journal, todo[w], mem[w])
      /\ Ahead(checkpoint, mem[w]) /\ (tornEnd \/ Backed(journal, mem[w]))
      /\ ~cut => mem[w].fills = checkpoint.fills
      /\ checkpoint.breakers => Covers(journal, checkpoint)
      /\ JournalOK(journal, tornEnd, checkpoint, cut, TRUE)
  BY <1>1, KnownFiles DEF JournalOK, WriterOK
<1>4. /\ n \in SessionType /\ EachOnce(n.ticks) /\ n.fills = mem[w].fills
      /\ Agrees(journal, n) /\ Replaying(journal, Tail(todo[w]), n)
      /\ Backed(journal, mem[w]) => Backed(journal, n)
      /\ Len(mem[w].ticks) <= Len(n.ticks) /\ mem[w].seq <= n.seq
      /\ mem[w].breakers => n.breakers
      /\ Covers(journal, mem[w]) => n = mem[w]
  BY <1>1, <1>2, <1>3, ReplayStep
<1> HIDE DEF n
<1>5. Ahead(checkpoint, n)
  <2>1. CASE checkpoint.breakers
    BY <1>2, <1>3, <1>4, <2>1, CoversAhead
  <2>2. CASE ~checkpoint.breakers
    <3>1. /\ checkpoint.seq \in Nat /\ mem[w].seq \in Nat /\ n.seq \in Nat
          /\ Len(checkpoint.ticks) \in Nat /\ Len(mem[w].ticks) \in Nat /\ Len(n.ticks) \in Nat
      BY <1>2, <1>4 DEF SessionType
    <3> QED BY <1>3, <1>4, <2>2, <3>1 DEF Ahead
  <2> QED BY <2>1, <2>2
<1>6. WriterOK("replay", n, Tail(todo[w]), journal', tornEnd', checkpoint', cut')
  BY <1>1, <1>3, <1>4, <1>5 DEF WriterOK, Running
<1>7. JournalOK(journal', tornEnd', checkpoint', cut', "replay" # "append")
  BY <1>1, <1>3
<1> QED BY <1>1, <1>2, <1>4, <1>6, <1>7, Known, Stepped DEF Places

\* A status alone.
LEMMA OtherStatus ==
  ASSUME NEW m \in SessionType, NEW st \in Status
  PROVE  /\ [m EXCEPT !.status = st] \in SessionType
         /\ [m EXCEPT !.status = st].ticks = m.ticks /\ [m EXCEPT !.status = st].seq = m.seq
         /\ [m EXCEPT !.status = st].fills = m.fills /\ [m EXCEPT !.status = st].orders = m.orders
         /\ [m EXCEPT !.status = st].breakers = m.breakers
         /\ [m EXCEPT !.status = st].status = st
BY DEF SessionType

LEMMA ResumedKeeps ==
  ASSUME SessionInv, NEW w \in Writers, Alone(w), Resumed(w)
  PROVE  SessionInv'
<1> DEFINE st == IF mem[w].breakers THEN "halted"
                 ELSE IF checkpoint.status = "stopped" THEN "running" ELSE checkpoint.status
           n == [mem[w] EXCEPT !.status = st]
<1>1. /\ pc[w] = "replay" /\ pc' = [pc EXCEPT ![w] = "save"] /\ todo[w] = <<>>
      /\ mem' = [mem EXCEPT ![w] = n] /\ todo' = [todo EXCEPT ![w] = todo[w]]
      /\ UNCHANGED <<journal, tornEnd, checkpoint, lease, processes, cut>>
  BY Known DEF Resumed, Goto, Remember, disk
<1>2. /\ mem[w] \in SessionType /\ EachOnce(mem[w].ticks) /\ todo[w] \in Seq(Record)
      /\ journal \in Seq(Record) /\ checkpoint \in SessionType
  BY Known
<1>3. st \in Status /\ (mem[w].breakers => st = "halted")
  BY <1>2 DEF SessionType, Status
<1> HIDE DEF st
<1>4. /\ n \in SessionType /\ n.ticks = mem[w].ticks /\ n.seq = mem[w].seq
      /\ n.fills = mem[w].fills /\ n.breakers = mem[w].breakers /\ n.status = st
  BY <1>2, <1>3, OtherStatus
<1> HIDE DEF n
<1>5. /\ Agrees(journal, mem[w]) /\ Replaying(journal, todo[w], mem[w])
      /\ Ahead(checkpoint, mem[w]) /\ (tornEnd \/ Backed(journal, mem[w]))
      /\ ~cut => mem[w].fills = checkpoint.fills
      /\ JournalOK(journal, tornEnd, checkpoint, cut, TRUE)
  BY <1>1, KnownFiles DEF JournalOK, WriterOK
<1>6. Covers(journal, n)
  <2>1. Len(todo[w]) = 0 /\ DOMAIN journal = 1..Len(journal) /\ Len(journal) \in Nat
    BY <1>1, <1>2
  <2>2. \A j \in DOMAIN journal : IsTick(journal[j]) => journal[j].tick <= Len(mem[w].ticks)
    BY <1>5, <2>1 DEF Replaying
  <2> QED BY <1>4, <1>5, <2>2 DEF Covers, Agrees
<1>7. Ahead(checkpoint, n) /\ (tornEnd \/ Backed(journal, n))
  BY <1>4, <1>5 DEF Ahead, Backed
<1>8. WriterOK("save", n, todo[w], journal', tornEnd', checkpoint', cut')
  BY <1>1, <1>3, <1>4, <1>5, <1>6, <1>7 DEF WriterOK, Running
<1>9. JournalOK(journal', tornEnd', checkpoint', cut', "save" # "append")
  BY <1>1, <1>5
<1> QED BY <1>1, <1>2, <1>4, <1>8, <1>9, Known, Stepped DEF Places

\* The checkpoint becomes the session in memory: resume, advance and stop end with it.
LEMMA CheckpointKeeps ==
  ASSUME SessionInv, NEW w \in Writers, Alone(w), NEW p \in {"ready", "renew", "release"},
         pc[w] \in {"save", "stop"} \/ (pc[w] = "append" /\ todo[w] = <<>>),
         pc' = [pc EXCEPT ![w] = p], checkpoint' = Saved(mem[w]),
         UNCHANGED <<journal, tornEnd, lease, mem, todo, processes, cut>>
  PROVE  SessionInv'
<1>1. /\ mem[w] \in SessionType /\ EachOnce(mem[w].ticks) /\ todo[w] \in Seq(Record)
      /\ journal \in Seq(Record) /\ checkpoint \in SessionType /\ cut \in BOOLEAN
      /\ mem' = [mem EXCEPT ![w] = mem[w]] /\ todo' = [todo EXCEPT ![w] = todo[w]]
  BY Known
<1>2. /\ checkpoint' \in SessionType /\ checkpoint'.orders = <<>>
      /\ checkpoint'.ticks = mem[w].ticks /\ checkpoint'.seq = mem[w].seq
      /\ checkpoint'.fills = mem[w].fills /\ checkpoint'.breakers = mem[w].breakers
      /\ Agrees(journal, checkpoint') <=> Agrees(journal, mem[w])
      /\ Covers(journal, checkpoint') <=> Covers(journal, mem[w])
      /\ Backed(journal, checkpoint') <=> Backed(journal, mem[w])
  BY <1>1, SavedFacts
<1>3. /\ Covers(journal, mem[w]) /\ (tornEnd \/ Backed(journal, mem[w]))
      /\ mem[w].breakers => mem[w].status = "halted"
      /\ TicksInOrder(journal) /\ (~cut => ~tornEnd)
  BY KnownFiles DEF JournalOK, WriterOK, Running
<1>4. Agrees(journal, mem[w])
  BY <1>1, <1>3, CoversAgrees
<1>5. ASSUME ~cut PROVE FillsIn(journal) = mem[w].fills
  <2>1. CASE pc[w] \in {"save", "stop"}
    BY <1>5, <2>1, KnownFiles DEF JournalOK, WriterOK, Running
  <2>2. CASE pc[w] = "append" /\ todo[w] = <<>>
    <3>1. Pending(journal, todo[w], mem[w])
      BY <1>5, <2>2, KnownFiles DEF WriterOK
    <3>2. mem[w].fills = FillsIn(journal) \o <<>>
      <4>1. PICK n \in 0..Len(todo[w]) : mem[w].fills = FillsIn(journal) \o [i \in 1..n |-> todo[w][i].fill]
        BY <3>1 DEF Pending
      <4>2. n = 0
        BY <2>2, <4>1
      <4>3. [i \in 1..0 |-> todo[w][i].fill] = <<>>
        OBVIOUS
      <4> QED BY <4>1, <4>2, <4>3
    <3>3. FillsIn(journal) \in Seq(Fill \cup {None})
      <4>1. Rec("started", 0, 0, None) \in Record
        BY DEF Rec, Record
      <4> QED BY <1>1, <4>1, FillsAppended
    <3> QED BY <3>2, <3>3
  <2> QED BY <2>1, <2>2
<1>6. JournalOK(journal', tornEnd', checkpoint', cut', p # "append")
  BY <1>2, <1>3, <1>4, <1>5 DEF JournalOK
<1>7. Ahead(checkpoint', mem[w])
  BY <1>1, <1>2 DEF Ahead, SessionType
<1>8. WriterOK(p, mem[w], todo[w], journal', tornEnd', checkpoint', cut')
  BY <1>2, <1>3, <1>7 DEF WriterOK, Running
<1>9. p \in Places
  BY DEF Places
<1>10. journal' \in Seq(Record) /\ tornEnd' \in BOOLEAN /\ cut' \in BOOLEAN
       /\ processes' \in 0..MaxOpened /\ lease' \in [token : Writers \cup {None}, live : BOOLEAN]
       /\ EachOnce(checkpoint'.ticks)
  BY <1>1, <1>2, Known
<1> QED BY <1>1, <1>2, <1>6, <1>8, <1>9, <1>10, Stepped

\* A session that took another number.
LEMMA NextNumber ==
  ASSUME NEW m \in SessionType
  PROVE  /\ [m EXCEPT !.seq = @ + 1] \in SessionType
         /\ [m EXCEPT !.seq = @ + 1].seq = m.seq + 1 /\ m.seq \in Nat
         /\ [m EXCEPT !.seq = @ + 1].ticks = m.ticks /\ [m EXCEPT !.seq = @ + 1].fills = m.fills
         /\ [m EXCEPT !.seq = @ + 1].orders = m.orders
         /\ [m EXCEPT !.seq = @ + 1].breakers = m.breakers
         /\ [m EXCEPT !.seq = @ + 1].status = m.status
<1>1. m.seq + 1 \in Nat /\ m.seq \in Nat
  BY DEF SessionType
<1>2. \A q \in Nat :
         /\ [m EXCEPT !.seq = q] \in SessionType /\ [m EXCEPT !.seq = q].seq = q
         /\ [m EXCEPT !.seq = q].ticks = m.ticks /\ [m EXCEPT !.seq = q].fills = m.fills
         /\ [m EXCEPT !.seq = q].orders = m.orders
         /\ [m EXCEPT !.seq = q].breakers = m.breakers
         /\ [m EXCEPT !.seq = q].status = m.status
  BY DEF SessionType
<1>3. [m EXCEPT !.seq = @ + 1] = [m EXCEPT !.seq = m.seq + 1]
  OBVIOUS
<1> QED BY <1>1, <1>2, <1>3

\* The last tick of a session that has each once is their number.
LEMMA LastIsLen ==
  ASSUME NEW m \in SessionType, EachOnce(m.ticks)
  PROVE  LastOf(m) = Len(m.ticks) /\ Len(m.ticks) \in Nat
<1>1. m.ticks \in Seq(Ticks)
  BY DEF SessionType
<1>2. CASE m.ticks = <<>>
  BY <1>1, <1>2 DEF LastOf
<1>3. CASE m.ticks # <<>>
  <2>1. Len(m.ticks) \in DOMAIN m.ticks
    BY <1>1, <1>3
  <2> QED BY <1>1, <1>3, <2>1 DEF LastOf, EachOnce
<1> QED BY <1>2, <1>3

LEMMA FeedKeeps ==
  ASSUME SessionInv, NEW w \in Writers, Alone(w), Feed(w)
  PROVE  SessionInv'
<1> DEFINE m0 == mem[w]
           t == LastOf(m0) + 1
           m == [m0 EXCEPT !.seq = @ + 1]
           n == AfterTick(m, t)
           r == Rec("tick", m.seq, t, None)
           td == Appended(m, t)
<1>1. /\ pc[w] = "ready" /\ m0.status = "running" /\ LastOf(m0) < LastTick
      /\ pc' = [pc EXCEPT ![w] = "append"] /\ Write(r)
      /\ mem' = [mem EXCEPT ![w] = n] /\ todo' = [todo EXCEPT ![w] = td]
      /\ UNCHANGED <<tornEnd, checkpoint, lease, processes, cut>>
  BY DEF Feed, Goto, Remember
<1>2. /\ m0 \in SessionType /\ EachOnce(m0.ticks) /\ tornEnd \in BOOLEAN /\ cut \in BOOLEAN
      /\ journal \in Seq(Record) /\ checkpoint \in SessionType
  BY Known
<1> HIDE DEF m0
<1>3. /\ m \in SessionType /\ m.seq = m0.seq + 1 /\ m.ticks = m0.ticks /\ m.fills = m0.fills
      /\ m.orders = m0.orders /\ m.breakers = m0.breakers /\ m.status = m0.status
      /\ m0.seq \in Nat /\ m.seq \in Nat
  BY <1>2, NextNumber
<1>4. LastOf(m0) = Len(m0.ticks) /\ Len(m0.ticks) \in Nat /\ t \in Ticks /\ t = Len(m0.ticks) + 1
  BY <1>1, <1>2, LastIsLen, SessionConstants DEF Ticks
<1> HIDE DEF m, t
<1>5. r \in Record /\ IsTick(r) /\ r.tick = t /\ r.seq = m.seq /\ r.kind # "fill"
  BY <1>3, <1>4 DEF Rec, Record, IsTick
<1>6. /\ n \in SessionType /\ n.ticks = Append(m.ticks, t)
      /\ n.fills = m.fills \o Match(m.orders, t) /\ n.seq >= m.seq
      /\ n.breakers = (m.breakers \/ t \in market.gaps)
      /\ n.status = IF t \in market.gaps THEN "halted" ELSE m.status
  BY <1>3, <1>4, AfterTickFacts
<1>7. /\ td \in Seq(Record) /\ Len(m.orders) \in 0..Len(td)
      /\ \A i \in DOMAIN td : td[i].kind = IF i <= Len(m.orders) THEN "fill" ELSE "order"
      /\ \A i \in 1..Len(m.orders) : td[i].fill = Match(m.orders, t)[i]
  BY <1>3, <1>4, AppendedFacts
<1> HIDE DEF n, td, r
<1>8. Len(n.ticks) = t /\ EachOnce(n.ticks)
  <2>1. m0.ticks \in Seq(Ticks)
    BY <1>2 DEF SessionType
  <2>2. Len(Append(m0.ticks, t)) = t
    BY <1>4, <2>1
  <2>3. EachOnce(Append(m0.ticks, t))
    BY <1>2, <1>4, <2>1, NextInOrder
  <2> QED BY <1>3, <1>6, <2>2, <2>3
<1>9. /\ TicksInOrder(journal) /\ Covers(journal, m0) /\ (tornEnd \/ Backed(journal, m0))
      /\ Agrees(journal, checkpoint) /\ (tornEnd \/ Backed(journal, checkpoint))
      /\ Ahead(checkpoint, m0) /\ (m0.breakers => m0.status = "halted")
      /\ (~cut => ~tornEnd /\ m0.fills = checkpoint.fills /\ FillsIn(journal) = checkpoint.fills)
  BY <1>1, KnownFiles DEF JournalOK, WriterOK, Running, m0
<1>10. ~m0.breakers /\ ~checkpoint.breakers /\ ~m.breakers
  BY <1>1, <1>3, <1>9 DEF Ahead
<1>11. /\ Len(checkpoint.ticks) \in Nat /\ checkpoint.seq \in Nat /\ n.seq \in Nat
       /\ Len(checkpoint.ticks) <= Len(m0.ticks) /\ checkpoint.seq <= m0.seq
  BY <1>2, <1>6, <1>9 DEF Ahead, SessionType
<1>12. Ahead(checkpoint, n)
  BY <1>3, <1>4, <1>6, <1>8, <1>10, <1>11 DEF Ahead
<1>13. /\ journal' \in Seq(Record) /\ TicksInOrder(journal') /\ Covers(journal', n)
       /\ Agrees(journal', checkpoint)
       /\ (tornEnd \/ Backed(journal', n)) /\ (tornEnd \/ Backed(journal', checkpoint))
  <2>1. CASE tornEnd
    <3>1. journal' = journal
      BY <1>1, <2>1 DEF Write
    <3>2. \A j \in DOMAIN journal : journal[j].seq \in Nat /\ journal[j].tick \in Nat
      <4>1. \A x \in Record : x.seq \in Nat /\ x.tick \in Nat
        BY SessionConstants DEF Record, Ticks
      <4> QED BY <1>2, <4>1
    <3>3. Covers(journal, n)
      BY <1>3, <1>4, <1>6, <1>8, <1>9, <1>11, <3>2 DEF Covers
    <3> QED BY <1>2, <1>9, <2>1, <3>1, <3>3
  <2>2. CASE ~tornEnd
    <3>1. journal' = Append(journal, r)
      BY <1>1, <2>2 DEF Write
    <3>2. /\ TicksInOrder(Append(journal, r))
          /\ Covers(Append(journal, r), n) /\ Backed(Append(journal, r), n)
          /\ Agrees(Append(journal, r), checkpoint) /\ Backed(Append(journal, r), checkpoint)
      BY <1>2, <1>3, <1>4, <1>5, <1>6, <1>8, <1>9, <1>11, <2>2, AppendTick
    <3>3. Append(journal, r) \in Seq(Record)
      BY <1>2, <1>5
    <3> QED BY <3>1, <3>2, <3>3
  <2> QED BY <2>1, <2>2
<1>14. ASSUME ~cut PROVE Pending(journal', td, n)
  <2>1. journal' = Append(journal, r)
    BY <1>1, <1>9, <1>14 DEF Write
  <2>2. FillsIn(journal') = m.fills
    BY <1>2, <1>3, <1>5, <1>9, <1>14, <2>1, FillsAppended DEF Reads
  <2> DEFINE k == Len(m.orders)
  <2>3. /\ Match(m.orders, t) \in Seq(Fill) /\ Len(Match(m.orders, t)) = k /\ k \in Nat
    <3>1. m.orders \in Seq(Order)
      BY <1>3 DEF SessionType
    <3> QED BY <1>4, <3>1, MatchType
  <2>4. k \in 0..Len(td) /\ DOMAIN td = 1..Len(td)
    BY <1>7
  <2> HIDE DEF k
  <2>5. Match(m.orders, t) = [i \in 1..k |-> td[i].fill]
    <3>1. Match(m.orders, t) = [i \in 1..k |-> Match(m.orders, t)[i]]
      BY <2>3
    <3>2. \A i \in 1..k : td[i].fill = Match(m.orders, t)[i]
      BY <1>7 DEF k
    <3> QED BY <3>1, <3>2
  <2>6. n.fills = FillsIn(journal') \o [i \in 1..k |-> td[i].fill]
    BY <1>6, <2>2, <2>5
  <2>7. \A i \in 1..k : td[i].kind = "fill"
    BY <1>7, <2>3, <2>4 DEF k
  <2>8. \A i \in (k + 1)..Len(td) : td[i].kind # "fill"
    BY <1>7, <2>3, <2>4 DEF k
  <2> QED BY <2>4, <2>6, <2>7, <2>8 DEF Pending
<1>15. Appending(td)
  BY <1>7 DEF Appending, IsTick
<1>16. n.breakers => n.status = "halted"
  BY <1>6, <1>10
<1>17. WriterOK("append", n, td, journal', tornEnd', checkpoint', cut')
  BY <1>1, <1>10, <1>12, <1>13, <1>14, <1>15, <1>16 DEF WriterOK, Running
<1>18. JournalOK(journal', tornEnd', checkpoint', cut', "append" # "append")
  BY <1>1, <1>9, <1>10, <1>13 DEF JournalOK
<1> QED BY <1>1, <1>6, <1>7, <1>8, <1>13, <1>17, <1>18, Known, Stepped DEF Places

LEMMA ConcatFacts ==
  ASSUME NEW S, NEW s \in Seq(S), NEW t \in Seq(S)
  PROVE  /\ s \o t \in Seq(S) /\ Len(s \o t) = Len(s) + Len(t)
         /\ \A i \in 1..(Len(s) + Len(t)) : (s \o t)[i] = IF i <= Len(s) THEN s[i] ELSE t[i - Len(s)]
OBVIOUS

\* The first of what is to follow a sequence becomes its last.
LEMMA Shifted ==
  ASSUME NEW S, NEW f \in Seq(S), NEW s \in Seq(S), s # <<>>
  PROVE  f \o s = Append(f, Head(s)) \o Tail(s)
<1> DEFINE k == Len(s)
           x == Head(s)
           t == Tail(s)
<1>0. /\ k \in Nat /\ k # 0 /\ t \in Seq(S) /\ Len(t) = k - 1 /\ s[1] = x /\ x \in S
      /\ \A i \in 1..(k - 1) : t[i] = s[i + 1]
  OBVIOUS
<1> DEFINE l == f \o s
           g == Append(f, x)
           h == g \o t
           N == Len(f)
<1> HIDE DEF k, x, t
<1>1. N \in Nat /\ g \in Seq(S) /\ Len(g) = N + 1 /\ g[N + 1] = x /\ \A i \in 1..N : g[i] = f[i]
  BY <1>0
<1>2. l \in Seq(S) /\ Len(l) = N + k /\ \A i \in 1..(N + k) : l[i] = IF i <= N THEN f[i] ELSE s[i - N]
  BY <1>0, ConcatFacts DEF k
<1> HIDE DEF g
<1>3. h \in Seq(S) /\ Len(h) = N + k
      /\ \A i \in 1..(N + k) : h[i] = IF i <= N + 1 THEN g[i] ELSE t[i - (N + 1)]
  <2>1. h \in Seq(S) /\ Len(h) = Len(g) + Len(t)
        /\ \A i \in 1..(Len(g) + Len(t)) : h[i] = IF i <= Len(g) THEN g[i] ELSE t[i - Len(g)]
    BY <1>0, <1>1, ConcatFacts
  <2>2. Len(g) + Len(t) = N + k
    BY <1>0, <1>1
  <2> QED BY <1>1, <2>1, <2>2
<1> HIDE DEF l, h, N
<1>4. ASSUME NEW i \in 1..(N + k) PROVE l[i] = h[i]
  <2>1. CASE i <= N
    BY <1>1, <1>2, <1>3, <2>1
  <2>2. CASE i = N + 1
    BY <1>0, <1>1, <1>2, <1>3, <2>2
  <2>3. CASE i > N + 1
    <3>1. i - (N + 1) \in 1..(k - 1) /\ (i - (N + 1)) + 1 = i - N
      BY <1>0, <1>1, <2>3
    <3>2. t[i - (N + 1)] = s[i - N]
      BY <1>0, <3>1
    <3> QED BY <1>1, <1>2, <1>3, <2>3, <3>2
  <2> QED BY <1>0, <1>1, <2>1, <2>2, <2>3
<1>5. l = h
  BY <1>0, <1>1, <1>2, <1>3, <1>4
<1> QED BY <1>5 DEF l, h, g, x, t

LEMMA AppendNextKeeps ==
  ASSUME SessionInv, NEW w \in Writers, Alone(w), AppendNext(w)
  PROVE  SessionInv'
<1> DEFINE td == todo[w]
           r == Head(td)
           m == mem[w]
<1>1. /\ pc[w] = "append" /\ td # <<>> /\ pc' = [pc EXCEPT ![w] = "append"] /\ Write(r)
      /\ mem' = [mem EXCEPT ![w] = m] /\ todo' = [todo EXCEPT ![w] = Tail(td)]
      /\ UNCHANGED <<tornEnd, checkpoint, lease, processes, cut>>
  BY Known DEF AppendNext
<1>2. /\ m \in SessionType /\ EachOnce(m.ticks) /\ tornEnd \in BOOLEAN /\ cut \in BOOLEAN
      /\ journal \in Seq(Record) /\ checkpoint \in SessionType /\ td \in Seq(Record)
  BY Known
<1>3. /\ Ahead(checkpoint, m) /\ (tornEnd \/ Backed(journal, m)) /\ Covers(journal, m)
      /\ (m.breakers => m.status = "halted") /\ ~checkpoint.breakers /\ Appending(td)
      /\ (~cut => Pending(journal, td, m))
      /\ JournalOK(journal, tornEnd, checkpoint, cut, FALSE)
  BY <1>1, KnownFiles DEF WriterOK, Running, JournalOK
<1> HIDE DEF m, td
<1>4. /\ r \in Record /\ ~IsTick(r) /\ r = td[1] /\ Tail(td) \in Seq(Record)
      /\ Len(Tail(td)) = Len(td) - 1 /\ Len(td) \in Nat /\ Len(td) >= 1
      /\ \A i \in 1..Len(Tail(td)) : Tail(td)[i] = td[i + 1]
  <2>1. /\ r \in Record /\ r = td[1] /\ Tail(td) \in Seq(Record)
        /\ Len(Tail(td)) = Len(td) - 1 /\ Len(td) \in Nat /\ Len(td) >= 1
        /\ \A i \in 1..Len(Tail(td)) : Tail(td)[i] = td[i + 1]
        /\ 1 \in DOMAIN td
    BY <1>1, <1>2
  <2> QED BY <1>3, <2>1 DEF Appending
<1> HIDE DEF r
<1>5. /\ journal' \in Seq(Record) /\ TicksInOrder(journal') /\ Covers(journal', m)
      /\ Agrees(journal', checkpoint)
      /\ (tornEnd \/ Backed(journal', m)) /\ (tornEnd \/ Backed(journal', checkpoint))
  <2>1. CASE tornEnd
    BY <1>1, <1>2, <1>3, <2>1 DEF Write, JournalOK
  <2>2. CASE ~tornEnd
    <3>1. journal' = Append(journal, r) /\ Append(journal, r) \in Seq(Record)
      BY <1>1, <1>2, <1>4, <2>2 DEF Write
    <3> QED BY <1>2, <1>3, <1>4, <2>2, <3>1, AppendOther DEF JournalOK
  <2> QED BY <2>1, <2>2
<1>6. \A i \in DOMAIN Tail(td) : ~IsTick(Tail(td)[i])
  <2>1. \A i \in DOMAIN Tail(td) : i + 1 \in DOMAIN td /\ Tail(td)[i] = td[i + 1]
    BY <1>2, <1>4
  <2> QED BY <1>3, <2>1 DEF Appending
<1>7. ASSUME ~cut PROVE Pending(journal', Tail(td), m)
  <2>1. journal' = Append(journal, r)
    BY <1>1, <1>3, <1>7 DEF Write, JournalOK
  <2>2. /\ FillsIn(journal) \in Seq(Fill \cup {None})
        /\ FillsIn(journal') = Reads(FillsIn(journal), r)
    BY <1>2, <1>4, <2>1, FillsAppended
  <2>3. PICK k \in 0..Len(td) :
            /\ \A i \in 1..k : td[i].kind = "fill"
            /\ \A i \in (k + 1)..Len(td) : td[i].kind # "fill"
            /\ m.fills = FillsIn(journal) \o [i \in 1..k |-> td[i].fill]
    BY <1>3, <1>7 DEF Pending
  <2>4. CASE k = 0
    <3>1. 1 \in (k + 1)..Len(td)
      BY <1>4, <2>4
    <3>2. r.kind # "fill"
      BY <1>4, <2>3, <3>1
    <3>3. FillsIn(journal') = FillsIn(journal)
      BY <2>2, <3>2 DEF Reads
    <3>4. [i \in 1..0 |-> td[i].fill] = <<>> /\ [i \in 1..0 |-> Tail(td)[i].fill] = <<>>
      OBVIOUS
    <3>5. m.fills = FillsIn(journal') \o [i \in 1..0 |-> Tail(td)[i].fill]
      BY <2>3, <2>4, <3>3, <3>4
    <3>6. \A i \in 1..Len(Tail(td)) : Tail(td)[i].kind # "fill"
      BY <1>4, <2>3, <2>4
    <3>7. 0 \in 0..Len(Tail(td)) /\ 0 + 1 = 1 /\ (\A i \in 1..0 : Tail(td)[i].kind = "fill")
      BY <1>4
    <3> QED BY <3>5, <3>6, <3>7 DEF Pending
  <2>5. CASE k # 0
    <3>1. k \in Nat /\ k - 1 \in Nat /\ k - 1 \in 0..Len(Tail(td)) /\ 1 \in 1..k /\ (k - 1) + 1 = k
      BY <1>4, <2>5
    <3>2. r.kind = "fill" /\ r.fill = td[1].fill /\ r.fill \in Fill \cup {None}
      BY <1>4, <2>3, <3>1 DEF Record
    <3>3. FillsIn(journal') = Append(FillsIn(journal), r.fill)
      BY <2>2, <3>2 DEF Reads
    <3>4. \A i \in 1..(k - 1) : Tail(td)[i] = td[i + 1] /\ i + 1 \in 1..k
      BY <1>4, <3>1
    <3>5. \A i \in 1..k : td[i].fill \in Fill \cup {None}
      <4>1. \A x \in Record : x.fill \in Fill \cup {None}
        BY DEF Record
      <4>2. \A i \in 1..k : td[i] \in Record
        BY <1>2, <1>4
      <4> QED BY <4>1, <4>2
    <3> DEFINE all == [i \in 1..k |-> td[i].fill]
               rest == [i \in 1..(k - 1) |-> Tail(td)[i].fill]
    <3>6. all \in Seq(Fill \cup {None}) /\ Len(all) = k
      BY <3>1, <3>5
    <3>7. rest \in Seq(Fill \cup {None}) /\ Len(rest) = k - 1
      BY <3>1, <3>4, <3>5
    <3>8. all[1] = r.fill /\ \A i \in 1..(k - 1) : rest[i] = all[i + 1]
      BY <3>1, <3>2, <3>4
    <3> HIDE DEF all, rest
    <3>9. FillsIn(journal) \o all = Append(FillsIn(journal), r.fill) \o rest
      <4>1. all # <<>> /\ Head(all) = r.fill
        BY <2>5, <3>1, <3>6, <3>8
      <4>2. rest = Tail(all)
        BY <3>1, <3>6, <3>7, <3>8
      <4> QED BY <2>2, <3>6, <4>1, <4>2, Shifted
    <3>10. m.fills = FillsIn(journal') \o rest
      BY <2>3, <3>3, <3>9 DEF all
    <3>11. \A i \in 1..(k - 1) : Tail(td)[i].kind = "fill"
      BY <2>3, <3>4
    <3>12. \A i \in k..Len(Tail(td)) : Tail(td)[i].kind # "fill"
      BY <1>4, <2>3, <3>1
    <3> QED BY <3>1, <3>10, <3>11, <3>12 DEF Pending, rest
  <2> QED BY <2>3, <2>4, <2>5
<1>8. WriterOK("append", m, Tail(td), journal', tornEnd', checkpoint', cut')
  BY <1>1, <1>3, <1>5, <1>6, <1>7 DEF WriterOK, Running, Appending
<1>9. JournalOK(journal', tornEnd', checkpoint', cut', "append" # "append")
  BY <1>1, <1>3, <1>5 DEF JournalOK
<1> QED BY <1>1, <1>2, <1>4, <1>5, <1>8, <1>9, Known, Stepped DEF Places

LEMMA WriteCheckpointKeeps ==
  ASSUME SessionInv, NEW w \in Writers, Alone(w),
         Save(w) \/ WriteCheckpoint(w) \/ SaveStopped(w)
  PROVE  SessionInv'
<1>1. \/ pc[w] \in {"save", "stop"} \/ (pc[w] = "append" /\ todo[w] = <<>>)
  BY DEF Save, WriteCheckpoint, SaveStopped
<1>2. /\ checkpoint' = Saved(mem[w])
      /\ UNCHANGED <<journal, tornEnd, lease, mem, todo, processes, cut>>
  BY DEF Save, WriteCheckpoint, SaveStopped
<1>3. \E p \in {"ready", "renew", "release"} : pc' = [pc EXCEPT ![w] = p]
  BY DEF Save, WriteCheckpoint, SaveStopped, Goto
<1> QED BY <1>1, <1>2, <1>3, CheckpointKeeps

LEMMA ReportKeeps ==
  ASSUME SessionInv, NEW w \in Writers, Alone(w), Report(w)
  PROVE  SessionInv'
<1> DEFINE m == mem[w]
           n == [m EXCEPT !.breakers = TRUE, !.status = "halted"]
<1>1. /\ pc[w] = "ready" /\ pc' = [pc EXCEPT ![w] = "ready"]
      /\ mem' = [mem EXCEPT ![w] = n] /\ todo' = [todo EXCEPT ![w] = todo[w]]
      /\ UNCHANGED <<journal, tornEnd, checkpoint, lease, processes, cut>>
  BY Known DEF Report, Remember, disk
<1>2. m \in SessionType /\ EachOnce(m.ticks) /\ todo[w] \in Seq(Record)
  BY Known
<1>3. /\ Ahead(checkpoint, m) /\ (tornEnd \/ Backed(journal, m)) /\ Covers(journal, m)
      /\ (~cut => m.fills = checkpoint.fills)
      /\ JournalOK(journal, tornEnd, checkpoint, cut, TRUE)
  BY <1>1, KnownFiles DEF WriterOK, Running, JournalOK
<1> HIDE DEF m
<1>4. /\ n \in SessionType /\ n.ticks = m.ticks /\ n.seq = m.seq /\ n.fills = m.fills
      /\ n.breakers = TRUE /\ n.status = "halted"
  BY <1>2 DEF SessionType, Status
<1> HIDE DEF n
<1>5. Ahead(checkpoint, n) /\ (tornEnd \/ Backed(journal, n)) /\ Covers(journal, n)
  BY <1>3, <1>4 DEF Ahead, Backed, Covers
<1>6. WriterOK("ready", n, todo[w], journal', tornEnd', checkpoint', cut')
  BY <1>1, <1>3, <1>4, <1>5 DEF WriterOK, Running
<1>7. JournalOK(journal', tornEnd', checkpoint', cut', "ready" # "append")
  BY <1>1, <1>3
<1> QED BY <1>1, <1>2, <1>4, <1>6, <1>7, Known, Stepped DEF Places

LEMMA StopKeeps ==
  ASSUME SessionInv, NEW w \in Writers, Alone(w), Stop(w)
  PROVE  SessionInv'
<1> DEFINE m == mem[w]
           st == IF m.status = "halted" THEN m.status ELSE "stopped"
           m1 == [m EXCEPT !.seq = @ + 1]
           n == [m EXCEPT !.seq = @ + 1, !.status = IF @ = "halted" THEN @ ELSE "stopped"]
           r == Rec("stopped", n.seq, 0, None)
<1>1. /\ pc[w] = "ready" /\ pc' = [pc EXCEPT ![w] = "stop"] /\ Write(r)
      /\ mem' = [mem EXCEPT ![w] = n] /\ todo' = [todo EXCEPT ![w] = todo[w]]
      /\ UNCHANGED <<tornEnd, checkpoint, lease, processes, cut>>
  BY Known DEF Stop, Goto, Remember
<1>2. /\ m \in SessionType /\ EachOnce(m.ticks) /\ todo[w] \in Seq(Record)
      /\ journal \in Seq(Record) /\ checkpoint \in SessionType
  BY Known
<1>3. /\ Ahead(checkpoint, m) /\ (tornEnd \/ Backed(journal, m)) /\ Covers(journal, m)
      /\ (m.breakers => m.status = "halted") /\ (~cut => m.fills = checkpoint.fills)
      /\ JournalOK(journal, tornEnd, checkpoint, cut, TRUE)
  BY <1>1, KnownFiles DEF WriterOK, Running, JournalOK
<1> HIDE DEF m
<1>4. /\ n \in SessionType /\ n.ticks = m.ticks /\ n.seq = m.seq + 1 /\ n.fills = m.fills
      /\ n.breakers = m.breakers /\ n.status = st /\ m.seq \in Nat
  <2>1. /\ m1 \in SessionType /\ m1.seq = m.seq + 1 /\ m.seq \in Nat /\ m1.ticks = m.ticks
        /\ m1.fills = m.fills /\ m1.breakers = m.breakers /\ m1.status = m.status
    BY <1>2, NextNumber
  <2>2. n = [m1 EXCEPT !.status = st]
    <3>1. PICK q \in Nat : q = m.seq + 1
      BY <2>1
    <3>2. PICK b \in Status : b = st
      BY <1>2 DEF SessionType, Status
    <3>3. m1 = [m EXCEPT !.seq = q] /\ n = [m EXCEPT !.seq = q, !.status = b]
      BY <3>1, <3>2
    <3>4. [m EXCEPT !.seq = q, !.status = b] = [[m EXCEPT !.seq = q] EXCEPT !.status = b]
      OBVIOUS
    <3> QED BY <3>2, <3>3, <3>4
  <2>3. st \in Status
    BY <1>2 DEF SessionType, Status
  <2> HIDE DEF m1, st, n
  <2> QED BY <2>1, <2>2, <2>3, OtherStatus
<1> HIDE DEF n
<1>5. r \in Record /\ ~IsTick(r) /\ r.kind # "fill"
  BY <1>4 DEF Rec, Record, IsTick
<1> HIDE DEF r
<1>6. Covers(journal, n) /\ (tornEnd \/ Backed(journal, n))
  <2>1. \A j \in DOMAIN journal : journal[j].seq \in Nat
    <3>1. \A x \in Record : x.seq \in Nat
      BY DEF Record
    <3> QED BY <1>2, <3>1
  <2> QED BY <1>3, <1>4, <2>1 DEF Covers, Backed
<1>7. /\ journal' \in Seq(Record) /\ TicksInOrder(journal') /\ Covers(journal', n)
      /\ Agrees(journal', checkpoint) /\ (checkpoint.breakers => Covers(journal', checkpoint))
      /\ (tornEnd \/ Backed(journal', n)) /\ (tornEnd \/ Backed(journal', checkpoint))
      /\ (~cut => Covers(journal', checkpoint) /\ FillsIn(journal') = checkpoint.fills)
  <2>1. CASE tornEnd
    BY <1>1, <1>2, <1>3, <1>6, <2>1 DEF Write, JournalOK
  <2>2. CASE ~tornEnd
    <3>1. journal' = Append(journal, r) /\ Append(journal, r) \in Seq(Record)
      BY <1>1, <1>2, <1>5, <2>2 DEF Write
    <3>2. FillsIn(journal') = FillsIn(journal)
      BY <1>2, <1>5, <3>1, FillsAppended DEF Reads
    <3>3. /\ TicksInOrder(journal) => TicksInOrder(journal')
          /\ Agrees(journal, checkpoint) => Agrees(journal', checkpoint)
          /\ Covers(journal, checkpoint) => Covers(journal', checkpoint)
          /\ Backed(journal, checkpoint) => Backed(journal', checkpoint)
          /\ Covers(journal, n) => Covers(journal', n)
          /\ Backed(journal, n) => Backed(journal', n)
      BY <1>2, <1>5, <3>1, AppendOther
    <3> QED BY <1>3, <1>6, <2>2, <3>1, <3>2, <3>3 DEF JournalOK
  <2> QED BY <2>1, <2>2
<1>8. Ahead(checkpoint, n)
  BY <1>2, <1>3, <1>4 DEF Ahead, SessionType
<1>9. WriterOK("stop", n, todo[w], journal', tornEnd', checkpoint', cut')
  BY <1>1, <1>3, <1>4, <1>7, <1>8 DEF WriterOK, Running
<1>10. JournalOK(journal', tornEnd', checkpoint', cut', "stop" # "append")
  BY <1>1, <1>3, <1>7 DEF JournalOK
<1> QED BY <1>1, <1>2, <1>4, <1>7, <1>9, <1>10, Known, Stepped DEF Places

\* A process is gone: released, ended or killed.
LEMMA GoneKeeps ==
  ASSUME SessionInv, NEW w \in Writers, Alone(w),
         pc' = [pc EXCEPT ![w] = "off"], mem' = [mem EXCEPT ![w] = Fresh],
         NEW td \in Seq(Record), todo' = [todo EXCEPT ![w] = td],
         UNCHANGED <<journal, checkpoint, processes>>,
         tornEnd' \in BOOLEAN, cut' \in BOOLEAN, tornEnd => tornEnd',
         cut' = (cut \/ tornEnd' \/ pc[w] = "append"),
         lease' \in [token : Writers \cup {None}, live : BOOLEAN]
  PROVE  SessionInv'
<1>1. Fresh \in SessionType /\ EachOnce(Fresh.ticks)
  BY DEF Fresh, SessionType, Status, EachOnce
<1>2. JournalOK(journal', tornEnd', checkpoint', cut', "off" # "append")
  BY KnownFiles DEF JournalOK
<1>3. WriterOK("off", Fresh, td, journal', tornEnd', checkpoint', cut')
  BY NotInside
<1> QED BY <1>1, <1>2, <1>3, Known, Stepped DEF Places

LEMMA GoneSteps ==
  ASSUME SessionInv, NEW w \in Writers, Alone(w),
         ReleaseLease(w) \/ Exit(w) \/ Kill(w)
  PROVE  SessionInv'
<1>1. /\ journal \in Seq(Record) /\ tornEnd \in BOOLEAN /\ cut \in BOOLEAN /\ todo[w] \in Seq(Record)
      /\ lease \in [token : Writers \cup {None}, live : BOOLEAN]
      /\ todo = [todo EXCEPT ![w] = todo[w]] /\ <<>> \in Seq(Record)
  BY Known
<1>2. ASSUME Ends(w) PROVE /\ lease' \in [token : Writers \cup {None}, live : BOOLEAN]
                           /\ pc' = [pc EXCEPT ![w] = "off"] /\ mem' = [mem EXCEPT ![w] = Fresh]
                           /\ todo' = [todo EXCEPT ![w] = <<>>]
  BY <1>1, <1>2 DEF Ends, Goto, Remember
<1>3. ~cut => ~tornEnd
  BY KnownFiles DEF JournalOK
<1>4. CASE ReleaseLease(w)
  <2>1. /\ pc' = [pc EXCEPT ![w] = "off"] /\ mem' = [mem EXCEPT ![w] = Fresh]
        /\ todo' = [todo EXCEPT ![w] = todo[w]]
        /\ UNCHANGED <<journal, tornEnd, checkpoint, processes, cut>> /\ pc[w] = "release"
        /\ lease' \in [token : Writers \cup {None}, live : BOOLEAN]
    BY <1>1, <1>4 DEF ReleaseLease, Goto, Remember, disk
  <2> QED BY <1>1, <1>3, <2>1, GoneKeeps
<1>5. CASE Exit(w)
  <2>1. Ends(w) /\ pc[w] = "ready" /\ UNCHANGED <<journal, tornEnd, checkpoint, processes, cut>>
    BY <1>5 DEF Exit, disk
  <2> QED BY <1>1, <1>2, <1>3, <2>1, GoneKeeps
<1>6. CASE Kill(w)
  <2>1. /\ Ends(w) /\ UNCHANGED <<journal, checkpoint, processes>>
        /\ cut' = (cut \/ tornEnd' \/ pc[w] = "append")
        /\ tornEnd' = tornEnd \/ tornEnd' = TRUE
    BY <1>6 DEF Kill
  <2>2. tornEnd' \in BOOLEAN /\ (tornEnd => tornEnd')
    <3>1. CASE tornEnd' = tornEnd
      BY <1>1, <3>1
    <3>2. CASE tornEnd' = TRUE
      BY <3>2
    <3> QED BY <2>1, <3>1, <3>2
  <2>3. cut' \in BOOLEAN
    BY <2>1
  <2> QED BY <1>1, <1>2, <2>1, <2>2, <2>3, GoneKeeps
<1> QED BY <1>4, <1>5, <1>6

------------------------------------------------------------------------------
(* The theorems.                                                            *)

\* Outside the session a process reads the lease or waits for it to expire; any other step is
\* of the only one inside it.
LEMMA StepKeeps ==
  ASSUME SessionInv, OneWriter, OneWriter', [SessionNext]_sessionVars
  PROVE  SessionInv'
<1>1. ASSUME NEW w \in Writers, pc[w] \notin {"off", "acquire"} PROVE Alone(w)
  BY <1>1 DEF OneWriter, Alone
<1>2. CASE UNCHANGED sessionVars
  <2>1. UNCHANGED <<journal, tornEnd, checkpoint, lease, pc, mem, todo, processes, cut>>
    BY <1>2 DEF sessionVars, disk
  <2>2. lease \in [token : Writers \cup {None}, live : BOOLEAN]
    BY DEF SessionInv, TicksOnce, SessionTypes
  <2> QED BY <2>1, <2>2, StillKeeps
<1>3. CASE Expire
  <2>1. /\ UNCHANGED <<journal, tornEnd, checkpoint, pc, mem, todo, processes, cut>>
        /\ lease' = [lease EXCEPT !.live = FALSE]
    BY <1>3 DEF Expire, disk
  <2>2. lease' \in [token : Writers \cup {None}, live : BOOLEAN]
    BY <2>1 DEF SessionInv, TicksOnce, SessionTypes
  <2> QED BY <2>1, <2>2, StillKeeps
<1>4. ASSUME NEW w \in Writers, Open(w) PROVE SessionInv'
  BY <1>4, OpenKeeps
<1>5. ASSUME NEW w \in Writers, Acquire(w) PROVE SessionInv'
  <2>1. pc \in [Writers -> Places] /\ pc' = [pc EXCEPT ![w] = "restore"]
    BY <1>5 DEF Acquire, Goto, SessionInv, TicksOnce, SessionTypes, Places
  <2>2. pc'[w] = "restore" /\ \A v \in Writers \ {w} : pc'[v] = pc[v]
    BY <2>1
  <2>3. Alone(w)
    BY <2>2 DEF OneWriter, Alone
  <2> QED BY <1>5, <2>3, AcquireKeeps
<1>6. ASSUME NEW w \in Writers, Restore(w) PROVE SessionInv'
  BY <1>1, <1>6, RestoreKeeps DEF Restore
<1>7. ASSUME NEW w \in Writers, Replay(w) PROVE SessionInv'
  BY <1>1, <1>7, ReplayKeeps DEF Replay
<1>8. ASSUME NEW w \in Writers, Resumed(w) PROVE SessionInv'
  BY <1>1, <1>8, ResumedKeeps DEF Resumed
<1>9. ASSUME NEW w \in Writers, Feed(w) PROVE SessionInv'
  BY <1>1, <1>9, FeedKeeps DEF Feed
<1>10. ASSUME NEW w \in Writers, AppendNext(w) PROVE SessionInv'
  BY <1>1, <1>10, AppendNextKeeps DEF AppendNext
<1>11. ASSUME NEW w \in Writers, Save(w) \/ WriteCheckpoint(w) \/ SaveStopped(w) PROVE SessionInv'
  BY <1>1, <1>11, WriteCheckpointKeeps DEF Save, WriteCheckpoint, SaveStopped
<1>12. ASSUME NEW w \in Writers, Renew(w) PROVE SessionInv'
  BY <1>1, <1>12, RenewKeeps DEF Renew
<1>13. ASSUME NEW w \in Writers, Report(w) PROVE SessionInv'
  BY <1>1, <1>13, ReportKeeps DEF Report
<1>14. ASSUME NEW w \in Writers, Stop(w) PROVE SessionInv'
  BY <1>1, <1>14, StopKeeps DEF Stop
<1>15. ASSUME NEW w \in Writers, ReleaseLease(w) \/ Exit(w) PROVE SessionInv'
  BY <1>1, <1>15, GoneSteps DEF ReleaseLease, Exit
<1>16. ASSUME NEW w \in Writers, Kill(w) PROVE SessionInv'
  <2>1. CASE pc[w] = "acquire"
    <3>1. /\ journal \in Seq(Record) /\ tornEnd \in BOOLEAN /\ cut \in BOOLEAN
          /\ lease \in [token : Writers \cup {None}, live : BOOLEAN]
          /\ pc \in [Writers -> Places] /\ mem \in [Writers -> SessionType]
          /\ todo \in [Writers -> Seq(Record)] /\ \A v \in Writers : EachOnce(mem[v].ticks)
          /\ <<>> \in Seq(Record) /\ (~cut => ~tornEnd)
      BY DEF SessionInv, TicksOnce, SessionTypes, Places, JournalOK
    <3>2. /\ pc' = [pc EXCEPT ![w] = "off"] /\ mem' = [mem EXCEPT ![w] = Fresh]
          /\ todo' = [todo EXCEPT ![w] = <<>>]
          /\ lease' \in [token : Writers \cup {None}, live : BOOLEAN]
          /\ UNCHANGED <<journal, tornEnd, checkpoint, processes>>
          /\ cut' = (cut \/ tornEnd)
      BY <1>16, <2>1, <3>1 DEF Kill, Ends, Goto, Remember
    <3>3. cut' = cut
      BY <3>1, <3>2
    <3>4. /\ pc' \in [Writers -> Places] /\ pc'[w] = "off"
          /\ \A v \in Writers \ {w} : pc'[v] = pc[v] /\ mem'[v] = mem[v] /\ todo'[v] = todo[v]
      BY <3>1, <3>2 DEF Places
    <3>5. Fresh \in SessionType /\ EachOnce(Fresh.ticks)
      BY DEF Fresh, SessionType, Status, EachOnce
    <3>6. /\ mem' \in [Writers -> SessionType] /\ todo' \in [Writers -> Seq(Record)]
          /\ \A v \in Writers : EachOnce(mem'[v].ticks)
      BY <3>1, <3>2, <3>5
    <3>7. TicksOnce'
      BY <3>2, <3>3, <3>4, <3>6 DEF SessionInv, TicksOnce, SessionTypes, Places
    <3>8. Free' <=> Free
      BY <2>1, <3>4 DEF Free
    <3>9. JournalOK(journal', tornEnd', checkpoint', cut', Free')
      BY <3>2, <3>3, <3>8 DEF SessionInv, JournalOK
    <3>10. ASSUME NEW v \in Writers
           PROVE  WriterOK(pc'[v], mem'[v], todo'[v], journal', tornEnd', checkpoint', cut')
      <4>1. CASE v = w
        BY <3>4, <4>1, NotInside
      <4>2. CASE v # w
        BY <3>2, <3>3, <3>4, <4>2 DEF SessionInv
      <4> QED BY <4>1, <4>2
    <3> QED BY <3>7, <3>9, <3>10 DEF SessionInv
  <2>2. CASE pc[w] # "acquire"
    BY <1>1, <1>16, <2>2, GoneSteps DEF Kill
  <2> QED BY <2>1, <2>2
<1> QED BY <1>2, <1>3, <1>4, <1>5, <1>6, <1>7, <1>8, <1>9, <1>10, <1>11, <1>12, <1>13, <1>14,
           <1>15, <1>16 DEF SessionNext

\* Whatever is killed and wherever a line is torn, one process at a time leaves the journal, the
\* checkpoint and its memory as the invariant says (paper_session.py: resume, advance, stop).
THEOREM SessionAlways == SessionSpec /\ []OneWriter => []SessionInv
<1>1. SessionInit => SessionInv
  BY InitInv
<1>2. SessionInv /\ OneWriter /\ OneWriter' /\ [SessionNext]_sessionVars => SessionInv'
  BY StepKeeps
<1> QED BY <1>1, <1>2, PTL DEF SessionSpec

\* The books have every tick once and in order (paper_session.py: resume, advance).
THEOREM TicksOnceHolds == SessionSpec /\ []OneWriter => []TicksOnce
<1>1. SessionInv => TicksOnce
  BY DEF SessionInv
<1> QED BY <1>1, SessionAlways, PTL

\* A tick of the checkpoint is in the journal, unless a line was torn (paper_session.py: advance).
THEOREM WriteAheadHolds == SessionSpec /\ []OneWriter => []WriteAhead
<1>1. ASSUME SessionInv PROVE WriteAhead
  <2>1. /\ checkpoint.ticks \in Seq(Ticks) /\ EachOnce(checkpoint.ticks)
        /\ (tornEnd \/ Backed(journal, checkpoint))
    BY <1>1 DEF SessionInv, TicksOnce, SessionTypes, SessionType, JournalOK
  <2>2. \A i \in DOMAIN checkpoint.ticks : checkpoint.ticks[i] = i /\ i \in 1..Len(checkpoint.ticks)
    BY <2>1 DEF EachOnce
  <2> QED BY <2>1, <2>2 DEF WriteAhead, Backed, IsTick
<1> QED BY <1>1, SessionAlways, PTL

\* The journal's fills give the running books back, unless a process was killed between a tick's
\* first record and its checkpoint, or tore a line (paper_session.py: reconcile).
THEOREM ReconcilesHolds == SessionSpec /\ []OneWriter => []ReconcilesUnlessCut
<1>1. ASSUME SessionInv, OneWriter PROVE ReconcilesUnlessCut
  <2>1. ASSUME NEW w \in Writers, pc[w] \in {"ready", "renew"}, ~cut PROVE Reconciles(mem[w])
    <3>1. Alone(w)
      BY <2>1, <1>1 DEF OneWriter, Alone
    <3>2. /\ JournalOK(journal, tornEnd, checkpoint, cut, pc[w] # "append")
          /\ WriterOK(pc[w], mem[w], todo[w], journal, tornEnd, checkpoint, cut)
      BY <1>1, <3>1, KnownFiles
    <3> QED BY <2>1, <3>2 DEF JournalOK, WriterOK, Running, Reconciles
  <2> QED BY <2>1 DEF ReconcilesUnlessCut
<1> QED BY <1>1, SessionAlways, PTL

\* A breaker that a checkpoint records stays, and its books do not move (paper_session.py: resume,
\* stop, _trip).
THEOREM HaltIsFinalHolds == SessionSpec /\ []OneWriter => HaltIsFinal
<1>1. ASSUME SessionInv, OneWriter, [SessionNext]_sessionVars
      PROVE  [checkpoint.breakers =>
                checkpoint'.breakers /\ checkpoint'.ticks = checkpoint.ticks]_sessionVars
  <2>1. ASSUME NEW w \in Writers, Save(w) \/ WriteCheckpoint(w) \/ SaveStopped(w),
               checkpoint.breakers
        PROVE  checkpoint'.breakers /\ checkpoint'.ticks = checkpoint.ticks
    <3>1. pc[w] \in Running /\ checkpoint' = Saved(mem[w])
      BY <2>1 DEF Save, WriteCheckpoint, SaveStopped, Running
    <3>2. mem[w].breakers /\ mem[w].ticks = checkpoint.ticks /\ mem[w] \in SessionType
      BY <1>1, <2>1, <3>1 DEF SessionInv, WriterOK, Ahead, TicksOnce, SessionTypes
    <3> QED BY <3>1, <3>2, SavedFacts
  <2>2. ASSUME ~(\E w \in Writers : Save(w) \/ WriteCheckpoint(w) \/ SaveStopped(w))
        PROVE  checkpoint' = checkpoint
    BY <1>1, <2>2 DEF SessionNext, sessionVars, disk, Expire, Open, Acquire, Restore, Replay, Resumed,
           Feed, AppendNext, Renew, Report, Stop, ReleaseLease, Exit, Kill
  <2> QED BY <2>1, <2>2
<1> QED BY <1>1, SessionAlways, PTL DEF SessionSpec, HaltIsFinal

\* A checkpoint that is written takes the books further or leaves them.
LEMMA CheckpointStep ==
  ASSUME SessionInv, OneWriter, SessionInv', [SessionNext]_sessionVars
  PROVE  [Durable!Next]_(Durable!books)
<1>1. ASSUME NEW w \in Writers, Save(w) \/ WriteCheckpoint(w) \/ SaveStopped(w)
      PROVE  [Durable!Next]_(Durable!books)
  <2>1. pc[w] \in Running /\ checkpoint' = Saved(mem[w])
    BY <1>1 DEF Save, WriteCheckpoint, SaveStopped, Running
  <2>2. mem[w] \in SessionType /\ Ahead(checkpoint, mem[w])
    BY <2>1 DEF SessionInv, WriterOK, TicksOnce, SessionTypes
  <2>3. checkpoint'.ticks = mem[w].ticks /\ checkpoint'.breakers = mem[w].breakers
    BY <2>1, <2>2, SavedFacts
  <2>4. /\ checkpoint.ticks \in Seq(Ticks) /\ EachOnce(checkpoint.ticks)
        /\ checkpoint.breakers \in BOOLEAN
        /\ mem[w].ticks \in Seq(Ticks) /\ EachOnce(mem[w].ticks) /\ mem[w].breakers \in BOOLEAN
    BY <2>2 DEF SessionInv, TicksOnce, SessionTypes, SessionType
  <2> DEFINE old == checkpoint.ticks
             new == mem[w].ticks
             was == checkpoint.breakers
             now == mem[w].breakers
  <2>5. Len(old) <= Len(new) /\ (was => now /\ new = old)
    BY <2>2 DEF Ahead
  <2> HIDE DEF old, new, was, now
  <2>6. new = [t \in 1..Len(new) |-> t] /\ Len(new) \in Nat /\ Len(old) \in Nat
    <3>1. new \in Seq(Ticks) /\ old \in Seq(Ticks) /\ \A t \in DOMAIN new : new[t] = t
      BY <2>4 DEF EachOnce, new, old
    <3>2. DOMAIN new = 1..Len(new)
      BY <3>1
    <3>3. new = [t \in DOMAIN new |-> new[t]]
      BY <3>1
    <3> QED BY <3>1, <3>2, <3>3
  <2>7. old = [t \in 1..Len(old) |-> t]
    <3>1. old \in Seq(Ticks) /\ \A t \in DOMAIN old : old[t] = t
      BY <2>4 DEF EachOnce, old
    <3>2. DOMAIN old = 1..Len(old)
      BY <3>1
    <3>3. old = [t \in DOMAIN old |-> old[t]]
      BY <3>1
    <3> QED BY <3>1, <3>2, <3>3
  <2>8. Len(new) <= LastTick
    <3>1. CASE Len(new) = 0
      BY <3>1, SessionConstants
    <3>2. CASE Len(new) # 0
      <4>1. Len(new) \in DOMAIN new /\ new \in Seq(Ticks)
        BY <2>4, <2>6, <3>2 DEF new
      <4>2. new[Len(new)] \in Ticks /\ new[Len(new)] = Len(new)
        BY <2>6, <4>1
      <4> QED BY <4>2, SessionConstants DEF Ticks
    <3> QED BY <3>1, <3>2
  <2>9. CASE Len(new) > Len(old)
    <3>1. ~was
      BY <2>5, <2>6, <2>9
    <3>2. Len(new) \in (Len(old) + 1)..LastTick
      BY <2>6, <2>8, <2>9, SessionConstants
    <3> QED BY <2>3, <2>4, <2>6, <3>1, <3>2 DEF Durable!Next, Durable!Take, old, new, was, now
  <2>10. CASE Len(new) = Len(old)
    <3>1. new = old
      BY <2>6, <2>7, <2>10
    <3>2. CASE was = now
      BY <2>3, <3>1, <3>2 DEF Durable!books, old, new, was, now
    <3>3. CASE ~was /\ now
      BY <2>3, <2>4, <3>1, <3>3 DEF Durable!Next, Durable!Halt, old, new, was, now
    <3> QED BY <2>4, <2>5, <3>2, <3>3, Zenon DEF was, now
  <2> QED BY <2>5, <2>6, <2>9, <2>10
<1>2. ASSUME ~(\E w \in Writers : Save(w) \/ WriteCheckpoint(w) \/ SaveStopped(w))
      PROVE  checkpoint' = checkpoint
  BY <1>2 DEF SessionNext, sessionVars, disk, Expire, Open, Acquire, Restore, Replay, Resumed,
         Feed, AppendNext, Renew, Report, Stop, ReleaseLease, Exit, Kill
<1>3. CASE checkpoint' = checkpoint
  BY <1>3 DEF Durable!books
<1> QED BY <1>1, <1>2, <1>3

\* The processes of a session, whatever is killed and wherever a line is torn, are one session whose
\* books take each tick once, in order, and never go back (paper_session.py: advance, resume).
THEOREM KeepsBooksHolds == SessionSpec /\ []OneWriter => KeepsBooks
<1>1. SessionInit => Durable!Init
  BY DEF SessionInit, Fresh, Durable!Init
<1>2. SessionInv /\ OneWriter /\ SessionInv' /\ [SessionNext]_sessionVars
         => [Durable!Next]_(Durable!books)
  BY CheckpointStep
<1> QED BY <1>1, <1>2, SessionAlways, PTL DEF SessionSpec, KeepsBooks, Durable!Spec

\* Where commands are run one after the other, as by one process at a time, all of this holds
\* without more: a lease that expires under a process at work is what OneWriter stands for.
THEOREM OneProcessKeepsBooks ==
  ASSUME \A v, w \in Writers : v = w
  PROVE  SessionSpec => []SessionInv /\ HaltIsFinal /\ KeepsBooks
<1>1. OneWriter
  BY DEF OneWriter
<1> QED BY <1>1, SessionAlways, HaltIsFinalHolds, KeepsBooksHolds, PTL
=============================================================================
