---------------------------- MODULE PersonalPaper -----------------------------
(***************************************************************************)
(* The prospective mode of the personal paper engine                       *)
(* (personal_paper/engine.py, worker.py): decisions at a session's close,  *)
(* fills at the next opening or never, risk limits that pause, in one      *)
(* SQLite transaction for each run.  Workers and operators run it at any   *)
(* time, beside each other and again.  What a run knows of the world it    *)
(* read before its transaction began, and nothing else of it lasts: so a   *)
(* run is one step, from inputs that may be older than the clock, and one  *)
(* that dies or finds another writer is no step, as SQLite undoes it.      *)
(*                                                                         *)
(* A session takes four ticks: the opening and a tick later are within the *)
(* 300 seconds, the third is not, at the fourth it is closed.  A book      *)
(* holds units of one asset; which closes decide and what they want is its *)
(* frozen strategy.  Costs, exchange rates, splits, the five symbols and   *)
(* the bands and caps of an order are left out: of an order any part that  *)
(* the cash pays for fills.  A transaction takes no time.                  *)
(***************************************************************************)
EXTENDS Integers, Sequences, FiniteSets

CONSTANTS
    Books,
    LastSession,    \* bound: the sessions of the calendar
    Markets,        \* prices at openings and closes, dividends: what may come
    Cadence,        \* per book, the closes that decide after the first
    Wants,          \* per book, the closes whose target is to hold Lot
    Lot, Capital,   \* units of a full target; capital of a book
    Window,         \* OPEN_WINDOW_SECONDS, in ticks
    MaxDailyLoss, MaxDrawdown,  \* hundredths
    MaxResumes,     \* bound: reviewed resumes
    Late,           \* whether a quote may come before the close of the day before
    None

VARIABLES
    market,     \* the one that comes
    now,        \* the system clock
    registered, \* manifest: registered_at, or None
    bars,       \* table bars: the sessions consumed, a prefix of the calendar
    book,       \* tables books and events: each book, with its fills, dividends, missed windows
    resumes     \* reviewed resumes so far

db == <<registered, bars, book>>
engineVars == <<market, now, db, resumes>>

Sessions == 1..LastSession
Prices == [Sessions -> Nat]

\* The 300 seconds are over before the session is; the limits are positive (load_config).
ASSUME PaperConstants ==
    /\ {LastSession, Capital, MaxDailyLoss, MaxDrawdown} \subseteq Nat \ {0}
    /\ {Lot, MaxResumes} \subseteq Nat /\ Window \in 0..2 /\ Late \in BOOLEAN
    /\ Cadence \in [Books -> SUBSET Sessions] /\ Wants \in [Books -> SUBSET Sessions]
    /\ Markets \subseteq [open : Prices, close : Prices, dividend : Prices]
    /\ None \notin Int

Opens(s) == 4 * s
Closes(s) == 4 * s + 3
Ticks == 0..(Closes(LastSession))
Closed(t) == {s \in Sessions : Closes(s) <= t}
LatestClosed(t) == Cardinality(Closed(t))

\* A book as it is sealed: its mark is last_prices, its day day_date and day_start_mxn,
\* seen is actions_seen.  For the properties: began keeps what equity was when a session
\* was first valued, eased that it was resumed and not valued since.
Fresh == [pos |-> 0, cash |-> Capital, mark |-> 0, pending |-> None, initial |-> FALSE,
          day |-> None, dayStart |-> Capital, high |-> Capital, breached |-> FALSE,
          paused |-> FALSE, seen |-> {}, log |-> <<>>,
          began |-> [s \in Sessions |-> None], eased |-> FALSE]

EngineInit ==
    /\ market \in Markets
    /\ now = 0 /\ registered = None /\ bars = 0
    /\ book = [b \in Books |-> Fresh]
    /\ resumes = 0

------------------------------------------------------------------------------
(* A book and what happens to it.                                           *)

Equity(bk) == bk.cash + bk.pos * bk.mark
Fell(from, to, limit) == (from - to) * 100 >= limit * from
Logged(bk, event) == [bk EXCEPT !.log = Append(@, event)]

Began(bk, s) == [bk.began EXCEPT ![s] = IF @ = None THEN Equity(bk) ELSE @]

\* Mutant of OnDay: every valuation takes the day's start anew.
OnEachRun(bk, s) == [bk EXCEPT !.day = s, !.dayStart = Equity(bk), !.began = Began(bk, s)]

\* The first valuation of another day fixes what its loss is measured from.
OnDay(bk, s) ==
    IF bk.day = s THEN bk
    ELSE [bk EXCEPT !.day = s, !.dayStart = Equity(bk), !.began = Began(bk, s)]

\* Mutant of Unseen: the opening and the close each bring it.
UnseenThatDay(bk, s) == s \notin bk.seen \/ bk.day = s

\* apply_actions: a dividend is credited once, to the units held.
Unseen(bk, s) == s \notin bk.seen
Dividend(bk, s) ==
    LET seen == [bk EXCEPT !.seen = @ \cup {s}] IN
    IF Unseen(bk, s) /\ bk.pos * market.dividend[s] # 0
    THEN Logged([seen EXCEPT !.cash = @ + bk.pos * market.dividend[s]],
                [kind |-> "dividend", session |-> s, qty |-> bk.pos])
    ELSE seen

\* _risk: value the book, and pause it at a limit.
Limits(bk, high) ==
    Fell(high, Equity(bk), MaxDrawdown) \/ Fell(bk.dayStart, Equity(bk), MaxDailyLoss)
Risk(bk, price) ==
    LET valued == [bk EXCEPT !.mark = price]
        high == IF Equity(valued) > bk.high THEN Equity(valued) ELSE bk.high IN
    [valued EXCEPT !.high = high, !.eased = FALSE,
                   !.breached = Fell(high, Equity(valued), MaxDrawdown),
                   !.paused = @ \/ Limits(valued, high)]

\* A close: the first new one decides whatever the cadence; a decision replaces another.
AtClose(b, bk, s) ==
    LET valued == Risk(Dividend(OnDay(bk, s), s), market.close[s]) IN
    [valued EXCEPT
        !.initial = TRUE,
        !.pending = IF ~bk.initial \/ s \in Cadence[b]
                    THEN [session |-> s, at |-> now, resumes |-> resumes] ELSE @]

\* The closes a run consumes; those before the registration are only observed.
CaughtUp(b, bk, panel, since) ==
    LET after[s \in 0..panel] ==
            IF s <= bars THEN bk
            ELSE IF Closes(s) > since THEN AtClose(b, after[s - 1], s)
            ELSE after[s - 1]
    IN  after[panel]

\* Mutant of Missed: a decision whose window passed without a run is kept.
MissedOnlyLate(bk) ==
    /\ bk.pending # None
    /\ now >= Opens(bk.pending.session + 1) /\ bk.pending.at >= Opens(bk.pending.session + 1)

\* _expire_missed_decisions: decided after the next opening, or its window is over.
Missed(bk) ==
    /\ bk.pending # None
    /\ LET opened == Opens(bk.pending.session + 1) IN
       \/ now >= opened /\ bk.pending.at >= opened
       \/ now > opened + Window
Drop(bk) == Logged([bk EXCEPT !.pending = None], [kind |-> "missed", decision |-> bk.pending])
Expired(bk) == IF Missed(bk) THEN Drop(bk) ELSE bk

\* _execute_quotes up to the order: the day, its dividend and its risk; an order decided
\* after the opening, or after its price was seen, is dropped.
InTime(bk, q) ==
    /\ now - Opens(q.session) <= Window
    /\ bk.pending.at < Opens(q.session) /\ bk.pending.at < q.at
AtOpen(bk, q) ==
    LET valued == Risk(Dividend(OnDay(bk, q.session), q.session), market.open[q.session]) IN
    IF bk.pending = None \/ InTime(bk, q) THEN valued ELSE Drop(valued)

\* "quote is not the next session of the frozen decision".
NotNext(bk, q) == bk.pending # None /\ bk.pending.session # q.session - 1

\* _fill_target: what the order may leave the book with; no purchase while paused, or on credit.
FillsTo(b, bk, q) ==
    LET target == IF bk.pending.session \in Wants[b] THEN Lot ELSE 0 IN
    IF bk.pending = None THEN {bk.pos}
    ELSE IF target < bk.pos THEN target..bk.pos
    ELSE IF bk.paused THEN {bk.pos}
    ELSE {pos \in bk.pos..target : (pos - bk.pos) * market.open[q.session] <= bk.cash}

\* Mutant of Filled: the decision stays for another run.
FilledKeeps(bk, q, pos) ==
    IF bk.pending = None THEN bk
    ELSE LET price == market.open[q.session]
             event == [kind |-> "fill", session |-> q.session, decision |-> bk.pending,
                       at |-> now, observed |-> q.at, resumes |-> resumes,
                       qty |-> pos - bk.pos, paused |-> bk.paused] IN
         Risk(Logged([bk EXCEPT !.cash = @ - (pos - bk.pos) * price, !.pos = pos], event), price)

Filled(bk, q, pos) ==
    IF bk.pending = None THEN bk
    ELSE LET price == market.open[q.session]
             event == [kind |-> "fill", session |-> q.session, decision |-> bk.pending,
                       at |-> now, observed |-> q.at, resumes |-> resumes,
                       qty |-> pos - bk.pos, paused |-> bk.paused] IN
         Risk(Logged([bk EXCEPT !.cash = @ - (pos - bk.pos) * price, !.pos = pos,
                                !.pending = None], event), price)

------------------------------------------------------------------------------
(* A run of the engine.                                                     *)

\* The sessions a run may have read.  Unless Late, every one that is closed, as the worker's
\* snapshots have, but for a run that began before the close.
Panels ==
    IF Late THEN 0..LatestClosed(now)
    ELSE {LatestClosed(now)} \cup {s - 1 : s \in {x \in Sessions : now = Closes(x)}}

\* fetch_open_quotes, or a file an operator has: prices observed during a session.
Quotes == {q \in [session : Sessions, at : 0..now] :
              Opens(q.session) <= q.at /\ q.at < Closes(q.session)}

\* "quote/session observation is stale or invalid".
Stale(q) == ~(q.at <= now /\ now < Closes(q.session) /\ now - q.at <= Window)

Since == IF registered = None THEN now ELSE registered

\* The books after the closes, with the decisions that came too late dropped.
Valued(b, panel) == Expired(CaughtUp(b, Expired(book[b]), panel, Since))

\* What the transaction makes of the books: several outcomes, as orders fill in part.
Results(panel, q) ==
    IF q = None THEN {[b \in Books |-> Valued(b, panel)]}
    ELSE LET opened == [b \in Books |-> AtOpen(Valued(b, panel), q)] IN
         {[b \in Books |-> Filled(opened[b], q, to[b])] :
            to \in {f \in [Books -> 0..Lot] : \A b \in Books : f[b] \in FillsTo(b, opened[b], q)}}

Refused(panel, q) ==
    IF panel < bars THEN "removed"      \* previously observed sessions were removed
    ELSE IF q = None THEN "none"
    ELSE IF Stale(q) THEN "stale"
    ELSE IF \E b \in Books : NotNext(AtOpen(Valued(b, panel), q), q) THEN "notNext"
    ELSE "none"

\* run: one transaction, with quotes or without.
Run ==
    \E panel \in Panels, q \in Quotes \cup {None} :
        /\ Refused(panel, q) = "none"
        /\ book' \in Results(panel, q)
        /\ bars' = panel /\ registered' = Since
        /\ UNCHANGED <<market, now, resumes>>

\* pause, by an operator or a worker over its budget.
Pause ==
    /\ registered # None /\ \E b \in Books : ~book[b].paused
    /\ book' = [b \in Books |-> [book[b] EXCEPT !.paused = TRUE]]
    /\ UNCHANGED <<market, now, registered, bars, resumes>>

\* resume, by an operator who reviewed; refused while a drawdown is breached.
Resume ==
    /\ registered # None /\ resumes < MaxResumes
    /\ \A b \in Books : ~book[b].breached
    /\ resumes' = resumes + 1
    /\ book' = [b \in Books |-> [book[b] EXCEPT !.paused = FALSE, !.pending = None, !.eased = TRUE]]
    /\ UNCHANGED <<market, now, registered, bars>>

Tick ==
    /\ now + 1 \in Ticks /\ now' = now + 1
    /\ UNCHANGED <<market, db, resumes>>

EngineNext == Run \/ Pause \/ Resume \/ Tick

EngineSpec == EngineInit /\ [][EngineNext]_engineVars

------------------------------------------------------------------------------
(* Properties.                                                              *)

EngineTypes ==
    /\ now \in Ticks /\ registered \in Ticks \cup {None} /\ bars \in 0..LastSession
    /\ \A b \in Books :
        /\ book[b].pos \in 0..Lot /\ book[b].cash \in Nat /\ book[b].mark \in Nat
        /\ book[b].day \in Sessions \cup {None} /\ book[b].seen \subseteq Sessions

Events(b, kind) == {i \in DOMAIN book[b].log : book[b].log[i].kind = kind}

\* "A single initial decision", "the first 300 seconds of the next opening", "a missed window
\* expires" (docs/PERSONAL_PAPER.md): whatever runs, when and from which inputs, a fill belongs to a
\* decision of the close before, taken after the registration, before the opening and
\* before its price was seen; it comes within the window, once, and after a resume no decision
\* of before it.
NextOpenOnly ==
    \A b \in Books : \A i \in Events(b, "fill") :
        LET f == book[b].log[i]
            d == f.decision IN
        /\ f.session = d.session + 1 /\ Closes(d.session) > registered
        /\ d.at < Opens(f.session) /\ d.at < f.observed
        /\ f.at \in Opens(f.session)..(Opens(f.session) + Window)
        /\ d.resumes = f.resumes /\ (f.paused => f.qty <= 0)
        /\ \A j \in Events(b, "fill") : book[b].log[j].session = f.session => i = j

\* What was held when a session opened.
HeldBefore(log, s) ==
    LET held[n \in 0..Len(log)] ==
            IF n = 0 THEN 0
            ELSE IF log[n].kind = "fill" /\ log[n].session < s THEN held[n - 1] + log[n].qty
            ELSE held[n - 1]
    IN  held[Len(log)]

\* A dividend is credited once, whether the opening or the close brings it first, to what
\* was held before the session's own fill; and it is when the session's close is consumed.
DividendOnce ==
    \A b \in Books, s \in Sessions :
        LET due == HeldBefore(book[b].log, s) * market.dividend[s]
            credited == {i \in Events(b, "dividend") : book[b].log[i].session = s} IN
        /\ \A i \in credited : book[b].log[i].qty = HeldBefore(book[b].log, s)
        /\ Cardinality(credited) <= 1
        /\ s <= bars /\ due # 0 => credited # {}

\* A book that lost the limit since its day was first valued, or that lies the limit under its
\* high, is paused, unless it was resumed and not valued since; a drawdown not even then.
LimitsHold ==
    /\ EngineTypes
    /\ \A b \in Books :
        LET bk == book[b] IN
        /\ Fell(bk.high, Equity(bk), MaxDrawdown) => bk.paused
        /\ bk.day # None /\ ~bk.eased /\ Fell(bk.began[bk.day], Equity(bk), MaxDailyLoss)
              => bk.paused

\* A run is never refused because a book's decision is not the quote's: what is older has
\* expired by then, so no book can block the others (engine.py: _execute_quotes).
NeverBlocked ==
    \A panel \in Panels, q \in Quotes : Refused(panel, q) # "notNext"

==============================================================================
