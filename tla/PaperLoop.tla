------------------------------ MODULE PaperLoop ------------------------------
(***************************************************************************)
(* The live paper-trading loop (live/loop.py).  A cycle loads two files,   *)
(* latest_state.json and loop_state.json, works on the copy in memory and  *)
(* writes them back one after the other, then appends to the history.  The *)
(* process can be killed anywhere, in the middle of a write too, and is    *)
(* started again; an operator clears a halt.                               *)
(*                                                                         *)
(* One position stands for the portfolio: while invested, the equity moves *)
(* with the level of the bar's open.  Weights, symbols and quantities are  *)
(* left out; how many orders a target needs and whether the portfolio is   *)
(* invested afterwards are any value.                                      *)
(***************************************************************************)
EXTENDS Integers, Sequences, FiniteSets, SequencesExt

CONSTANTS
    MaxBar,        \* bound: bars of the market
    BarsPerDay,
    Levels,        \* the opens a bar can have
    InitialCash,
    Cost,          \* of one fill
    MaxTrades,     \* bound: orders of one rebalancing
    MaxOrders,     \* max_orders_per_day
    MaxDailyLoss,  \* max_daily_loss_pct, in hundredths
    MaxDrawdown,   \* max_total_drawdown_pct, in hundredths
    MaxSplits      \* bound: crashes between the two writes

ASSUME LoopNumbers ==
    /\ {MaxBar, BarsPerDay, InitialCash} \subseteq Nat \ {0}
    /\ {Cost, MaxTrades, MaxOrders, MaxDailyLoss, MaxDrawdown, MaxSplits} \subseteq Nat
    /\ Levels \subseteq Nat /\ Levels # {}

VARIABLES
    level,        \* the market: the open of every bar
    killed,       \* what _kill_switch_active answers: unreadable storage counts as TRUE
    sessionFile,  \* latest_state.json
    loopFile,     \* loop_state.json
    torn,         \* the files a crash left half written
    proc,         \* the process
    history,      \* orders.jsonl: the executions written to it
    splits,       \* crashes between the write of one file and of the other
    opened        \* each day: the equity at its first bar that reached the session file, if any

vars == <<level, killed, sessionFile, loopFile, torn, proc, history, splits, opened>>

Bars == 1..MaxBar
Day(b) == (b - 1) \div BarsPerDay + 1
Days == 1..Day(MaxBar)

\* `halted` is kill_switch_active and status "paused", which _halt sets together.
\* `drawn`: max_drawdown, which only grows, has reached the limit.  Bar 0 is none.
NewSession == [last |-> 0, mark |-> 0, equity |-> InitialCash, high |-> InitialCash,
               drawn |-> FALSE, invested |-> FALSE, halted |-> FALSE, fills |-> <<>>]
NewLoop == [pending |-> 0, day |-> 0, dayStart |-> InitialCash, filled |-> 0]

\* An execution: the bar whose target it was, the bar of its fills, their number
\* and the equity it began with.
Execution == [target : Bars, at : Bars, fills : 1..MaxTrades, equity : Int]

NoProcess == [pc |-> "idle", session |-> NewSession, loop |-> NewLoop, worth |-> {}, done |-> {}]

Init ==
    /\ level \in [Bars -> Levels]
    /\ killed = FALSE
    /\ sessionFile = NewSession
    /\ loopFile = NewLoop
    /\ torn = {}
    /\ proc = NoProcess
    /\ history = {}
    /\ splits = 0
    /\ opened = [d \in Days |-> {}]

------------------------------------------------------------------------------
(* The steps of a cycle in memory.                                          *)

\* Mutant of IsNew: the last bar is taken again.
IsNewOrLast(s, b) == s.last <= b

IsNew(s, b) == s.last < b

Fell(from, to, limit) == (from - to) * 100 > limit * from

Marked(s, b) ==
    LET equity == IF s.invested THEN s.equity + level[b] - level[s.mark] ELSE s.equity
        high == IF equity > s.high THEN equity ELSE s.high
    IN  [s EXCEPT !.mark = b, !.equity = equity, !.high = high,
                  !.drawn = @ \/ (high - equity) * 100 >= MaxDrawdown * high]

\* Mutants of OnDay: every cycle begins a day; the day's fills are kept but its
\* opening is not.
OnDayAfresh(l, b, equity) == [l EXCEPT !.day = Day(b), !.dayStart = equity, !.filled = 0]
OnDayRebased(l, b, equity) ==
    [l EXCEPT !.day = Day(b), !.dayStart = equity,
              !.filled = IF l.day = Day(b) THEN @ ELSE 0]

OnDay(l, b, equity) ==
    IF l.day = Day(b) THEN l
    ELSE [l EXCEPT !.day = Day(b), !.dayStart = equity, !.filled = 0]

\* _daily_loss_breached
Breached(s, l) == l.dayStart > 0 /\ Fell(l.dayStart, s.equity, MaxDailyLoss)

Halted(s) == [s EXCEPT !.halted = TRUE]

Room(l) == IF MaxTrades < MaxOrders - l.filled THEN MaxTrades ELSE MaxOrders - l.filled

\* _execute_target: n orders are filled, the others refused or not needed.
Filled(s, b, target, n, invested) ==
    IF n = 0 THEN s
    ELSE [s EXCEPT !.equity = @ - n * Cost, !.invested = invested,
                   !.fills = Append(@, [target |-> target, at |-> b, fills |-> n,
                                        equity |-> s.equity])]

\* Mutant of Cleared: the target stays pending.
ClearedNot(l, n) == [l EXCEPT !.filled = @ + n]

Cleared(l, n) == [l EXCEPT !.pending = 0, !.filled = @ + n]

\* What execution leaves: the session, halted if the costs breach the day's limit,
\* and the loop state.
Executed(s, l, b) ==
    IF l.pending = 0 \/ l.pending >= b THEN {[s |-> s, l |-> l]}
    ELSE {LET after == Filled(s, b, l.pending, n, invested) IN
          [s |-> IF Breached(after, l) THEN Halted(after) ELSE after, l |-> Cleared(l, n)] :
            n \in 0..Room(l), invested \in BOOLEAN}

\* The model decides on the newest bar, or has no signal for it.
Decided(x, b) ==
    IF x.s.halted THEN {x.l} ELSE {x.l, [x.l EXCEPT !.pending = b]}

------------------------------------------------------------------------------
(* run_cycle.                                                               *)

\* Load the files and look at the kill switch; a paused session only writes its
\* heartbeat, which changes nothing here.  A file cut short cannot be loaded.
Start ==
    /\ proc.pc = "idle" /\ torn = {}
    /\ \/ /\ killed
          /\ proc' = [proc EXCEPT !.pc = "saveSession", !.session = Halted(sessionFile),
                                  !.loop = loopFile]
       \/ /\ ~killed /\ ~sessionFile.halted
          /\ proc' = [proc EXCEPT !.pc = "fetch", !.session = sessionFile, !.loop = loopFile]
    /\ UNCHANGED <<level, killed, sessionFile, loopFile, torn, history, splits, opened>>

\* The provider serves nothing, or nothing newer: heartbeat only.
NoNewBar ==
    /\ proc.pc = "fetch"
    /\ proc' = NoProcess
    /\ UNCHANGED <<level, killed, sessionFile, loopFile, torn, history, splits, opened>>

\* The cycle's own executions are those with fills at the bar it works on.
Saving(s, l, worth) ==
    proc' = [pc |-> "saveSession", session |-> s, loop |-> l, worth |-> worth,
             done |-> ToSet(s.fills) \ ToSet(proc.session.fills)]

\* The newest bar served is b: mark, halt, or execute and decide.  A halt leaves
\* last_processed_timestamp alone.
Process(b) ==
    LET s == Marked(proc.session, b)
        l == OnDay(proc.loop, b, s.equity)
    IN  /\ proc.pc = "fetch"
        /\ IsNew(proc.session, b)
        /\ IF Breached(s, l) \/ s.drawn
           THEN Saving(Halted(s), l, {s.equity})
           ELSE \E x \in Executed(s, l, b) : \E next \in Decided(x, b) :
                   Saving([x.s EXCEPT !.last = b], next, {s.equity})
        /\ UNCHANGED <<level, killed, sessionFile, loopFile, torn, history, splits, opened>>

\* _save_state: the session first ...
SaveSession ==
    /\ proc.pc = "saveSession"
    /\ sessionFile' = proc.session
    /\ opened' = IF proc.worth # {} /\ opened[proc.loop.day] = {}
                 THEN [opened EXCEPT ![proc.loop.day] = proc.worth]
                 ELSE opened
    /\ proc' = [proc EXCEPT !.pc = "saveLoop"]
    /\ UNCHANGED <<level, killed, loopFile, torn, history, splits>>

\* ... then the loop state ...
SaveLoop ==
    /\ proc.pc = "saveLoop"
    /\ loopFile' = proc.loop
    /\ proc' = [proc EXCEPT !.pc = "history"]
    /\ UNCHANGED <<level, killed, sessionFile, torn, history, splits, opened>>

\* ... and _persist_history.
AppendHistory ==
    /\ proc.pc = "history"
    /\ history' = history \cup proc.done
    /\ proc' = NoProcess
    /\ UNCHANGED <<level, killed, sessionFile, loopFile, torn, splits, opened>>

\* The process is killed before a step, or while a write has truncated its file.
Crash ==
    /\ proc.pc # "idle"
    /\ proc' = NoProcess
    /\ \/ UNCHANGED torn
       \/ proc.pc = "saveSession" /\ torn' = torn \cup {"session"}
       \/ proc.pc = "saveLoop" /\ torn' = torn \cup {"loop"}
    /\ IF proc.pc = "saveLoop"
       THEN splits < MaxSplits /\ splits' = splits + 1
       ELSE UNCHANGED splits
    /\ UNCHANGED <<level, killed, sessionFile, loopFile, history, opened>>

\* Operators: the kill switch is thrown, cannot be read, or is lifted; a halt is
\* cleared in the session file.
SwitchKill ==
    /\ killed' = ~killed
    /\ UNCHANGED <<level, sessionFile, loopFile, torn, proc, history, splits, opened>>

Clear ==
    /\ proc.pc = "idle" /\ "session" \notin torn
    /\ sessionFile.halted
    /\ sessionFile' = [sessionFile EXCEPT !.halted = FALSE]
    /\ UNCHANGED <<level, killed, loopFile, torn, proc, history, splits, opened>>

Next ==
    \/ Start \/ NoNewBar \/ \E b \in Bars : Process(b)
    \/ SaveSession \/ SaveLoop \/ AppendHistory
    \/ Crash \/ SwitchKill \/ Clear

Spec == Init /\ [][Next]_vars

------------------------------------------------------------------------------
(* Properties.                                                             *)

Session ==
    [last : 0..MaxBar, mark : 0..MaxBar, equity : Int, high : Int, drawn : BOOLEAN,
     invested : BOOLEAN, halted : BOOLEAN, fills : Seq(Execution)]
Loop == [pending : 0..MaxBar, day : 0..Day(MaxBar), dayStart : Int, filled : 0..MaxOrders]

\* Files and memory have their fields: the day's fills never pass the limit.
TypeOK ==
    /\ level \in [Bars -> Levels] /\ killed \in BOOLEAN
    /\ sessionFile \in Session /\ loopFile \in Loop
    /\ torn \subseteq {"session", "loop"}
    /\ proc.pc \in {"idle", "fetch", "saveSession", "saveLoop", "history"}
    /\ proc.session \in Session /\ proc.loop \in Loop
    /\ proc.worth \subseteq Int /\ proc.done \subseteq Execution
    /\ history \subseteq Execution
    /\ splits \in 0..MaxSplits
    /\ opened \in [Days -> SUBSET Int]

Fills == sessionFile.fills

\* Next-open causality across restarts, crashes and halts that an operator clears:
\* fills happen after the bar their target was decided on, no bar is traded twice,
\* and no older target is executed after a newer one.
FillsInOrder ==
    \A i \in DOMAIN Fills :
        /\ Fills[i].target < Fills[i].at
        /\ \A j \in 1..(i - 1) :
              Fills[j].at < Fills[i].at /\ Fills[j].target <= Fills[i].target

ExecutionsOf(t) == {i \in DOMAIN Fills : Fills[i].target = t}

\* A target is executed once, and once more at most for every crash that fell
\* between the two writes of _save_state.
OncePerCrash ==
    /\ TypeOK
    /\ \A t \in Bars : Cardinality(ExecutionsOf(t)) <= 1 + splits

\* The orders filled on a day: the k-th of the i-th execution.
OrdersOn(fills, d) ==
    {o \in (DOMAIN fills) \X (1..MaxTrades) :
        Day(fills[o[1]].at) = d /\ o[2] <= fills[o[1]].fills}

\* max_orders_per_day holds over all cycles, restarts and cleared halts of a day;
\* a crash between the two writes loses the count of one cycle, no more.
DayCap == \A d \in Days : Cardinality(OrdersOn(Fills, d)) <= MaxOrders * (1 + splits)

\* The daily-loss breaker: no order is filled at a bar whose equity lies below the
\* day's opening by more than the limit, however often the process was restarted
\* and the halt cleared that day, as long as no crash fell between the writes.
BreakerHolds ==
    splits = 0 =>
        \A i \in DOMAIN Fills :
            \A open \in opened[Day(Fills[i].at)] :
                open > 0 => ~Fell(open, Fills[i].equity, MaxDailyLoss)

------------------------------------------------------------------------------
(* What a document says and a run refutes.                                  *)

\* PAPER_PHASE_PLAN.md, process kill: "no double-execution".
NoDoubleExecution == \A t \in Bars : Cardinality(ExecutionsOf(t)) <= 1
==============================================================================
