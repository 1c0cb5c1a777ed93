----------------------------- MODULE PaperSession -----------------------------
(***************************************************************************)
(* The durable v9 paper session (v9/paper_session.py, v9/paper_engine.py): *)
(* a journal appended before a checkpoint, a lease, and a process that     *)
(* resumes from them, applies the market's ticks and may be killed         *)
(* anywhere.  What a process knows is in `mem`; what survives it is the    *)
(* checkpoint, the journal and the lease file.                             *)
(*                                                                         *)
(* The market is fixed for a behaviour: at which ticks the strategy wants  *)
(* the carry (it looks at settled rates only), which are thin (an order    *)
(* fills in part) and which arrive after a gap that trips the stale-data   *)
(* breaker.  Prices, fees and the breakers that depend on them are left    *)
(* out; a position is what its fills add up to.                            *)
(***************************************************************************)
EXTENDS Integers, Sequences, FiniteSets

CONSTANTS
    LastTick,   \* bound: the ticks of the feed
    Writers,    \* processes that open the session
    Target,     \* target_notional_usd, as a quantity
    MaxOpened,  \* bound: processes that open the session
    None

ASSUME SessionConstants ==
    LastTick \in Nat /\ Target \in Nat \ {0} /\ MaxOpened \in Nat /\ None \notin Writers

VARIABLES
    market,       \* wants, thin and gaps: sets of ticks
    journal,      \* journal.jsonl, as far as a reader gets
    tornEnd,      \* its last line is cut: what is appended to it is never read
    checkpoint,   \* checkpoint.json
    lease,        \* writer.lease: whose it is, and whether it has not expired
    pc, mem,      \* per writer: where it is, and the session in memory
    todo,         \* per writer: records to replay, or to append
    processes,    \* processes so far
    cut           \* one was killed between a tick's first record and its checkpoint

disk == <<journal, tornEnd, checkpoint>>
sessionVars == <<market, disk, lease, pc, mem, todo, processes, cut>>

Ticks == 1..LastTick
Legs == {"spot", "perp"}
Order == [leg : Legs, buy : BOOLEAN, left : Nat \ {0}]
Fill == [tick : Ticks, leg : Legs, buy : BOOLEAN, qty : Nat \ {0}]
Record == [kind : {"started", "tick", "fill", "order", "stopped"}, seq : Nat,
           tick : Ticks \cup {0}, fill : Fill \cup {None}]
Status == {"stopped", "running", "halted"}

\* The checkpoint is a session without the broker's orders.
Fresh == [ticks |-> <<>>, fills |-> <<>>, orders |-> <<>>,
          status |-> "running", breakers |-> FALSE, seq |-> 0]
Saved(m) == [m EXCEPT !.orders = <<>>]

LastOf(m) == IF m.ticks = <<>> THEN 0 ELSE m.ticks[Len(m.ticks)]
Rec(kind, seq, tick, fill) == [kind |-> kind, seq |-> seq, tick |-> tick, fill |-> fill]

\* paper-start: the session of a process that is gone; its lease is not released.
SessionInit ==
    /\ market \in [wants : SUBSET Ticks, thin : SUBSET Ticks, gaps : SUBSET (Ticks \ {1})]
    /\ journal = <<Rec("started", 0, 0, None)>> /\ tornEnd = FALSE
    /\ checkpoint = Fresh
    /\ lease = [token |-> None, live |-> TRUE]
    /\ pc = [w \in Writers |-> "off"] /\ mem = [w \in Writers |-> Fresh]
    /\ todo = [w \in Writers |-> <<>>]
    /\ processes = 0 /\ cut = FALSE

------------------------------------------------------------------------------
(* A tick: _apply_tick.                                                     *)

Min2(a, b) == IF a < b THEN a ELSE b
Max2(a, b) == IF a < b THEN b ELSE a
Abs(n) == IF n < 0 THEN -n ELSE n

\* PositionLedger.position: what the fills of a leg add up to.
Signed(f) == IF f.buy THEN f.qty ELSE -f.qty
Position(leg, fills) ==
    LET sum[n \in 0..Len(fills)] ==
            IF n = 0 THEN 0
            ELSE IF fills[n].leg = leg THEN sum[n - 1] + Signed(fills[n]) ELSE sum[n - 1]
    IN  sum[Len(fills)]

\* SimulatedBroker.match: every open order, whole or, in a thin market, a unit of it.
Quantity(o, t) == IF t \in market.thin THEN Min2(1, o.left) ELSE o.left
Match(orders, t) ==
    [i \in DOMAIN orders |->
        [tick |-> t, leg |-> orders[i].leg, buy |-> orders[i].buy, qty |-> Quantity(orders[i], t)]]
After(o, t) == [o EXCEPT !.left = @ - Quantity(o, t)]
Remaining(orders, t) ==
    LET open[n \in 0..Len(orders)] ==
            IF n = 0 THEN <<>>
            ELSE IF After(orders[n], t).left > 0 THEN Append(open[n - 1], After(orders[n], t))
            ELSE open[n - 1]
    IN  open[Len(orders)]

\* _submit_two_leg.
Legged(leg, buy, qty) == IF qty = 0 THEN <<>> ELSE <<[leg |-> leg, buy |-> buy, left |-> qty]>>
OpenLegs == Legged("spot", TRUE, Target) \o Legged("perp", FALSE, Target)
CloseLegs(fills) ==
    Legged("spot", FALSE, Abs(Position("spot", fills)))
        \o Legged("perp", TRUE, Abs(Position("perp", fills)))

\* _act: the position alone is looked at, not the orders that are still open.
Act(status, fills, t) ==
    LET holding == Position("spot", fills) # 0 IN
    IF status # "running" \/ (t \in market.wants <=> holding) THEN <<>>
    ELSE IF holding THEN CloseLegs(fills) ELSE OpenLegs

\* _trip of the stale-data breaker.
Tripped(m, t) ==
    [m EXCEPT !.breakers = @ \/ t \in market.gaps,
              !.status = IF t \in market.gaps THEN "halted" ELSE @]

\* The session after a tick, and the records it appends meanwhile.
AfterTick(m0, t) ==
    LET m == Tripped(m0, t)
        filled == Match(m.orders, t)
        fills == m.fills \o filled
        new == Act(m.status, fills, t) IN
    [m EXCEPT !.ticks = Append(@, t), !.fills = fills,
              !.orders = Remaining(m.orders, t) \o new,
              !.seq = @ + Len(filled) + Len(new)]

\* Mutant of Appended: a fill that takes a whole order is not journaled.
AppendedInPart(m, t) ==
    SelectSeq([i \in DOMAIN Match(m.orders, t) |-> Rec("fill", m.seq + i, t, Match(m.orders, t)[i])],
              LAMBDA r : r.fill.qty # Target)

\* ... each of them with the next sequence number.
Appended(m, t) ==
    LET filled == Match(m.orders, t)
        new == Len(AfterTick(m, t).orders) - Len(Remaining(m.orders, t)) IN
    [i \in 1..(Len(filled) + new) |->
        IF i <= Len(filled) THEN Rec("fill", m.seq + i, t, filled[i])
        ELSE Rec("order", m.seq + i, t, None)]

------------------------------------------------------------------------------
(* The lease and the journal.                                               *)

Goto(w, to) == pc' = [pc EXCEPT ![w] = to]
Remember(w, m) == mem' = [mem EXCEPT ![w] = m]

\* _append_journal: after a torn line nothing is read.
Write(r) == journal' = IF tornEnd THEN journal ELSE Append(journal, r)

\* WriterLease.acquire reads the file: nobody's, released or expired.
Open(w) ==
    /\ pc[w] = "off" /\ ~lease.live /\ processes < MaxOpened
    /\ Goto(w, "acquire") /\ processes' = processes + 1
    /\ UNCHANGED <<market, disk, lease, mem, todo, cut>>

\* ... and writes it.
Acquire(w) ==
    /\ pc[w] = "acquire"
    /\ lease' = [token |-> w, live |-> TRUE]
    /\ Goto(w, "restore")
    /\ UNCHANGED <<market, disk, mem, todo, processes, cut>>

\* LEASE_TTL_SECONDS go by without a renewal.
Expire ==
    /\ lease.live
    /\ lease' = [lease EXCEPT !.live = FALSE]
    /\ UNCHANGED <<market, disk, pc, mem, todo, processes, cut>>

------------------------------------------------------------------------------
(* resume().                                                                *)

\* Mutant of Restore: the books are rebuilt from the journal alone.
RestoreFresh(w) ==
    /\ pc[w] = "restore"
    /\ Remember(w, [Fresh EXCEPT !.status = "stopped"])
    /\ todo' = [todo EXCEPT ![w] = journal]
    /\ Goto(w, "replay")
    /\ UNCHANGED <<market, disk, lease, processes, cut>>

\* _restore, with an empty broker and a session that is still stopped; the journal is read.
Restore(w) ==
    /\ pc[w] = "restore"
    /\ Remember(w, [checkpoint EXCEPT !.status = "stopped"])
    /\ todo' = [todo EXCEPT ![w] = journal]
    /\ Goto(w, "replay")
    /\ UNCHANGED <<market, disk, lease, processes, cut>>

\* Mutant of Replay: the ticks the checkpoint already has are applied again.
ReplayAll(w) ==
    /\ pc[w] = "replay" /\ todo[w] # <<>>
    /\ LET r == Head(todo[w]) IN
       IF r.kind # "tick" THEN UNCHANGED mem
       ELSE Remember(w, AfterTick([mem[w] EXCEPT !.seq = Max2(@, r.seq)], r.tick))
    /\ todo' = [todo EXCEPT ![w] = Tail(@)]
    /\ UNCHANGED <<market, disk, lease, pc, processes, cut>>

\* _apply_tick_record, of the ticks beyond the checkpoint.  Nothing is appended: no order is
\* in the broker, and the strategy does not act before the session runs.
Replay(w) ==
    /\ pc[w] = "replay" /\ todo[w] # <<>>
    /\ LET r == Head(todo[w]) IN
       IF r.seq <= mem[w].seq \/ r.kind # "tick" THEN UNCHANGED mem
       ELSE Remember(w, AfterTick([mem[w] EXCEPT !.seq = Max2(@, r.seq)], r.tick))
    /\ todo' = [todo EXCEPT ![w] = Tail(@)]
    /\ UNCHANGED <<market, disk, lease, pc, processes, cut>>

\* The status is the checkpoint's, and a recorded breaker rebuilds the halt.
Resumed(w) ==
    /\ pc[w] = "replay" /\ todo[w] = <<>>
    /\ Remember(w, [mem[w] EXCEPT !.status =
          IF mem[w].breakers THEN "halted"
          ELSE IF checkpoint.status = "stopped" THEN "running" ELSE checkpoint.status])
    /\ Goto(w, "save")
    /\ UNCHANGED <<market, disk, lease, todo, processes, cut>>

Save(w) ==
    /\ pc[w] = "save"
    /\ checkpoint' = Saved(mem[w]) /\ Goto(w, "ready")
    /\ UNCHANGED <<market, journal, tornEnd, lease, mem, todo, processes, cut>>

------------------------------------------------------------------------------
(* advance(), one tick at a time.                                           *)

\* Mutant of Feed: the checkpoint first, the journal after it.
FeedCheckpoint(w) ==
    /\ pc[w] = "ready" /\ mem[w].status = "running" /\ LastOf(mem[w]) < LastTick
    /\ LET t == LastOf(mem[w]) + 1
           m == [mem[w] EXCEPT !.seq = @ + 1] IN
       /\ checkpoint' = Saved(AfterTick(m, t))
       /\ Remember(w, AfterTick(m, t))
       /\ todo' = [todo EXCEPT ![w] = <<Rec("tick", m.seq, t, None)>> \o Appended(m, t)]
    /\ Goto(w, "append")
    /\ UNCHANGED <<market, journal, tornEnd, lease, processes, cut>>

\* The next tick is journaled first, then applied.
Feed(w) ==
    /\ pc[w] = "ready" /\ mem[w].status = "running" /\ LastOf(mem[w]) < LastTick
    /\ LET t == LastOf(mem[w]) + 1
           m == [mem[w] EXCEPT !.seq = @ + 1] IN
       /\ Write(Rec("tick", m.seq, t, None))
       /\ Remember(w, AfterTick(m, t))
       /\ todo' = [todo EXCEPT ![w] = Appended(m, t)]
    /\ Goto(w, "append")
    /\ UNCHANGED <<market, tornEnd, checkpoint, lease, processes, cut>>

\* ... which appends its fills and orders.
AppendNext(w) ==
    /\ pc[w] = "append" /\ todo[w] # <<>>
    /\ Write(Head(todo[w])) /\ todo' = [todo EXCEPT ![w] = Tail(@)]
    /\ UNCHANGED <<market, tornEnd, checkpoint, lease, pc, mem, processes, cut>>

WriteCheckpoint(w) ==
    /\ pc[w] = "append" /\ todo[w] = <<>>
    /\ checkpoint' = Saved(mem[w]) /\ Goto(w, "renew")
    /\ UNCHANGED <<market, journal, tornEnd, lease, mem, todo, processes, cut>>

\* WriterLease.renew, whoever holds it by now.
Renew(w) ==
    /\ pc[w] = "renew"
    /\ lease' = [token |-> w, live |-> TRUE] /\ Goto(w, "ready")
    /\ UNCHANGED <<market, disk, mem, todo, processes, cut>>

------------------------------------------------------------------------------
(* Reporting, stopping, dying.                                              *)

FillsIn(records) ==
    LET read[n \in 0..Len(records)] ==
            IF n = 0 THEN <<>>
            ELSE IF records[n].kind = "fill" THEN Append(read[n - 1], records[n].fill)
            ELSE read[n - 1]
    IN  read[Len(records)]

\* reconcile(): the journal's fills give the ledger's books.
Reconciles(m) == FillsIn(journal) = m.fills

\* status_report: a mismatch trips a breaker, in memory.
Report(w) ==
    /\ pc[w] = "ready" /\ ~Reconciles(mem[w])
    /\ Remember(w, [mem[w] EXCEPT !.breakers = TRUE, !.status = "halted"])
    /\ UNCHANGED <<market, disk, lease, pc, todo, processes, cut>>

\* stop(): journal, checkpoint, release.
Stop(w) ==
    /\ pc[w] = "ready"
    /\ LET m == [mem[w] EXCEPT !.seq = @ + 1,
                              !.status = IF @ = "halted" THEN @ ELSE "stopped"] IN
       Write(Rec("stopped", m.seq, 0, None)) /\ Remember(w, m)
    /\ Goto(w, "stop")
    /\ UNCHANGED <<market, tornEnd, checkpoint, lease, todo, processes, cut>>

SaveStopped(w) ==
    /\ pc[w] = "stop"
    /\ checkpoint' = Saved(mem[w]) /\ Goto(w, "release")
    /\ UNCHANGED <<market, journal, tornEnd, lease, mem, todo, processes, cut>>

\* WriterLease.release removes the file, whoever's it is.
ReleaseLease(w) ==
    /\ pc[w] = "release"
    /\ lease' = [token |-> None, live |-> FALSE]
    /\ Goto(w, "off") /\ Remember(w, Fresh)
    /\ UNCHANGED <<market, disk, todo, processes, cut>>

\* A process ends: its memory is gone and its lease is nobody's, until it expires.
Ends(w) ==
    /\ lease' = [lease EXCEPT !.token = IF @ = w THEN None ELSE @]
    /\ Goto(w, "off") /\ Remember(w, Fresh) /\ todo' = [todo EXCEPT ![w] = <<>>]

\* paper-run, -status and -resume end without releasing it.
Exit(w) ==
    /\ pc[w] = "ready"
    /\ Ends(w)
    /\ UNCHANGED <<market, disk, processes, cut>>

\* A kill; in the middle of an append it leaves a torn last line.
Kill(w) ==
    /\ pc[w] # "off"
    /\ tornEnd' \in {tornEnd} \cup (IF pc[w] = "ready" \/ (pc[w] = "append" /\ todo[w] # <<>>)
                               THEN {TRUE} ELSE {})
    /\ cut' = (cut \/ tornEnd' \/ pc[w] = "append")
    /\ Ends(w)
    /\ UNCHANGED <<market, journal, checkpoint, processes>>

SessionNext ==
    \/ Expire
    \/ \E w \in Writers :
          \/ Open(w) \/ Acquire(w) \/ Restore(w) \/ Replay(w) \/ Resumed(w) \/ Save(w)
          \/ Feed(w) \/ AppendNext(w) \/ WriteCheckpoint(w) \/ Renew(w)
          \/ Report(w) \/ Stop(w) \/ SaveStopped(w) \/ ReleaseLease(w)
          \/ Exit(w) \/ Kill(w)

SessionSpec == SessionInit /\ [][SessionNext]_sessionVars

------------------------------------------------------------------------------
SessionType == [ticks : Seq(Ticks), fills : Seq(Fill), orders : Seq(Order),
                status : Status, breakers : BOOLEAN, seq : Nat]

\* Every variable keeps its shape; the broker's orders are never in the checkpoint.
SessionTypes ==
    /\ journal \in Seq(Record) /\ tornEnd \in BOOLEAN
    /\ checkpoint \in SessionType /\ checkpoint.orders = <<>>
    /\ lease \in [token : Writers \cup {None}, live : BOOLEAN]
    /\ mem \in [Writers -> SessionType] /\ todo \in [Writers -> Seq(Record)]
    /\ pc \in [Writers -> {"off", "acquire", "restore", "replay", "save", "ready", "append",
                           "renew", "stop", "release"}]
    /\ processes \in 0..MaxOpened /\ cut \in BOOLEAN

EachOnce(ticks) == \A i \in DOMAIN ticks : ticks[i] = i

\* "Exactly-once": whatever is killed and wherever the journal is cut, the books have every
\* tick of the feed once and in order, in memory and in the checkpoint
\* (paper_session.py: resume, advance).
TicksOnce == SessionTypes /\ EachOnce(checkpoint.ticks) /\ \A w \in Writers : EachOnce(mem[w].ticks)

\* "Append the journal before mutating the checkpoint": a tick of the checkpoint can be read
\* in the journal, unless a line was torn (paper_session.py: advance, stop).
WriteAhead ==
    tornEnd \/ \A i \in DOMAIN checkpoint.ticks :
               \E j \in DOMAIN journal : journal[j].kind = "tick"
                                         /\ journal[j].tick = checkpoint.ticks[i]

\* The journal gives the running books back in every process, but for one case: a process
\* was killed between a tick's first record and its checkpoint, or tore a line
\* (paper_session.py: reconcile).
ReconcilesUnlessCut ==
    \A w \in Writers : pc[w] \in {"ready", "renew"} /\ ~cut => Reconciles(mem[w])

\* "HALTED is terminal": once a checkpoint records a breaker, no restart, stop or kill clears
\* it or moves the books (paper_session.py: resume, stop, _trip).
HaltIsFinal ==
    [][checkpoint.breakers =>
         checkpoint'.breakers /\ checkpoint'.ticks = checkpoint.ticks]_sessionVars

Durable == INSTANCE DurableBooks WITH ticks <- checkpoint.ticks, halted <- checkpoint.breakers

\* "Replay the journal exactly once": to whoever reads the checkpoint, processes that are killed and
\* resumed are one session, whose books only ever take the feed's next ticks: none twice,
\* none lost again, wherever the journal is torn (paper_session.py: advance, resume, _restore).
KeepsBooks == Durable!Spec

\* "1 to hold the carry, 0 to stand flat": the session is long spot and short perp, or flat
\* (paper_engine.py: desired_position; paper_session.py: _act).
NeverReversed ==
    \A w \in Writers : Position("spot", mem[w].fills) >= 0 /\ Position("perp", mem[w].fills) <= 0

\* The session that no process left: its books after n ticks.
Uninterrupted[n \in 0..LastTick] ==
    IF n = 0 THEN Fresh ELSE AfterTick(Uninterrupted[n - 1], n)

\* "A crash between the two replays the journal on restart and lands in the same place": a
\* session that was resumed has the fills of one that was never killed (paper_session.py: 11).
SamePlace ==
    \A w \in Writers : pc[w] = "ready" /\ mem[w].status = "running" =>
        mem[w].fills = Uninterrupted[LastOf(mem[w])].fills

\* "Every event carries a strictly increasing sequence" (paper_session.py: 15).
SequencesIncrease ==
    \A i, j \in DOMAIN journal : i < j => journal[i].seq < journal[j].seq

\* "One writer": two processes are never inside the session at once (paper_session.py: 13).
OneWriter ==
    \A v, w \in Writers : v # w => pc[v] \in {"off", "acquire"} \/ pc[w] \in {"off", "acquire"}
=============================================================================
