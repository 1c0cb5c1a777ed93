---------------------------- MODULE ShadowJournal -----------------------------
(***************************************************************************)
(* The shadow portfolio (opportunities/shadow.py): events.jsonl is written *)
(* ahead of snapshots.jsonl, that ahead of checkpoint.json, and every      *)
(* command first rebuilds what a crash left out.  The commands are         *)
(* processes of their own; nothing in the code keeps two from overlapping. *)
(*                                                                         *)
(* An event is its sequence number; timestamps rise with it, and a batch   *)
(* never contradicts the journal, so the refusals of duplicated, reordered *)
(* or conflicting input are left out.  The hash of a record stands for all *)
(* that precedes it: a record keeps the events it follows.  Amounts are    *)
(* left out: an equity is the sequence of events it adds up.               *)
(***************************************************************************)
EXTENDS Integers, Sequences, FiniteSets, SequencesExt

CONSTANTS
    Procs,      \* processes that run commands
    LastEvent,  \* bound: the events of the feed
    MaxCommands,\* bound: commands started
    MaxCuts,    \* bound: appends cut short (power lost, disk full)
    Torn,       \* a line that is not one JSON record
    Genesis     \* what the first snapshot follows

VARIABLES
    status,             \* of state.json, replaced as a whole
    events, snapshots,  \* files: their lines, and whether the last one lacks its newline
    checkpoint,         \* checkpoint.json: the events and the snapshot it names
    pc, mem,            \* per process: where it is and what it has read
    commands, cuts,     \* how many so far
    acked,              \* events a finished shadow_advance reported
    overlap,            \* "none", "readers" beside a writer, or two "advances"
    tripped             \* a reconciliation found a kill switch engaged

files == <<events, snapshots, checkpoint>>
ghosts == <<acked, overlap, tripped>>
vars == <<status, files, pc, mem, commands, cuts, ghosts>>

Commands == {"start", "advance", "reconcile", "status", "stop"}
Feed == 1..LastEvent
Chain == Seq(Feed)

\* A record names what it follows: the events before it, or the snapshot before it.
EventRecord == [seq : Feed, after : Chain]
SnapshotRecord == [at : Chain, after : Chain \cup {Genesis}]

ASSUME ShadowConstants ==
    /\ LastEvent \in Nat /\ MaxCommands \in Nat /\ MaxCuts \in Nat
    /\ Torn \notin EventRecord \cup SnapshotRecord

Empty == [lines |-> <<>>, open |-> FALSE]

Idle == [cmd |-> "none", status |-> "none", batch |-> <<>>, todo |-> <<>>,
         events |-> <<>>, snapshots |-> <<>>]

Init ==
    /\ status = "none"
    /\ events = Empty /\ snapshots = Empty
    /\ checkpoint = [events |-> <<>>, snapshot |-> Genesis]
    /\ pc = [p \in Procs |-> "idle"] /\ mem = [p \in Procs |-> Idle]
    /\ commands = 0 /\ cuts = 0
    /\ acked = {} /\ overlap = "none" /\ tripped = FALSE

------------------------------------------------------------------------------
(* Files: _append_fsynced, _read_jsonl, _verify_chain.                      *)

\* What is appended to a line without a newline becomes part of that line.
Appended(file, record) ==
    IF file.open THEN [lines |-> Append(Front(file.lines), Torn), open |-> FALSE]
    ELSE [file EXCEPT !.lines = Append(@, record)]

\* What an append leaves that is cut short: a part of the record, or all but its newline.
CutShort(file, record) ==
    IF file.open THEN {[file EXCEPT !.lines = Append(Front(@), Torn)]}
    ELSE {[lines |-> Append(file.lines, r), open |-> TRUE] : r \in {record, Torn}}

Readable(file) == Torn \notin Range(file.lines)

Seqs(lines) == [i \in DOMAIN lines |-> lines[i].seq]
Ats(lines) == [i \in DOMAIN lines |-> lines[i].at]
LastAt(lines) == IF lines = <<>> THEN Genesis ELSE Last(lines).at

\* The hash chain of the events, and their strictly increasing sequence.
EventsSound(lines) ==
    \A i \in DOMAIN lines :
        /\ lines[i].after = Seqs(SubSeq(lines, 1, i - 1))
        /\ \A j \in 1..(i - 1) : lines[j].seq < lines[i].seq

\* expected_payloads: a snapshot of the start and one after every event.
Expected(seqs) == [i \in 1..(Len(seqs) + 1) |-> SubSeq(seqs, 1, i - 1)]

\* The chain of the snapshots, and each of them the one its event calls for.
SnapshotsSound(lines, seqs) ==
    /\ Len(lines) <= Len(seqs) + 1
    /\ \A i \in DOMAIN lines :
        /\ lines[i].after = LastAt(SubSeq(lines, 1, i - 1))
        /\ lines[i].at = Expected(seqs)[i]

\* _recover_checkpoint raises nothing on these files.
Accepts(evs, snaps) ==
    /\ Readable(evs) /\ Readable(snaps)
    /\ EventsSound(evs.lines) /\ SnapshotsSound(snaps.lines, Seqs(evs.lines))

------------------------------------------------------------------------------
(* A command: it loads the state, recovers, and does its work.              *)

Goto(p, to) == pc' = [pc EXCEPT ![p] = to]
Ends(p) == pc' = [pc EXCEPT ![p] = "idle"] /\ mem' = [mem EXCEPT ![p] = Idle]

Others(p) == {q \in Procs \ {p} : pc[q] # "idle"}

\* What overlaps from now on: two that append events, or others.
Overlapping(p, cmd) ==
    IF Others(p) = {} \/ overlap = "advances" THEN overlap
    ELSE IF cmd = "advance" /\ \E q \in Others(p) : mem[q].cmd = "advance" THEN "advances"
    ELSE "readers"

Begin(p, cmd, batch) ==
    /\ pc[p] = "idle" /\ commands < MaxCommands
    /\ commands' = commands + 1
    /\ mem' = [mem EXCEPT ![p] = [Idle EXCEPT !.cmd = cmd, !.batch = batch, !.todo = batch,
                                  !.status = IF cmd = "start" THEN "RUNNING" ELSE status]]
    /\ overlap' = Overlapping(p, cmd)
    /\ Goto(p, "events")
    /\ UNCHANGED <<files, cuts, acked, tripped>>

\* shadow_start, whose look at state.json and its write are one action.
Start(p) == status = "none" /\ status' = "RUNNING" /\ Begin(p, "start", <<>>)

\* What shadow_advance is given: events in order.
Batches == {b \in BoundedSeq(Feed, LastEvent) :
               b # <<>> /\ \A i \in DOMAIN b, j \in DOMAIN b : i < j => b[i] < b[j]}

\* Mutant of Advance: the status is not looked at.
AdvanceAnyway(p) ==
    /\ status # "none" /\ UNCHANGED status
    /\ \E batch \in Batches : Begin(p, "advance", batch)

\* shadow_advance on a batch; shadow_reconcile, shadow_status, shadow_stop.
Advance(p) ==
    /\ status = "RUNNING" /\ UNCHANGED status
    /\ \E batch \in Batches : Begin(p, "advance", batch)
Command(p) ==
    /\ status # "none" /\ UNCHANGED status
    /\ \E cmd \in {"reconcile", "status", "stop"} : Begin(p, cmd, <<>>)

\* A ValueError: reconcile halts the session, over a stop too; status halts one it
\* saw running, if it can read the events again; the other commands just end.
Halts(p) ==
    \/ mem[p].cmd = "reconcile"
    \/ mem[p].cmd = "status" /\ mem[p].status = "RUNNING" /\ Readable(events)

Refuse(p) ==
    /\ status' = IF Halts(p) THEN "HALTED" ELSE status
    /\ Ends(p)
    /\ UNCHANGED <<files, commands, cuts, ghosts>>

ReadEvents(p) ==
    /\ pc[p] = "events"
    /\ IF Readable(events)
       THEN /\ mem' = [mem EXCEPT ![p].events = events.lines]
            /\ Goto(p, "snapshots")
            /\ UNCHANGED <<status, files, commands, cuts, ghosts>>
       ELSE Refuse(p)

\* ... a moment later the snapshots, and what the two say together.
ReadSnapshots(p) ==
    /\ pc[p] = "snapshots"
    /\ IF Accepts([events EXCEPT !.lines = mem[p].events], snapshots)
       THEN /\ mem' = [mem EXCEPT ![p].snapshots = snapshots.lines]
            /\ Goto(p, "repair")
            /\ UNCHANGED <<status, files, commands, cuts, ghosts>>
       ELSE Refuse(p)

------------------------------------------------------------------------------
(* The writes.                                                              *)

Known(p) == Seqs(mem[p].events)
Snapshot(p, at) == [at |-> at, after |-> LastAt(mem[p].snapshots)]

\* The snapshot a recovery finds missing, and the one of the event just applied.
NextSnapshot(p) ==
    Snapshot(p, IF pc[p] = "repair" THEN Expected(Known(p))[Len(mem[p].snapshots) + 1] ELSE Known(p))

\* Mutant of NextEvent: an event is chained to the checkpoint's last one.
NextEventFromCheckpoint(p) == [seq |-> Head(mem[p].todo), after |-> checkpoint.events]

NextEvent(p) == [seq |-> Head(mem[p].todo), after |-> Known(p)]

WriteSnapshot(p, to) ==
    /\ snapshots' = Appended(snapshots, NextSnapshot(p))
    /\ mem' = [mem EXCEPT ![p].snapshots = Append(@, NextSnapshot(p))]
    /\ Goto(p, to)
    /\ UNCHANGED <<status, events, checkpoint, commands, cuts, ghosts>>

WriteCheckpoint(p, to) ==
    /\ checkpoint' = [events |-> Known(p), snapshot |-> LastAt(mem[p].snapshots)]
    /\ Goto(p, to)
    /\ UNCHANGED <<status, events, snapshots, commands, cuts, ghosts>>

\* Mutant of Repairing: off by one, the last snapshot is not looked for.
RepairingShort(p) == pc[p] = "repair" /\ Len(mem[p].snapshots) < Len(mem[p].events)

\* The end of _recover_checkpoint: the snapshots that are missing, then the checkpoint.
Repairing(p) == pc[p] = "repair" /\ Len(mem[p].snapshots) <= Len(mem[p].events)
Repair(p) ==
    \/ Repairing(p) /\ WriteSnapshot(p, "repair")
    \/ /\ pc[p] = "repair" /\ ~Repairing(p)
       /\ WriteCheckpoint(p, "work") /\ UNCHANGED mem

\* The next event of the batch, unless the journal has it.
Applying(p) ==
    /\ pc[p] = "work" /\ mem[p].cmd = "advance" /\ mem[p].todo # <<>>
    /\ Head(mem[p].todo) \notin Range(Known(p))

Skip(p) ==
    /\ pc[p] = "work" /\ mem[p].cmd = "advance" /\ mem[p].todo # <<>>
    /\ ~Applying(p)
    /\ mem' = [mem EXCEPT ![p].todo = Tail(@)]
    /\ UNCHANGED <<status, files, pc, commands, cuts, ghosts>>

\* "must be strictly monotonic": the batch ends here, what it has applied stays.
OutOfOrder(p) == Known(p) # <<>> /\ Head(mem[p].todo) <= Last(Known(p))

RefuseEvent(p) ==
    /\ Applying(p) /\ OutOfOrder(p)
    /\ Ends(p) /\ UNCHANGED <<status, files, commands, cuts, ghosts>>

\* The event first, then its snapshot, then the checkpoint.
ApplyEvent(p) ==
    /\ Applying(p) /\ ~OutOfOrder(p)
    /\ events' = Appended(events, NextEvent(p))
    /\ mem' = [mem EXCEPT ![p].events = Append(@, NextEvent(p)), ![p].todo = Tail(@)]
    /\ Goto(p, "applied")
    /\ UNCHANGED <<status, snapshots, checkpoint, commands, cuts, ghosts>>
ApplySnapshot(p) == pc[p] = "applied" /\ WriteSnapshot(p, "marked")
ApplyCheckpoint(p) == pc[p] = "marked" /\ WriteCheckpoint(p, "work") /\ UNCHANGED mem

\* The end of a command.
Finish(p) ==
    /\ pc[p] = "work"
    /\ \/ /\ mem[p].cmd \in {"start", "status"} /\ UNCHANGED <<status, acked, tripped>>
       \/ /\ mem[p].cmd = "advance" /\ mem[p].todo = <<>>
          /\ acked' = acked \cup Range(mem[p].batch) /\ UNCHANGED <<status, tripped>>
       \/ /\ mem[p].cmd = "stop" /\ status' = "STOPPED" /\ UNCHANGED <<acked, tripped>>
       \/ /\ mem[p].cmd = "reconcile" /\ UNCHANGED acked
          /\ \E engaged \in BOOLEAN :  \* stale data, or the drawdown
                /\ tripped' = (tripped \/ engaged)
                /\ status' = IF engaged /\ mem[p].status = "RUNNING" THEN "HALTED" ELSE status
    /\ Ends(p)
    /\ UNCHANGED <<files, commands, cuts, overlap>>

\* The process is killed between two writes, or its append is cut short.
Dies(p) ==
    /\ pc[p] # "idle"
    /\ Ends(p) /\ UNCHANGED <<status, files, commands, cuts, ghosts>>
DiesWriting(p) ==
    /\ cuts < MaxCuts /\ cuts' = cuts + 1
    /\ \/ /\ Applying(p) /\ ~OutOfOrder(p)
          /\ events' \in CutShort(events, NextEvent(p)) /\ UNCHANGED snapshots
       \/ /\ Repairing(p) \/ pc[p] = "applied"
          /\ snapshots' \in CutShort(snapshots, NextSnapshot(p)) /\ UNCHANGED events
    /\ Ends(p)
    /\ UNCHANGED <<status, checkpoint, commands, ghosts>>

Next ==
    \E p \in Procs :
        \/ Start(p) \/ Advance(p) \/ Command(p)
        \/ ReadEvents(p) \/ ReadSnapshots(p) \/ Repair(p)
        \/ Skip(p) \/ RefuseEvent(p)
        \/ ApplyEvent(p) \/ ApplySnapshot(p) \/ ApplyCheckpoint(p)
        \/ Finish(p) \/ Dies(p) \/ DiesWriting(p)

Spec == Init /\ [][Next]_vars

------------------------------------------------------------------------------
(* Properties.                                                              *)

\* Types: what the files hold, and where a process can be.
TypeOK ==
    /\ status \in {"none", "RUNNING", "HALTED", "STOPPED"}
    /\ Range(events.lines) \subseteq EventRecord \cup {Torn} /\ events.open \in BOOLEAN
    /\ Range(snapshots.lines) \subseteq SnapshotRecord \cup {Torn} /\ snapshots.open \in BOOLEAN
    /\ checkpoint.events \in Chain /\ checkpoint.snapshot \in Chain \cup {Genesis}
    /\ \A p \in Procs :
        /\ pc[p] \in {"idle", "events", "snapshots", "repair", "work", "applied", "marked"}
        /\ pc[p] = "idle" <=> mem[p] = Idle
        /\ mem[p].cmd \in Commands \cup {"none"}

\* Commands that run one after the other, killed anywhere between their writes, leave
\* files that _recover_checkpoint accepts: at most one snapshot behind the events, never
\* ahead of them; and the session is halted only because a kill switch was engaged.
RecoversAlone ==
    overlap = "none" /\ cuts = 0 =>
        /\ Accepts(events, snapshots)
        /\ Len(events.lines) <= Len(snapshots.lines)
        /\ status = "HALTED" => tripped

\* An event that shadow_advance reported is in the journal, once unless two of them ran at
\* the same time: resubmitted batches, kills and commands that read meanwhile change nothing.
AppliedOnce ==
    cuts = 0 =>
        \A e \in acked :
            LET n == Cardinality({i \in DOMAIN events.lines : events.lines[i].seq = e}) IN
            n >= 1 /\ (overlap # "advances" => n = 1)

\* shadow_status and shadow_reconcile beside a shadow_advance never harm the events: what was
\* reported is applied once, the chain can be verified, and the checkpoint names a part of it
\* and a snapshot not beyond.
EventsOutliveReaders ==
    /\ TypeOK /\ AppliedOnce
    /\ cuts = 0 /\ overlap # "advances" =>
        /\ EventsSound(events.lines)
        /\ IsPrefix(checkpoint.events, Seqs(events.lines))
        /\ checkpoint.snapshot # Genesis => checkpoint.snapshot = checkpoint.events

\* A session that was halted or stopped takes no more events, except from a command that
\* saw it running, and never runs again, whatever state a slow command still holds.
HaltHolds ==
    [][/\ status \in {"HALTED", "STOPPED"} => status' # "RUNNING"
       /\ events' # events => \E p \in Procs : mem[p].status = "RUNNING" /\ pc[p] = "work"]_vars

\* What docs/REVENUE_VALIDATION_V7_REPORT.md:99 says of the shadow WAL, that it is crash
\* recoverable, asked of an append cut short as well.
RecoversFromCut == overlap = "none" => Accepts(events, snapshots)

\* The same, asked of a status or a reconciliation beside an advance.
RecoversBesideReaders == cuts = 0 /\ overlap # "advances" => Accepts(events, snapshots)
==============================================================================
