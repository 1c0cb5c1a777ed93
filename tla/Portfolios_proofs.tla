-------------------------- MODULE Portfolios_proofs --------------------------
(***************************************************************************)
(* Proofs about the two portfolios that only follow the market on paper.   *)
(*                                                                         *)
(* ShadowJournal, for any number of processes, events, commands and cuts:  *)
(* commands that run one after the other always leave files that can be    *)
(* recovered, those that only read never harm the events, and what was     *)
(* halted or stopped takes no more of them.                                *)
(*                                                                         *)
(* PersonalPaper, for any books, strategies, markets, sessions and limits: *)
(* whatever runs, when and from what it read, orders fill at the next      *)
(* opening or never, dividends are credited once, no book blocks the       *)
(* others, and a book beyond its limits is paused as long as no quote      *)
(* comes before the close of the day before.                               *)
(***************************************************************************)
EXTENDS ShadowJournal, PersonalPaper, FiniteSetTheorems, SequenceTheorems,
        WellFoundedInduction, TLAPS

------------------------------------------------------------------------------
(* The shadow portfolio: the inductive invariant.                           *)

Statuses == {"none", "RUNNING", "HALTED", "STOPPED"}
Places == {"idle", "events", "snapshots", "repair", "work", "applied", "marked"}
Memory == [cmd : Commands \cup {"none"}, status : Statuses, batch : Chain, todo : Chain,
           events : Seq(EventRecord), snapshots : Seq(SnapshotRecord)]

\* A process that has read both journals.
HasRead(at) == at \in {"repair", "work", "applied", "marked"}

\* A command is at a point of its function, and what it has read and written itself is
\* sound: whatever others do to the files.
MemOK(at, m) ==
    /\ m \in Memory
    /\ at = "idle" => m = Idle
    /\ at # "idle" => m.cmd # "none"
    /\ m.cmd = "advance" => m.status = "RUNNING"
    /\ HasRead(at) => EventsSound(m.events) /\ SnapshotsSound(m.snapshots, Seqs(m.events))
    /\ at \in {"work", "marked"} => Len(m.snapshots) = Len(m.events) + 1
    /\ at = "applied" => Len(m.snapshots) = Len(m.events)

Shape ==
    /\ status \in Statuses
    /\ events \in [lines : Seq(EventRecord \cup {Torn}), open : BOOLEAN]
    /\ snapshots \in [lines : Seq(SnapshotRecord \cup {Torn}), open : BOOLEAN]
    /\ checkpoint \in [events : Chain, snapshot : Chain \cup {Genesis}]
    /\ cuts \in Nat
    /\ pc \in [Procs -> Places] /\ mem = [p \in Procs |-> mem[p]]
    /\ \A p \in Procs : MemOK(pc[p], mem[p])

\* The journal has an event, and its lines come to a reader.
Has(lines, e) == \E i \in DOMAIN lines : lines[i].seq = e

\* What a command knows of the journal is there, and so is what it took from its batch.
Held(m, lines) ==
    /\ \A i \in DOMAIN m.events : Has(lines, m.events[i].seq)
    /\ m.cmd = "advance" =>
          \A i \in DOMAIN m.batch : m.batch[i] \notin Range(m.todo) => Has(lines, m.batch[i])

\* As long as no append was cut short.
Uncut ==
    /\ events.lines \in Seq(EventRecord) /\ ~events.open
    /\ snapshots.lines \in Seq(SnapshotRecord) /\ ~snapshots.open
    /\ \A e \in acked : Has(events.lines, e)
    /\ \A p \in Procs : Held(mem[p], events.lines)

\* A command has read a part of the journal, an advance all of it.
Partly(at, m, lines) ==
    at \notin {"idle", "events"} =>
        /\ IsPrefix(m.events, lines)
        /\ m.cmd = "advance" => m.events = lines

\* ... and as long as no two advances overlapped: only one writes to the journal.
Beside ==
    /\ EventsSound(events.lines)
    /\ IsPrefix(checkpoint.events, Seqs(events.lines))
    /\ checkpoint.snapshot # Genesis => checkpoint.snapshot = checkpoint.events
    /\ \A p, q \in Procs : mem[p].cmd = "advance" /\ mem[q].cmd = "advance" => p = q
    /\ \A p \in Procs : Partly(pc[p], mem[p], events.lines)

\* ... and as long as no two commands did: what a command knows are the files.
Alone ==
    /\ \A p, q \in Procs : pc[p] # "idle" /\ pc[q] # "idle" => p = q
    /\ \A p \in Procs : pc[p] \notin {"idle", "events"} => mem[p].events = events.lines
    /\ \A p \in Procs : HasRead(pc[p]) => mem[p].snapshots = snapshots.lines
    /\ SnapshotsSound(snapshots.lines, Seqs(events.lines))
    /\ Len(events.lines) <= Len(snapshots.lines)
    /\ status = "HALTED" => tripped

ShadowInv ==
    /\ Shape
    /\ cuts = 0 => Uncut
    /\ cuts = 0 /\ overlap # "advances" => Beside
    /\ cuts = 0 /\ overlap = "none" => Alone

------------------------------------------------------------------------------
(* Sequences, and the lines of the journals.                                *)

LEMMA AppendIs ==
  ASSUME NEW S, NEW q \in Seq(S), NEW e \in S
  PROVE  /\ Append(q, e) \in Seq(S) /\ Len(q) \in Nat
         /\ DOMAIN q = 1..Len(q) /\ DOMAIN Append(q, e) = 1..(Len(q) + 1)
         /\ Len(Append(q, e)) = Len(q) + 1
         /\ \A i \in 1..Len(q) : Append(q, e)[i] = q[i] /\ q[i] \in S
         /\ Append(q, e)[Len(q) + 1] = e
  OBVIOUS

\* The first n elements do not change when one is appended.
LEMMA StartOfAppend ==
  ASSUME NEW S, NEW q \in Seq(S), NEW e \in S, NEW n \in 0..Len(q)
  PROVE  /\ SubSeq(q, 1, n) \in Seq(S) /\ Len(SubSeq(q, 1, n)) = n
         /\ \A i \in 1..n : SubSeq(q, 1, n)[i] = q[i]
         /\ SubSeq(Append(q, e), 1, n) = SubSeq(q, 1, n)
<1>1. n \in Int /\ Len(q) \in Nat
  BY AppendIs
<1>2. \A i \in 1..n : q[i] \in S /\ Append(q, e)[i] = q[i]
  BY <1>1, AppendIs
<1>3. /\ SubSeq(q, 1, n) \in Seq(S) /\ Len(SubSeq(q, 1, n)) = n
      /\ \A i \in 1..n : SubSeq(q, 1, n)[i] = q[i]
  BY <1>1, <1>2
<1>4. /\ SubSeq(Append(q, e), 1, n) \in Seq(S) /\ Len(SubSeq(Append(q, e), 1, n)) = n
      /\ \A i \in 1..n : SubSeq(Append(q, e), 1, n)[i] = q[i]
  BY <1>1, <1>2, AppendIs
<1>5. SubSeq(Append(q, e), 1, n) = SubSeq(q, 1, n)
  BY <1>3, <1>4, SeqEqual
<1> QED BY <1>3, <1>5

LEMMA FeedIsNat == \A e \in Feed : e \in Nat
  BY ShadowConstants DEF Feed

LEMMA SeqsIs ==
  ASSUME NEW lines \in Seq(EventRecord)
  PROVE  /\ Seqs(lines) \in Seq(Feed) /\ Len(Seqs(lines)) = Len(lines) /\ Len(lines) \in Nat
         /\ DOMAIN lines = 1..Len(lines) /\ DOMAIN Seqs(lines) = 1..Len(lines)
         /\ \A i \in 1..Len(lines) : Seqs(lines)[i] = lines[i].seq /\ lines[i].seq \in Feed
<1>1. Len(lines) \in Nat /\ DOMAIN lines = 1..Len(lines)
  OBVIOUS
<1>2. \A i \in 1..Len(lines) : lines[i] \in EventRecord
  BY <1>1
<1>3. \A i \in 1..Len(lines) : lines[i].seq \in Feed
  BY <1>2 DEF EventRecord
<1> HIDE DEF EventRecord
<1> QED BY <1>1, <1>3 DEF Seqs

LEMMA SeqsOfAppend ==
  ASSUME NEW lines \in Seq(EventRecord), NEW x \in EventRecord
  PROVE  Seqs(Append(lines, x)) = Append(Seqs(lines), x.seq)
<1>1. x.seq \in Feed
  BY DEF EventRecord
<1>2. Append(lines, x) \in Seq(EventRecord) /\ Len(Append(lines, x)) = Len(lines) + 1
  BY AppendIs
<1>3. /\ Append(Seqs(lines), x.seq) \in Seq(Feed)
      /\ Len(Append(Seqs(lines), x.seq)) = Len(lines) + 1
  BY <1>1, SeqsIs, AppendIs
<1>4. ASSUME NEW i \in 1..(Len(lines) + 1)
      PROVE  Seqs(Append(lines, x))[i] = Append(Seqs(lines), x.seq)[i]
  <2>1. Seqs(Append(lines, x))[i] = Append(lines, x)[i].seq
    BY <1>2, SeqsIs
  <2>2. CASE i = Len(lines) + 1
    BY <1>1, <2>1, <2>2, SeqsIs, AppendIs
  <2>3. CASE i \in 1..Len(lines)
    BY <1>1, <2>1, <2>3, SeqsIs, AppendIs
  <2> QED BY <2>2, <2>3, SeqsIs
<1> DEFINE one == Seqs(Append(lines, x))
           two == Append(Seqs(lines), x.seq)
<1>5. one \in Seq(Feed) /\ Len(one) = Len(lines) + 1
  BY <1>2, SeqsIs
<1> HIDE DEF one, two
<1>6. one = two
  BY <1>3, <1>4, <1>5, SeqEqual DEF one, two
<1> QED BY <1>6 DEF one, two

\* An event that follows the journal and comes after its last one keeps it sound.
LEMMA EventsGrow ==
  ASSUME NEW lines \in Seq(EventRecord), EventsSound(lines), NEW e \in Feed,
         lines # <<>> => e > Last(Seqs(lines))
  PROVE  LET x == [seq |-> e, after |-> Seqs(lines)] IN
         /\ x \in EventRecord /\ Append(lines, x) \in Seq(EventRecord)
         /\ EventsSound(Append(lines, x))
<1> DEFINE x == [seq |-> e, after |-> Seqs(lines)]
<1>1. x \in EventRecord
  BY SeqsIs DEF EventRecord, Chain
<1>2. x.seq = e /\ x.after = Seqs(lines)
  OBVIOUS
<1> HIDE DEF x
<1>3. Append(lines, x) \in Seq(EventRecord)
  BY <1>1, AppendIs
<1>6. PICK a : a = Append(lines, x)
  OBVIOUS
<1>4. ASSUME NEW i \in 1..(Len(lines) + 1)
      PROVE  /\ a[i].after = Seqs(SubSeq(a, 1, i - 1))
             /\ \A j \in 1..(i - 1) : a[j].seq < a[i].seq
  <2>1. Len(lines) \in Nat /\ i - 1 \in 0..Len(lines)
    BY SeqsIs
  <2>2. SubSeq(a, 1, i - 1) = SubSeq(lines, 1, i - 1)
    BY <1>1, <1>6, <2>1, StartOfAppend
  <2>3. CASE i \in 1..Len(lines)
    <3>1. /\ lines[i].after = Seqs(SubSeq(lines, 1, i - 1))
          /\ \A j \in 1..(i - 1) : lines[j].seq < lines[i].seq
      BY <2>1, <2>3, SeqsIs DEF EventsSound
    <3>2. \A j \in 1..i : a[j] = lines[j]
      BY <1>1, <1>6, <2>1, <2>3, AppendIs
    <3>3. \A j \in 1..(i - 1) : a[j].seq < a[i].seq
      BY <2>1, <3>1, <3>2
    <3>4. a[i].after = Seqs(SubSeq(a, 1, i - 1))
      <4>1. a[i] = lines[i]
        BY <2>1, <3>2
      <4> QED BY <2>2, <3>1, <4>1, Zenon
    <3> QED BY <3>3, <3>4
  <2>4. CASE i = Len(lines) + 1
    <3>1. SubSeq(lines, 1, i - 1) = lines
      BY <2>4, <2>1, SubSeqFull
    <3>2. ASSUME NEW j \in 1..Len(lines) PROVE lines[j].seq < e
      <4>1. lines # <<>> /\ Last(Seqs(lines)) = lines[Len(lines)].seq
        BY <2>1, SeqsIs DEF Last
      <4>2. lines[j].seq \in Nat /\ lines[Len(lines)].seq \in Nat
        BY <2>1, SeqsIs, FeedIsNat
      <4>3. CASE j = Len(lines)
        BY <4>1, <4>3
      <4>4. CASE j # Len(lines)
        <5>1. Len(lines) \in DOMAIN lines /\ j \in 1..(Len(lines) - 1)
          BY <2>1, <4>4, SeqsIs
        <5>2. lines[j].seq < lines[Len(lines)].seq
          BY <5>1 DEF EventsSound
        <5> QED BY <4>1, <4>2, <5>2, FeedIsNat
      <4> QED BY <4>3, <4>4
    <3>3. a[i] = x /\ \A j \in 1..Len(lines) : a[j] = lines[j]
      BY <1>1, <1>6, <2>1, <2>4, AppendIs
    <3>4. \A j \in 1..(i - 1) : a[j].seq < a[i].seq
      BY <1>2, <2>1, <2>4, <3>2, <3>3
    <3>5. a[i].after = Seqs(SubSeq(a, 1, i - 1))
      BY <1>2, <2>2, <3>1, <3>3, Zenon
    <3> QED BY <3>4, <3>5
  <2> QED BY <2>1, <2>3, <2>4
<1>5. DOMAIN a = 1..(Len(lines) + 1)
  BY <1>1, <1>6, AppendIs
<1>7. EventsSound(a)
  BY <1>4, <1>5 DEF EventsSound
<1> QED BY <1>1, <1>3, <1>6, <1>7 DEF x

\* In a sound journal an event is there at most once.
LEMMA OnceInJournal ==
  ASSUME NEW lines \in Seq(EventRecord), NEW e, Has(lines, e)
  PROVE  LET n == Cardinality({i \in DOMAIN lines : lines[i].seq = e}) IN
         n \in Nat /\ n >= 1 /\ (EventsSound(lines) => n = 1)
<1> DEFINE at == {i \in DOMAIN lines : lines[i].seq = e}
<1> SUFFICES /\ Cardinality(at) \in Nat /\ Cardinality(at) >= 1
             /\ EventsSound(lines) => Cardinality(at) = 1
  OBVIOUS
<1>1. Len(lines) \in Nat /\ DOMAIN lines = 1..Len(lines)
  BY SeqsIs
<1>2. at \subseteq 1..Len(lines) /\ IsFiniteSet(1..Len(lines))
  BY <1>1, FS_Interval
<1>3. PICK k \in at : TRUE
  BY DEF Has
<1>4. EventsSound(lines) => at = {k}
  <2>1. ASSUME EventsSound(lines), NEW i \in at, NEW j \in at, i < j PROVE FALSE
    <3>1. j \in DOMAIN lines /\ i \in 1..(j - 1) /\ lines[i].seq = lines[j].seq
      BY <1>1, <2>1
    <3>2. lines[i].seq < lines[j].seq /\ lines[i].seq \in Nat
      BY <1>1, <2>1, <3>1, SeqsIs, FeedIsNat DEF EventsSound
    <3> QED BY <3>1, <3>2
  <2>2. EventsSound(lines) => \A i \in at, j \in at : i = j
    BY <1>1, <2>1
  <2> QED BY <1>3, <2>2
<1> HIDE DEF at
<1>5. IsFiniteSet(at) /\ Cardinality(at) \in Nat
  BY <1>2, FS_Subset, FS_CardinalityType
<1>6. Cardinality(at) # 0
  BY <1>3, <1>5, FS_EmptySet
<1>7. Cardinality({k}) = 1
  BY FS_Singleton
<1>8. EventsSound(lines) => Cardinality(at) = 1
  BY <1>4, <1>7
<1> QED BY <1>5, <1>6, <1>8

\* What the snapshots of a journal q are.
LEMMA SnapshotsAre ==
  ASSUME NEW s \in Seq(SnapshotRecord), NEW q \in Seq(Feed)
  PROVE  SnapshotsSound(s, q) <=>
            /\ Len(s) <= Len(q) + 1
            /\ \A i \in 1..Len(s) : /\ s[i].after = LastAt(SubSeq(s, 1, i - 1))
                                    /\ s[i].at = SubSeq(q, 1, i - 1)
<1>1. Len(s) \in Nat /\ Len(q) \in Nat /\ DOMAIN s = 1..Len(s)
  OBVIOUS
<1>2. ASSUME Len(s) <= Len(q) + 1, NEW i \in 1..Len(s)
      PROVE  Expected(q)[i] = SubSeq(q, 1, i - 1)
  <2>1. i \in 1..(Len(q) + 1)
    BY <1>1, <1>2
  <2> QED BY <2>1 DEF Expected
<1> QED BY <1>1, <1>2 DEF SnapshotsSound

LEMMA LastAtIs ==
  ASSUME NEW s \in Seq(SnapshotRecord)
  PROVE  /\ LastAt(s) \in Chain \cup {Genesis}
         /\ s # <<>> => LastAt(s) = s[Len(s)].at /\ Len(s) \in 1..Len(s)
<1>1. s # <<>> => Len(s) \in 1..Len(s) /\ s[Len(s)] \in SnapshotRecord
  OBVIOUS
<1>2. s # <<>> => s[Len(s)].at \in Chain
  BY <1>1 DEF SnapshotRecord
<1> QED BY <1>1, <1>2 DEF LastAt, Last

\* An event does not change what was expected of the snapshots before it.
LEMMA SnapshotsStay ==
  ASSUME NEW s \in Seq(SnapshotRecord), NEW q \in Seq(Feed), NEW e \in Feed,
         SnapshotsSound(s, q)
  PROVE  SnapshotsSound(s, Append(q, e))
<1>1. /\ Len(s) <= Len(q) + 1 /\ Len(s) \in Nat /\ Len(q) \in Nat
      /\ \A i \in 1..Len(s) : /\ s[i].after = LastAt(SubSeq(s, 1, i - 1))
                              /\ s[i].at = SubSeq(q, 1, i - 1)
  BY SnapshotsAre
<1>2. Append(q, e) \in Seq(Feed) /\ Len(Append(q, e)) = Len(q) + 1
  BY AppendIs
<1>3. ASSUME NEW i \in 1..Len(s) PROVE SubSeq(q, 1, i - 1) = SubSeq(Append(q, e), 1, i - 1)
  <2>1. i - 1 \in 0..Len(q)
    BY <1>1
  <2> QED BY <2>1, StartOfAppend
<1>4. \A i \in 1..Len(s) : /\ s[i].after = LastAt(SubSeq(s, 1, i - 1))
                          /\ s[i].at = SubSeq(Append(q, e), 1, i - 1)
  BY <1>1, <1>3, Zenon
<1>5. Len(s) <= Len(Append(q, e)) + 1
  BY <1>1, <1>2
<1> QED BY <1>2, <1>4, <1>5, SnapshotsAre, Zenon

\* The next snapshot that the journal calls for keeps them sound.
LEMMA SnapshotsGrow ==
  ASSUME NEW s \in Seq(SnapshotRecord), NEW q \in Seq(Feed), SnapshotsSound(s, q),
         Len(s) <= Len(q)
  PROVE  LET x == [at |-> SubSeq(q, 1, Len(s)), after |-> LastAt(s)] IN
         /\ x \in SnapshotRecord /\ Append(s, x) \in Seq(SnapshotRecord)
         /\ Len(Append(s, x)) = Len(s) + 1
         /\ SnapshotsSound(Append(s, x), q)
<1> DEFINE x == [at |-> SubSeq(q, 1, Len(s)), after |-> LastAt(s)]
<1>1. Len(s) \in Nat /\ Len(q) \in Nat /\ Len(s) \in 0..Len(q)
  OBVIOUS
<1>2. SubSeq(q, 1, Len(s)) \in Chain
  BY <1>1, \A i \in 1..Len(s) : q[i] \in Feed DEF Chain
<1>3. x \in SnapshotRecord
  BY <1>2, LastAtIs DEF SnapshotRecord
<1>4. x.at = SubSeq(q, 1, Len(s)) /\ x.after = LastAt(s)
  OBVIOUS
<1> HIDE DEF x
<1>5. PICK a : a = Append(s, x)
  OBVIOUS
<1>6. /\ a \in Seq(SnapshotRecord) /\ Len(a) = Len(s) + 1 /\ a[Len(s) + 1] = x
      /\ \A i \in 1..Len(s) : a[i] = s[i]
  BY <1>3, <1>5, AppendIs
<1>7. ASSUME NEW i \in 1..Len(a)
      PROVE  a[i].after = LastAt(SubSeq(a, 1, i - 1)) /\ a[i].at = SubSeq(q, 1, i - 1)
  <2>1. i - 1 \in 0..Len(s)
    BY <1>1, <1>6
  <2>2. SubSeq(a, 1, i - 1) = SubSeq(s, 1, i - 1)
    BY <1>3, <1>5, <2>1, StartOfAppend
  <2>3. CASE i \in 1..Len(s)
    <3>1. s[i].after = LastAt(SubSeq(s, 1, i - 1)) /\ s[i].at = SubSeq(q, 1, i - 1)
      BY <2>3, SnapshotsAre
    <3>2. a[i] = s[i]
      BY <1>6, <2>3
    <3> QED BY <2>2, <3>1, <3>2, Zenon
  <2>4. CASE i = Len(s) + 1
    <3>1. i - 1 = Len(s) /\ a[i] = x
      BY <1>1, <1>6, <2>4
    <3>2. SubSeq(s, 1, i - 1) = s
      BY <3>1, SubSeqFull
    <3> QED BY <1>4, <2>2, <3>1, <3>2, Zenon
  <2> QED BY <1>1, <1>6, <2>3, <2>4
<1>8. Len(a) <= Len(q) + 1
  BY <1>1, <1>6
<1>9. SnapshotsSound(a, q)
  BY <1>6, <1>7, <1>8, SnapshotsAre, Zenon
<1> QED BY <1>3, <1>5, <1>6, <1>9 DEF x

\* With a snapshot of the start and one of each event, the last is that of all events.
LEMMA LastSnapshot ==
  ASSUME NEW s \in Seq(SnapshotRecord), NEW q \in Seq(Feed), SnapshotsSound(s, q),
         Len(s) = Len(q) + 1
  PROVE  LastAt(s) = q
<1>1. Len(s) \in 1..Len(s) /\ Len(s) - 1 = Len(q) /\ s # <<>>
  OBVIOUS
<1>2. s[Len(s)].at = SubSeq(q, 1, Len(s) - 1)
  BY <1>1, SnapshotsAre
<1>3. SubSeq(q, 1, Len(q)) = q
  BY SubSeqFull
<1> QED BY <1>1, <1>2, <1>3, LastAtIs

\* Prefixes.
LEMMA PrefixIs ==
  ASSUME NEW S, NEW s \in Seq(S), NEW q \in Seq(S)
  PROVE  /\ IsPrefix(s, q) <=> Len(s) <= Len(q) /\ \A i \in 1..Len(s) : s[i] = q[i]
         /\ \A e \in S : IsPrefix(s, q) => IsPrefix(s, Append(q, e))
         /\ IsPrefix(q, q)
<1>1. Len(s) \in Nat /\ Len(q) \in Nat
  OBVIOUS
<1>2. ASSUME NEW t \in Seq(S)
      PROVE  IsPrefix(s, t) <=> Len(s) <= Len(t) /\ \A i \in 1..Len(s) : s[i] = t[i]
  <2>1. Len(t) \in Nat
    OBVIOUS
  <2>2. ASSUME Len(s) <= Len(t)
        PROVE  /\ SubSeq(t, 1, Len(s)) \in Seq(S) /\ Len(SubSeq(t, 1, Len(s))) = Len(s)
               /\ \A i \in 1..Len(s) : SubSeq(t, 1, Len(s))[i] = t[i]
    BY <1>1, <2>1, <2>2
  <2>3. SubSeq(s, 1, Len(s)) = s
    BY SubSeqFull
  <2>4. ASSUME Len(s) <= Len(t), \A i \in 1..Len(s) : s[i] = t[i]
        PROVE  s = SubSeq(t, 1, Len(s))
    <3> DEFINE u == SubSeq(t, 1, Len(s))
    <3>1. u \in Seq(S) /\ Len(s) = Len(u) /\ \A i \in 1..Len(s) : s[i] = u[i]
      BY <2>2, <2>4
    <3> HIDE DEF u
    <3>2. s = u
      BY <3>1, SeqEqual
    <3> QED BY <3>2 DEF u
  <2> QED BY <2>2, <2>3, <2>4 DEF IsPrefix
<1>3. ASSUME NEW e \in S, IsPrefix(s, q) PROVE IsPrefix(s, Append(q, e))
  <2>1. Len(s) <= Len(q) /\ \A i \in 1..Len(s) : s[i] = q[i]
    BY <1>2, <1>3
  <2>2. Append(q, e) \in Seq(S) /\ Len(Append(q, e)) = Len(q) + 1
    BY AppendIs
  <2>3. \A i \in 1..Len(s) : s[i] = Append(q, e)[i]
    BY <1>1, <2>1, AppendIs
  <2> DEFINE t == Append(q, e)
  <2>4. t \in Seq(S) /\ Len(s) <= Len(t) /\ \A i \in 1..Len(s) : s[i] = t[i]
    BY <1>1, <2>1, <2>2, <2>3
  <2> HIDE DEF t
  <2>5. IsPrefix(s, t)
    BY <1>2, <2>4
  <2> QED BY <2>5 DEF t
<1>4. IsPrefix(q, q)
  BY DEF IsPrefix
<1> QED BY <1>2, <1>3, <1>4

\* The events of a part of the journal are a part of its events.
LEMMA SeqsOfPrefix ==
  ASSUME NEW s \in Seq(EventRecord), NEW q \in Seq(EventRecord), IsPrefix(s, q)
  PROVE  IsPrefix(Seqs(s), Seqs(q))
<1>1. Len(s) <= Len(q) /\ \A i \in 1..Len(s) : s[i] = q[i]
  BY PrefixIs
<1>2. Len(s) \in Nat /\ Len(q) \in Nat
  BY SeqsIs
<1>3. \A i \in 1..Len(s) : Seqs(s)[i] = Seqs(q)[i]
  BY <1>1, <1>2, SeqsIs
<1>4. Seqs(s) \in Seq(Feed) /\ Seqs(q) \in Seq(Feed) /\ Len(Seqs(s)) <= Len(Seqs(q))
  BY <1>1, SeqsIs
<1>5. \A i \in 1..Len(Seqs(s)) : Seqs(s)[i] = Seqs(q)[i]
  BY <1>3, SeqsIs
<1> QED BY <1>4, <1>5, PrefixIs

\* What the journal has it has after an event too.
LEMMA HasGrows ==
  ASSUME NEW lines \in Seq(EventRecord), NEW x \in EventRecord
  PROVE  /\ \A e : Has(lines, e) => Has(Append(lines, x), e)
         /\ Has(Append(lines, x), x.seq)
<1>1. /\ DOMAIN lines = 1..Len(lines) /\ DOMAIN Append(lines, x) = 1..(Len(lines) + 1)
      /\ Len(lines) \in Nat
      /\ \A i \in 1..Len(lines) : Append(lines, x)[i] = lines[i]
      /\ Append(lines, x)[Len(lines) + 1] = x
  BY AppendIs
<1> QED BY <1>1 DEF Has

\* A journal is readable exactly when it holds records only.
LEMMA ReadableIs ==
  /\ \A f : f.lines \in Seq(EventRecord \cup {Torn}) =>
        (Readable(f) <=> f.lines \in Seq(EventRecord))
  /\ \A f : f.lines \in Seq(SnapshotRecord \cup {Torn}) =>
        (Readable(f) <=> f.lines \in Seq(SnapshotRecord))
<1>1. ASSUME NEW R, Torn \notin R, NEW f, f.lines \in Seq(R \cup {Torn})
      PROVE  Readable(f) <=> f.lines \in Seq(R)
  <2>1. Len(f.lines) \in Nat /\ DOMAIN f.lines = 1..Len(f.lines)
    BY <1>1
  <2>2. \A i \in 1..Len(f.lines) : f.lines[i] \in R \cup {Torn}
    BY <1>1, <2>1
  <2>3. ASSUME Readable(f) PROVE f.lines \in Seq(R)
    <3>1. \A i \in 1..Len(f.lines) : f.lines[i] \in R
      BY <2>1, <2>2, <2>3 DEF Readable, Range
    <3>2. f.lines \in [1..Len(f.lines) -> R]
      <4>1. f.lines \in [1..Len(f.lines) -> R \cup {Torn}]
        BY <1>1, LenProperties
      <4> QED BY <3>1, <4>1
    <3> QED BY <2>1, <3>2, SeqDef
  <2>4. ASSUME f.lines \in Seq(R) PROVE Readable(f)
    <3>1. \A i \in 1..Len(f.lines) : f.lines[i] \in R
      BY <2>4
    <3> QED BY <1>1, <2>1, <3>1 DEF Readable, Range
  <2> QED BY <2>3, <2>4
<1>2. Torn \notin EventRecord /\ Torn \notin SnapshotRecord
  BY ShadowConstants
<1> QED BY <1>1, <1>2

LEMMA IdleIs ==
  /\ Idle \in Memory /\ Idle.cmd = "none" /\ MemOK("idle", Idle)
  /\ \A lines : Held(Idle, lines)
<1>1. Idle \in Memory /\ Idle.cmd = "none"
  BY DEF Idle, Memory, Statuses, Chain
<1>2. MemOK("idle", Idle)
  BY <1>1 DEF MemOK, HasRead
<1>3. Idle.events = <<>>
  BY DEF Idle
<1>4. \A lines : Held(Idle, lines)
  BY <1>1, <1>3 DEF Held
<1> QED BY <1>1, <1>2, <1>4

------------------------------------------------------------------------------
(* Steps of one process.                                                    *)

Moves(p) ==
    /\ pc' = [pc EXCEPT ![p] = pc'[p]] /\ pc'[p] \in Places
    /\ mem' = [mem EXCEPT ![p] = mem'[p]] /\ MemOK(pc'[p], mem'[p])

LEMMA MovesTo ==
  ASSUME Shape, NEW p \in Procs, NEW a \in Places, NEW m, MemOK(a, m),
         pc' = [pc EXCEPT ![p] = a], mem' = [mem EXCEPT ![p] = m]
  PROVE  Moves(p) /\ pc'[p] = a /\ mem'[p] = m
  BY DEF Moves, Shape

\* What the others know does not change.
LEMMA OthersStay ==
  ASSUME Shape, NEW p \in Procs, Moves(p)
  PROVE  /\ \A q \in Procs : q # p => pc'[q] = pc[q] /\ mem'[q] = mem[q]
         /\ pc' \in [Procs -> Places] /\ mem' = [q \in Procs |-> mem'[q]]
         /\ \A q \in Procs : MemOK(pc'[q], mem'[q])
  BY DEF Moves, Shape

LEMMA ShapeKept ==
  ASSUME Shape, NEW p \in Procs, Moves(p), status' \in Statuses,
         events' \in [lines : Seq(EventRecord \cup {Torn}), open : BOOLEAN],
         snapshots' \in [lines : Seq(SnapshotRecord \cup {Torn}), open : BOOLEAN],
         checkpoint' \in [events : Chain, snapshot : Chain \cup {Genesis}], cuts' \in Nat
  PROVE  Shape'
<1>1. /\ pc' \in [Procs -> Places] /\ mem' = [q \in Procs |-> mem'[q]]
      /\ \A q \in Procs : MemOK(pc'[q], mem'[q])
  BY OthersStay
<1> QED BY <1>1 DEF Shape

\* A process that is idle knows nothing.
LEMMA IdleKnows ==
  ASSUME Shape, NEW p \in Procs
  PROVE  /\ mem[p] \in Memory /\ pc[p] \in Places /\ MemOK(pc[p], mem[p])
         /\ pc[p] = "idle" => mem[p].cmd = "none"
         /\ mem[p].cmd = "advance" => pc[p] # "idle"
  BY IdleIs DEF Shape, MemOK

\* A step that writes to no file.
LEMMA QuietStep ==
  ASSUME ShadowInv, NEW p \in Procs, Moves(p), UNCHANGED <<files, cuts>>, status' \in Statuses,
         cuts = 0 => /\ Held(mem'[p], events.lines)
                     /\ \A e \in acked' : e \in acked \/ Has(events.lines, e),
         overlap' # "advances" => overlap # "advances",
         overlap' = "none" => overlap = "none",
         cuts = 0 /\ overlap' # "advances" =>
            /\ Partly(pc'[p], mem'[p], events.lines)
            /\ mem'[p].cmd = "advance" =>
                  \A q \in Procs : q # p => mem[q].cmd # "advance",
         cuts = 0 /\ overlap' = "none" =>
            /\ pc'[p] # "idle" => \A q \in Procs : q # p => pc[q] = "idle"
            /\ pc'[p] \notin {"idle", "events"} => mem'[p].events = events.lines
            /\ HasRead(pc'[p]) => mem'[p].snapshots = snapshots.lines
            /\ status' = "HALTED" => tripped'
  PROVE  ShadowInv'
<1>1. /\ events' = events /\ snapshots' = snapshots /\ checkpoint' = checkpoint /\ cuts' = cuts
      /\ Shape
  BY DEF files, ShadowInv
<1>2. Shape'
  BY <1>1, ShapeKept DEF Shape
<1>3. \A q \in Procs : q # p => pc'[q] = pc[q] /\ mem'[q] = mem[q]
  BY <1>1, OthersStay
<1>4. ASSUME cuts = 0 PROVE Uncut'
  <2>1. Uncut
    BY <1>4 DEF ShadowInv
  <2>2. \A q \in Procs : Held(mem'[q], events.lines)
    BY <1>3, <1>4, <2>1 DEF Uncut
  <2>3. \A e \in acked' : Has(events.lines, e)
    BY <1>4, <2>1 DEF Uncut
  <2> QED BY <1>1, <2>1, <2>2, <2>3 DEF Uncut
<1>5. ASSUME cuts = 0, overlap' # "advances" PROVE Beside'
  <2>1. Beside
    BY <1>5 DEF ShadowInv
  <2>2. \A q \in Procs : Partly(pc'[q], mem'[q], events.lines)
    BY <1>3, <1>5, <2>1 DEF Beside
  <2>3. \A q, r \in Procs : mem'[q].cmd = "advance" /\ mem'[r].cmd = "advance" => q = r
    BY <1>3, <1>5, <2>1 DEF Beside
  <2> QED BY <1>1, <2>1, <2>2, <2>3 DEF Beside
<1>6. ASSUME cuts = 0, overlap' = "none" PROVE Alone'
  <2>1. Alone
    BY <1>6 DEF ShadowInv
  <2>2. \A q, r \in Procs : pc'[q] # "idle" /\ pc'[r] # "idle" => q = r
    BY <1>3, <1>6, <2>1 DEF Alone
  <2>3. \A q \in Procs : pc'[q] \notin {"idle", "events"} => mem'[q].events = events.lines
    BY <1>3, <1>6, <2>1 DEF Alone
  <2>4. \A q \in Procs : HasRead(pc'[q]) => mem'[q].snapshots = snapshots.lines
    BY <1>3, <1>6, <2>1 DEF Alone
  <2> QED BY <1>1, <1>6, <2>1, <2>2, <2>3, <2>4 DEF Alone
<1> QED BY <1>1, <1>2, <1>4, <1>5, <1>6 DEF ShadowInv

\* A command begins.
LEMMA BeginKeeps ==
  ASSUME ShadowInv, NEW p \in Procs, NEW cmd \in Commands, NEW batch \in Chain,
         Begin(p, cmd, batch), status' \in Statuses, status' = "HALTED" => status = "HALTED",
         cmd = "advance" => status = "RUNNING"
  PROVE  ShadowInv'
<1>0. PICK st : st = IF cmd = "start" THEN "RUNNING" ELSE status
  OBVIOUS
<1>1. PICK m : m = [Idle EXCEPT !.cmd = cmd, !.batch = batch, !.todo = batch, !.status = st]
  OBVIOUS
<1>2. Shape /\ pc[p] = "idle" /\ UNCHANGED <<files, cuts, acked, tripped>>
  BY DEF ShadowInv, Begin
<1>3. /\ m.cmd = cmd /\ m.batch = batch /\ m.todo = batch /\ m.events = <<>>
      /\ m.snapshots = <<>> /\ m.status = st
      /\ m \in Memory
  <2>1. st \in Statuses
    BY <1>0, <1>2 DEF Shape, Statuses
  <2>2. m = [cmd |-> cmd, status |-> st, batch |-> batch, todo |-> batch,
             events |-> <<>>, snapshots |-> <<>>]
    BY <1>1 DEF Idle
  <2>3. <<>> \in Seq(EventRecord) /\ <<>> \in Seq(SnapshotRecord)
    BY EmptySeq
  <2> HIDE DEF EventRecord, SnapshotRecord
  <2> QED BY <2>1, <2>2, <2>3 DEF Memory
<1>4. MemOK("events", m)
  BY <1>0, <1>3 DEF MemOK, HasRead, Commands
<1>5. Moves(p) /\ pc'[p] = "events" /\ mem'[p] = m
  <2>1. pc' = [pc EXCEPT ![p] = "events"] /\ mem' = [mem EXCEPT ![p] = m]
    BY <1>0, <1>1 DEF Begin, Goto
  <2> QED BY <1>2, <1>4, <2>1, MovesTo DEF Places
<1>6. Held(m, events.lines)
  BY <1>3 DEF Held, Range, Chain
<1>7. overlap' = Overlapping(p, cmd)
  BY DEF Begin
<1>8. /\ overlap' # "advances" => overlap # "advances"
      /\ overlap' = "none" => overlap = "none" /\ Others(p) = {}
      /\ overlap' # "advances" /\ cmd = "advance" => \A q \in Others(p) : mem[q].cmd # "advance"
  BY <1>7 DEF Overlapping
<1>9. \A q \in Procs : q # p => pc[q] = "idle" \/ q \in Others(p)
  BY DEF Others
<1>10. \A q \in Procs : mem[q].cmd = "advance" => pc[q] # "idle"
  BY <1>2, IdleKnows
<1>11. Partly("events", m, events.lines) /\ ~HasRead("events")
  BY DEF Partly, HasRead
<1>12. cuts = 0 /\ overlap' = "none" => (status' = "HALTED" => tripped')
  BY <1>2, <1>8 DEF ShadowInv, Alone
<1> QED BY <1>2, <1>3, <1>5, <1>6, <1>8, <1>9, <1>10, <1>11, <1>12, QuietStep

LEMMA CommandsKeep ==
  ASSUME ShadowInv, NEW p \in Procs, Start(p) \/ Advance(p) \/ Command(p)
  PROVE  ShadowInv'
<1>1. status \in Statuses
  BY DEF ShadowInv, Shape
<1>2. CASE Start(p)
  <2>1. Begin(p, "start", <<>>) /\ status' = "RUNNING"
    BY <1>2 DEF Start
  <2>2. <<>> \in Chain /\ "start" \in Commands /\ status' \in Statuses
    BY <2>1, EmptySeq DEF Chain, Commands, Statuses
  <2> QED BY <2>1, <2>2, BeginKeeps
<1>3. CASE Advance(p)
  <2>1. PICK batch \in Batches : Begin(p, "advance", batch)
    BY <1>3 DEF Advance
  <2>2. batch \in Chain
    <3>1. batch \in UNION {[1..n -> Feed] : n \in 0..LastEvent}
      BY DEF Batches, BoundedSeq, SeqOf
    <3> QED BY <3>1, SeqDef DEF Chain
  <2>3. status = "RUNNING" /\ status' = status
    BY <1>3 DEF Advance
  <2> QED BY <1>1, <2>1, <2>2, <2>3, BeginKeeps DEF Commands
<1>4. CASE Command(p)
  <2>1. PICK cmd \in {"reconcile", "status", "stop"} : Begin(p, cmd, <<>>)
    BY <1>4 DEF Command
  <2>2. status' = status /\ <<>> \in Chain /\ cmd \in Commands /\ cmd # "advance"
    BY <1>4 DEF Command, Commands, Chain
  <2> QED BY <1>1, <2>1, <2>2, BeginKeeps
<1> QED BY <1>2, <1>3, <1>4

\* A command ends, or is killed.
LEMMA EndKeeps ==
  ASSUME ShadowInv, NEW p \in Procs, Ends(p), UNCHANGED <<files, cuts, overlap>>,
         status' \in Statuses,
         cuts = 0 => \A e \in acked' : e \in acked \/ Has(events.lines, e),
         cuts = 0 /\ overlap = "none" => (status' = "HALTED" => tripped')
  PROVE  ShadowInv'
<1>1. Shape
  BY DEF ShadowInv
<1>2. Moves(p) /\ pc'[p] = "idle" /\ mem'[p] = Idle
  BY <1>1, IdleIs, MovesTo DEF Ends, Places
<1>3. Partly("idle", Idle, events.lines) /\ ~HasRead("idle") /\ Idle.cmd # "advance"
  BY IdleIs DEF Partly, HasRead
<1> QED BY <1>2, <1>3, IdleIs, QuietStep

\* Commands that do not overlap find files they accept.
LEMMA NotRefused ==
  ASSUME ShadowInv, NEW p \in Procs, cuts = 0, overlap = "none"
  PROVE  /\ Readable(events)
         /\ pc[p] = "snapshots" => Accepts([events EXCEPT !.lines = mem[p].events], snapshots)
<1>1. Shape /\ Uncut /\ Beside /\ Alone
  BY DEF ShadowInv
<1>2. Readable(events) /\ Readable(snapshots)
  BY <1>1, ReadableIs DEF Uncut, Shape
<1>3. ASSUME pc[p] = "snapshots" PROVE [events EXCEPT !.lines = mem[p].events] = events
  BY <1>1, <1>3 DEF Alone, Shape
<1> QED BY <1>1, <1>2, <1>3 DEF Accepts, Beside, Alone

LEMMA RefuseKeeps ==
  ASSUME ShadowInv, NEW p \in Procs, Refuse(p),
         cuts = 0 /\ overlap = "none" => FALSE
  PROVE  ShadowInv'
<1>1. UNCHANGED <<files, cuts, overlap, acked>> /\ Ends(p)
  BY DEF Refuse, ghosts
<1>2. status' \in Statuses
  BY DEF Refuse, ShadowInv, Shape, Statuses
<1> QED BY <1>1, <1>2, EndKeeps

LEMMA ReadEventsKeeps ==
  ASSUME ShadowInv, NEW p \in Procs, ReadEvents(p)
  PROVE  ShadowInv'
<1>1. Shape /\ pc[p] = "events" /\ MemOK(pc[p], mem[p])
  BY DEF ShadowInv, ReadEvents, Shape
<1>2. CASE ~Readable(events)
  BY <1>2, NotRefused, RefuseKeeps DEF ReadEvents
<1>3. CASE Readable(events)
  <2>1. PICK m : m = [mem[p] EXCEPT !.events = events.lines]
    OBVIOUS
  <2>2. events.lines \in Seq(EventRecord)
    BY <1>1, <1>3, ReadableIs DEF Shape
  <2>3. /\ m \in Memory /\ m.cmd = mem[p].cmd /\ m.status = mem[p].status
        /\ m.batch = mem[p].batch /\ m.todo = mem[p].todo /\ m.events = events.lines
    BY <1>1, <2>1, <2>2 DEF MemOK, Memory
  <2>4. MemOK("snapshots", m)
    BY <1>1, <2>3 DEF MemOK, HasRead
  <2>5. /\ pc' = [pc EXCEPT ![p] = "snapshots"] /\ mem' = [mem EXCEPT ![p] = m]
        /\ UNCHANGED <<status, files, cuts, ghosts>>
    BY <1>3, <2>1 DEF ReadEvents, Goto
  <2>6. Moves(p) /\ pc'[p] = "snapshots" /\ mem'[p] = m
    BY <1>1, <2>4, <2>5, MovesTo DEF Places
  <2>7. cuts = 0 => Held(m, events.lines)
    <3>1. cuts = 0 => Held(mem[p], events.lines)
      BY DEF ShadowInv, Uncut
    <3> QED BY <2>3, <3>1 DEF Held, Has
  <2>8. Partly("snapshots", m, events.lines)
    BY <2>2, <2>3, PrefixIs DEF Partly
  <2>9. /\ cuts = 0 /\ overlap # "advances" =>
              (m.cmd = "advance" => \A q \in Procs : q # p => mem[q].cmd # "advance")
        /\ cuts = 0 /\ overlap = "none" =>
              /\ \A q \in Procs : q # p => pc[q] = "idle"
              /\ status = "HALTED" => tripped
    BY <1>1, <2>3 DEF ShadowInv, Beside, Alone
  <2>10. status \in Statuses
    BY <1>1 DEF Shape
  <2> QED BY <2>3, <2>5, <2>6, <2>7, <2>8, <2>9, <2>10, QuietStep DEF ghosts, HasRead
<1> QED BY <1>2, <1>3

LEMMA ReadSnapshotsKeeps ==
  ASSUME ShadowInv, NEW p \in Procs, ReadSnapshots(p)
  PROVE  ShadowInv'
<1> DEFINE accepts == Accepts([events EXCEPT !.lines = mem[p].events], snapshots)
<1>1. Shape /\ pc[p] = "snapshots" /\ MemOK(pc[p], mem[p])
  BY DEF ShadowInv, ReadSnapshots, Shape
<1>2. CASE ~accepts
  BY <1>1, <1>2, NotRefused, RefuseKeeps DEF ReadSnapshots
<1>3. CASE accepts
  <2>1. PICK m : m = [mem[p] EXCEPT !.snapshots = snapshots.lines]
    OBVIOUS
  <2>2. /\ Readable(snapshots) /\ EventsSound(mem[p].events)
        /\ SnapshotsSound(snapshots.lines, Seqs(mem[p].events))
    <3>1. [events EXCEPT !.lines = mem[p].events].lines = mem[p].events
      BY <1>1 DEF Shape
    <3> QED BY <1>3, <3>1 DEF Accepts
  <2>3. snapshots.lines \in Seq(SnapshotRecord)
    BY <1>1, <2>2, ReadableIs DEF Shape
  <2>4. /\ m \in Memory /\ m.cmd = mem[p].cmd /\ m.status = mem[p].status
        /\ m.batch = mem[p].batch /\ m.todo = mem[p].todo /\ m.events = mem[p].events
        /\ m.snapshots = snapshots.lines
    BY <1>1, <2>1, <2>3 DEF MemOK, Memory
  <2>5. MemOK("repair", m)
    BY <1>1, <2>2, <2>4 DEF MemOK
  <2>6. /\ pc' = [pc EXCEPT ![p] = "repair"] /\ mem' = [mem EXCEPT ![p] = m]
        /\ UNCHANGED <<status, files, cuts, ghosts>>
    BY <1>3, <2>1 DEF ReadSnapshots, Goto
  <2>7. Moves(p) /\ pc'[p] = "repair" /\ mem'[p] = m
    BY <1>1, <2>5, <2>6, MovesTo DEF Places
  <2>8. cuts = 0 => Held(m, events.lines)
    <3>1. cuts = 0 => Held(mem[p], events.lines)
      BY DEF ShadowInv, Uncut
    <3> QED BY <2>4, <3>1 DEF Held
  <2>9. /\ cuts = 0 /\ overlap # "advances" =>
              /\ Partly("repair", m, events.lines)
              /\ m.cmd = "advance" => \A q \in Procs : q # p => mem[q].cmd # "advance"
        /\ cuts = 0 /\ overlap = "none" =>
              /\ \A q \in Procs : q # p => pc[q] = "idle"
              /\ m.events = events.lines
              /\ status = "HALTED" => tripped
    BY <1>1, <2>4 DEF ShadowInv, Beside, Alone, Partly
  <2>10. status \in Statuses
    BY <1>1 DEF Shape
  <2> QED BY <2>4, <2>6, <2>7, <2>8, <2>9, <2>10, QuietStep DEF ghosts
<1> QED BY <1>2, <1>3

LEMMA HeadOrTail ==
  ASSUME NEW q \in Seq(Feed), q # <<>>
  PROVE  /\ Tail(q) \in Seq(Feed) /\ Head(q) \in Feed
         /\ \A e \in Range(q) : e = Head(q) \/ e \in Range(Tail(q))
<1>1. /\ Tail(q) \in Seq(Feed) /\ Head(q) \in Feed /\ Head(q) = q[1]
      /\ Len(Tail(q)) = Len(q) - 1 /\ Len(q) \in Nat
      /\ \A i \in 1..Len(Tail(q)) : Tail(q)[i] = q[i + 1]
  OBVIOUS
<1>2. ASSUME NEW i \in 1..Len(q), i # 1 PROVE q[i] \in Range(Tail(q))
  <2>1. i - 1 \in 1..Len(Tail(q)) /\ i = (i - 1) + 1
    BY <1>1, <1>2
  <2>2. i - 1 \in DOMAIN Tail(q) /\ q[i] = Tail(q)[i - 1]
    BY <1>1, <2>1
  <2> QED BY <2>2 DEF Range
<1> QED BY <1>1, <1>2 DEF Range

LEMMA SkipKeeps ==
  ASSUME ShadowInv, NEW p \in Procs, Skip(p)
  PROVE  ShadowInv'
<1>1. Shape /\ pc[p] = "work" /\ MemOK(pc[p], mem[p])
  BY DEF ShadowInv, Skip, Shape
<1>2. mem[p].todo \in Seq(Feed) /\ mem[p].todo # <<>> /\ mem[p].events \in Seq(EventRecord)
  BY <1>1 DEF Skip, MemOK, Memory, Chain
<1>3. Head(mem[p].todo) \in Range(Known(p))
  BY DEF Skip, Applying
<1>4. PICK m : m = [mem[p] EXCEPT !.todo = Tail(@)]
  OBVIOUS
<1>5. /\ m \in Memory /\ m.cmd = mem[p].cmd /\ m.status = mem[p].status
      /\ m.batch = mem[p].batch /\ m.todo = Tail(mem[p].todo) /\ m.events = mem[p].events
      /\ m.snapshots = mem[p].snapshots
  BY <1>1, <1>2, <1>4, HeadOrTail DEF MemOK, Memory, Chain
<1>6. MemOK("work", m)
  BY <1>1, <1>5 DEF MemOK
<1>7. /\ pc' = [pc EXCEPT ![p] = "work"] /\ mem' = [mem EXCEPT ![p] = m]
      /\ UNCHANGED <<status, files, cuts, ghosts>>
  BY <1>1, <1>4 DEF Skip, Shape
<1>8. Moves(p) /\ pc'[p] = "work" /\ mem'[p] = m
  BY <1>1, <1>6, <1>7, MovesTo DEF Places
<1>9. ASSUME cuts = 0 PROVE Held(m, events.lines)
  <2>1. Held(mem[p], events.lines)
    BY <1>9 DEF ShadowInv, Uncut
  <2>2. Has(events.lines, Head(mem[p].todo))
    <3>1. PICK k \in 1..Len(mem[p].events) : Head(mem[p].todo) = mem[p].events[k].seq
      BY <1>2, <1>3, SeqsIs DEF Known, Range
    <3>2. k \in DOMAIN mem[p].events
      BY <1>2
    <3> QED BY <2>1, <3>1, <3>2 DEF Held
  <2>3. \A e \in Range(mem[p].todo) : e = Head(mem[p].todo) \/ e \in Range(m.todo)
    BY <1>2, <1>5, HeadOrTail
  <2> QED BY <1>5, <2>1, <2>2, <2>3 DEF Held
<1>10. /\ cuts = 0 /\ overlap # "advances" =>
             /\ Partly("work", m, events.lines)
             /\ m.cmd = "advance" => \A q \in Procs : q # p => mem[q].cmd # "advance"
       /\ cuts = 0 /\ overlap = "none" =>
             /\ \A q \in Procs : q # p => pc[q] = "idle"
             /\ m.events = events.lines /\ m.snapshots = snapshots.lines
             /\ status = "HALTED" => tripped
  BY <1>1, <1>5 DEF ShadowInv, Beside, Alone, Partly, HasRead
<1>11. status \in Statuses
  BY <1>1 DEF Shape
<1> QED BY <1>5, <1>7, <1>8, <1>9, <1>10, <1>11, QuietStep DEF ghosts

LEMMA EndingsKeep ==
  ASSUME ShadowInv, NEW p \in Procs, RefuseEvent(p) \/ Dies(p)
  PROVE  ShadowInv'
<1>1. Ends(p) /\ UNCHANGED <<status, files, cuts, ghosts>>
  BY DEF RefuseEvent, Dies
<1>2. status \in Statuses /\ (cuts = 0 /\ overlap = "none" => (status = "HALTED" => tripped))
  BY DEF ShadowInv, Shape, Alone
<1> QED BY <1>1, <1>2, EndKeeps DEF ghosts

LEMMA FinishKeeps ==
  ASSUME ShadowInv, NEW p \in Procs, Finish(p)
  PROVE  ShadowInv'
<1>1. Shape /\ MemOK(pc[p], mem[p])
  BY DEF ShadowInv, Shape
<1>2. Ends(p) /\ UNCHANGED <<files, cuts, overlap>>
  BY DEF Finish
<1>3. status' \in Statuses
  <2>1. status' \in {status, "STOPPED", "HALTED"}
    BY DEF Finish
  <2> QED BY <1>1, <2>1 DEF Shape, Statuses
<1>4. ASSUME cuts = 0, NEW e \in acked', e \notin acked PROVE Has(events.lines, e)
  <2>1. mem[p].cmd = "advance" /\ mem[p].todo = <<>> /\ e \in Range(mem[p].batch)
    BY <1>4 DEF Finish
  <2>2. Held(mem[p], events.lines)
    BY <1>4 DEF ShadowInv, Uncut
  <2>3. e \notin Range(mem[p].todo)
    BY <2>1 DEF Range
  <2> QED BY <2>1, <2>2, <2>3 DEF Held, Range
<1>5. ASSUME cuts = 0, overlap = "none", status' = "HALTED" PROVE tripped'
  <2>1. status = "HALTED" => tripped
    BY <1>5 DEF ShadowInv, Alone
  <2>2. CASE mem[p].cmd = "reconcile"
    <3>1. PICK engaged \in BOOLEAN :
             /\ tripped' = (tripped \/ engaged)
             /\ status' = IF engaged /\ mem[p].status = "RUNNING" THEN "HALTED" ELSE status
      BY <2>2 DEF Finish
    <3>2. CASE engaged
      BY <3>1, <3>2, Zenon
    <3>3. CASE ~engaged
      <4>1. status' = status
        BY <3>1, <3>3
      <4>2. tripped
        BY <1>5, <2>1, <4>1
      <4> QED BY <3>1, <4>2, Zenon
    <3> QED BY <3>2, <3>3
  <2>3. CASE mem[p].cmd # "reconcile"
    <3>1. tripped' = tripped /\ status' \in {status, "STOPPED"}
      BY <2>3 DEF Finish
    <3>2. tripped
      BY <1>5, <2>1, <3>1
    <3> QED BY <3>1, <3>2, Zenon
  <2> QED BY <2>2, <2>3
<1> QED BY <1>2, <1>3, <1>4, <1>5, EndKeeps

------------------------------------------------------------------------------
(* The writes.                                                              *)

LEMMA FrontIs == ASSUME NEW S, NEW q \in Seq(S), NEW e \in S
                 PROVE  Append(Front(q), e) \in Seq(S)
<1>1. Len(q) \in Nat /\ \A i \in 1..(Len(q) - 1) : q[i] \in S
  OBVIOUS
<1>2. Front(q) \in Seq(S)
  BY <1>1, SubSeqProperties DEF Front
<1> QED BY <1>2, AppendIs

\* What an append leaves is a file, and a record more unless it was cut short.
LEMMA AppendedIs ==
  ASSUME NEW R, NEW file \in [lines : Seq(R \cup {Torn}), open : BOOLEAN], NEW x \in R
  PROVE  /\ Appended(file, x) \in [lines : Seq(R \cup {Torn}), open : BOOLEAN]
         /\ CutShort(file, x) \subseteq [lines : Seq(R \cup {Torn}), open : BOOLEAN]
         /\ ~file.open => /\ Appended(file, x).lines = Append(file.lines, x)
                         /\ ~Appended(file, x).open
<1>1. file.lines \in Seq(R \cup {Torn}) /\ x \in R \cup {Torn} /\ Torn \in R \cup {Torn}
  OBVIOUS
<1>2. /\ Append(Front(file.lines), Torn) \in Seq(R \cup {Torn})
      /\ Append(file.lines, Torn) \in Seq(R \cup {Torn})
      /\ Append(file.lines, x) \in Seq(R \cup {Torn})
  BY <1>1, FrontIs, AppendIs
<1>3. PICK l1, l2, l3 : /\ l1 = Append(Front(file.lines), Torn) /\ l2 = Append(file.lines, Torn)
                        /\ l3 = Append(file.lines, x)
  OBVIOUS
<1>4. Appended(file, x) = IF file.open THEN [lines |-> l1, open |-> FALSE]
                          ELSE [file EXCEPT !.lines = l3]
  BY <1>3 DEF Appended
<1>5. CutShort(file, x) = IF file.open THEN {[file EXCEPT !.lines = l1]}
                          ELSE {[lines |-> l, open |-> TRUE] : l \in {l3, l2}}
  <2>1. {[lines |-> Append(file.lines, r), open |-> TRUE] : r \in {x, Torn}}
          = {[lines |-> l, open |-> TRUE] : l \in {l3, l2}}
    BY <1>3
  <2> QED BY <1>3, <2>1 DEF CutShort
<1>6. /\ l1 \in Seq(R \cup {Torn}) /\ l2 \in Seq(R \cup {Torn})
      /\ l3 \in Seq(R \cup {Torn}) /\ file.open \in BOOLEAN
  BY <1>2, <1>3
<1>7. Appended(file, x) \in [lines : Seq(R \cup {Torn}), open : BOOLEAN]
  BY <1>4, <1>6
<1>8. CutShort(file, x) \subseteq [lines : Seq(R \cup {Torn}), open : BOOLEAN]
  <2>1. CASE file.open
    <3>1. [file EXCEPT !.lines = l1] \in [lines : Seq(R \cup {Torn}), open : BOOLEAN]
      BY <1>6
    <3> QED BY <1>5, <2>1, <3>1
  <2>2. CASE ~file.open
    <3>1. \A l \in {l3, l2} :
             [lines |-> l, open |-> TRUE] \in [lines : Seq(R \cup {Torn}), open : BOOLEAN]
      BY <1>6
    <3>2. CutShort(file, x) = {[lines |-> l, open |-> TRUE] : l \in {l3, l2}}
      BY <1>5, <2>2
    <3>3. \A c \in CutShort(file, x) : \E l \in {l3, l2} : c = [lines |-> l, open |-> TRUE]
      BY <3>2, Zenon
    <3> QED BY <3>1, <3>3, Zenon
  <2> QED BY <2>1, <2>2
<1>9. ~file.open => Appended(file, x).lines = l3 /\ ~Appended(file, x).open
  BY <1>4, <1>6
<1> QED BY <1>3, <1>7, <1>8, <1>9

\* The snapshot that is written next is the one that the journal calls for.
LEMMA NextSnapshotIs ==
  ASSUME ShadowInv, NEW p \in Procs, Repairing(p) \/ pc[p] = "applied"
  PROVE  LET s == mem[p].snapshots
             q == Known(p)
             x == NextSnapshot(p) IN
         /\ s \in Seq(SnapshotRecord) /\ q \in Seq(Feed) /\ x \in SnapshotRecord
         /\ Append(s, x) \in Seq(SnapshotRecord) /\ Len(Append(s, x)) = Len(s) + 1
         /\ SnapshotsSound(Append(s, x), q)
         /\ Len(s) <= Len(mem[p].events) /\ HasRead(pc[p])
<1>1. MemOK(pc[p], mem[p])
  BY DEF ShadowInv, Shape
<1>2. HasRead(pc[p])
  BY DEF Repairing, HasRead
<1>3. PICK s, q : s = mem[p].snapshots /\ q = Known(p)
  OBVIOUS
<1>4. /\ s \in Seq(SnapshotRecord) /\ mem[p].events \in Seq(EventRecord)
      /\ SnapshotsSound(s, q)
  BY <1>1, <1>2, <1>3 DEF MemOK, Memory, Known
<1>5. q \in Seq(Feed) /\ Len(q) = Len(mem[p].events) /\ Len(s) \in Nat /\ Len(q) \in Nat
  BY <1>3, <1>4, SeqsIs DEF Known
<1>6. Len(s) <= Len(q)
  BY <1>1, <1>3, <1>5 DEF Repairing, MemOK
<1>7. NextSnapshot(p) = [at |-> SubSeq(q, 1, Len(s)), after |-> LastAt(s)]
  <2>1. CASE pc[p] = "repair"
    <3>1. Len(s) + 1 \in 1..(Len(q) + 1) /\ Len(s) + 1 - 1 = Len(s)
      BY <1>5, <1>6
    <3>2. Expected(q)[Len(s) + 1] = SubSeq(q, 1, Len(s))
      BY <3>1 DEF Expected
    <3> QED BY <1>3, <2>1, <3>2 DEF NextSnapshot, Snapshot
  <2>2. CASE pc[p] = "applied"
    <3>1. Len(s) = Len(q)
      BY <1>1, <1>3, <1>5, <2>2 DEF MemOK
    <3>2. SubSeq(q, 1, Len(q)) = q
      BY <1>5, SubSeqFull
    <3> QED BY <1>3, <2>2, <3>1, <3>2 DEF NextSnapshot, Snapshot
  <2> QED BY <2>1, <2>2 DEF Repairing
<1> QED BY <1>2, <1>3, <1>4, <1>5, <1>6, <1>7, SnapshotsGrow

LEMMA WriteSnapshotKeeps ==
  ASSUME ShadowInv, NEW p \in Procs, NEW to \in Places, WriteSnapshot(p, to),
         \/ Repairing(p) /\ to = "repair"
         \/ pc[p] = "applied" /\ to = "marked"
  PROVE  ShadowInv'
<1>1. Shape /\ MemOK(pc[p], mem[p])
  BY DEF ShadowInv, Shape
<1>2. PICK s, x : s = mem[p].snapshots /\ x = NextSnapshot(p)
  OBVIOUS
<1>3. /\ s \in Seq(SnapshotRecord) /\ x \in SnapshotRecord /\ Len(s) <= Len(mem[p].events)
      /\ Append(s, x) \in Seq(SnapshotRecord) /\ Len(Append(s, x)) = Len(s) + 1
      /\ SnapshotsSound(Append(s, x), Seqs(mem[p].events)) /\ HasRead(pc[p])
  BY <1>2, NextSnapshotIs DEF Known
<1>4. PICK t : t = Append(s, x)
  OBVIOUS
<1>5. PICK m : m = [mem[p] EXCEPT !.snapshots = t]
  OBVIOUS
<1>6. /\ m \in Memory /\ m.cmd = mem[p].cmd /\ m.status = mem[p].status
      /\ m.batch = mem[p].batch /\ m.todo = mem[p].todo /\ m.events = mem[p].events
      /\ m.snapshots = t
  BY <1>1, <1>3, <1>4, <1>5 DEF MemOK, Memory
<1>7. MemOK(to, m)
  BY <1>1, <1>2, <1>3, <1>4, <1>6 DEF MemOK, Repairing, HasRead
<1>8. /\ pc' = [pc EXCEPT ![p] = to] /\ mem' = [mem EXCEPT ![p] = m]
      /\ snapshots' = Appended(snapshots, x)
      /\ UNCHANGED <<status, events, checkpoint, cuts, acked, overlap, tripped>>
  BY <1>2, <1>4, <1>5 DEF WriteSnapshot, Goto, ghosts
<1>9. Moves(p) /\ pc'[p] = to /\ mem'[p] = m
  BY <1>1, <1>7, <1>8, MovesTo
<1>10. \A q \in Procs : q # p => pc'[q] = pc[q] /\ mem'[q] = mem[q]
  BY <1>1, <1>9, OthersStay
<1>11. /\ snapshots' \in [lines : Seq(SnapshotRecord \cup {Torn}), open : BOOLEAN]
       /\ ~snapshots.open => snapshots'.lines = Append(snapshots.lines, x) /\ ~snapshots'.open
  <2>1. PICK f : f = snapshots
    OBVIOUS
  <2>2. f \in [lines : Seq(SnapshotRecord \cup {Torn}), open : BOOLEAN]
    BY <1>1, <2>1 DEF Shape
  <2>3. /\ Appended(f, x) \in [lines : Seq(SnapshotRecord \cup {Torn}), open : BOOLEAN]
        /\ ~f.open => Appended(f, x).lines = Append(f.lines, x) /\ ~Appended(f, x).open
    BY <1>3, <2>2, AppendedIs
  <2> QED BY <1>8, <2>1, <2>3, Zenon
<1>12. Shape'
  BY <1>1, <1>8, <1>9, <1>11, ShapeKept DEF Shape
<1>13. ASSUME cuts = 0 PROVE Uncut'
  <2>1. Uncut
    BY <1>13 DEF ShadowInv
  <2>2. snapshots'.lines \in Seq(SnapshotRecord) /\ ~snapshots'.open
    <3>1. snapshots.lines \in Seq(SnapshotRecord) /\ ~snapshots.open
      BY <2>1 DEF Uncut
    <3>2. Append(snapshots.lines, x) \in Seq(SnapshotRecord)
      BY <1>3, <3>1, AppendIs
    <3> QED BY <1>11, <3>1, <3>2, Zenon
  <2>3. \A q \in Procs : Held(mem'[q], events.lines)
    BY <1>6, <1>9, <1>10, <2>1 DEF Uncut, Held
  <2> QED BY <1>8, <2>1, <2>2, <2>3 DEF Uncut
<1>14. ASSUME cuts = 0, overlap # "advances" PROVE Beside'
  <2>1. Beside
    BY <1>14 DEF ShadowInv
  <2>2. \A q \in Procs : Partly(pc'[q], mem'[q], events.lines)
    BY <1>3, <1>6, <1>9, <1>10, <2>1 DEF Beside, Partly, HasRead
  <2>3. \A q, r \in Procs : mem'[q].cmd = "advance" /\ mem'[r].cmd = "advance" => q = r
    BY <1>6, <1>9, <1>10, <2>1 DEF Beside
  <2> QED BY <1>8, <2>1, <2>2, <2>3 DEF Beside
<1>15. ASSUME cuts = 0, overlap = "none" PROVE Alone'
  <2>1. Alone /\ Uncut
    BY <1>15 DEF ShadowInv
  <2>2. mem[p].events = events.lines /\ s = snapshots.lines /\ pc[p] # "idle"
    BY <1>2, <1>3, <2>1 DEF Alone, HasRead
  <2>3. snapshots'.lines = t
    BY <1>4, <1>11, <2>1, <2>2 DEF Uncut
  <2>4. \A q \in Procs : q # p => pc[q] = "idle"
    BY <2>1, <2>2 DEF Alone
  <2>5. /\ \A q, r \in Procs : pc'[q] # "idle" /\ pc'[r] # "idle" => q = r
        /\ \A q \in Procs : pc'[q] \notin {"idle", "events"} => mem'[q].events = events.lines
        /\ \A q \in Procs : HasRead(pc'[q]) => mem'[q].snapshots = snapshots'.lines
    BY <1>6, <1>9, <1>10, <2>2, <2>3, <2>4 DEF HasRead
  <2>6. SnapshotsSound(snapshots'.lines, Seqs(events.lines))
    BY <1>3, <1>4, <2>2, <2>3
  <2>7. Len(events.lines) <= Len(snapshots'.lines)
    <3>1. Len(s) \in Nat /\ Len(t) = Len(s) + 1 /\ Len(events.lines) \in Nat
      BY <1>3, <1>4, <2>1, AppendIs, SeqsIs DEF Uncut
    <3>2. Len(events.lines) <= Len(s)
      BY <2>1, <2>2 DEF Alone
    <3> QED BY <2>3, <3>1, <3>2
  <2> QED BY <1>8, <2>1, <2>5, <2>6, <2>7 DEF Alone
<1> QED BY <1>8, <1>12, <1>13, <1>14, <1>15 DEF ShadowInv

LEMMA WriteCheckpointKeeps ==
  ASSUME ShadowInv, NEW p \in Procs, WriteCheckpoint(p, "work"), UNCHANGED mem,
         \/ pc[p] = "repair" /\ ~Repairing(p)
         \/ pc[p] = "marked"
  PROVE  ShadowInv'
<1>1. Shape /\ MemOK(pc[p], mem[p]) /\ HasRead(pc[p]) /\ pc[p] \notin {"idle", "events"}
  BY DEF ShadowInv, Shape, HasRead
<1>2. PICK s, q : s = mem[p].snapshots /\ q = Known(p)
  OBVIOUS
<1>3. /\ s \in Seq(SnapshotRecord) /\ mem[p].events \in Seq(EventRecord)
      /\ SnapshotsSound(s, q)
  BY <1>1, <1>2 DEF MemOK, Memory, Known
<1>4. q \in Seq(Feed) /\ Len(q) = Len(mem[p].events) /\ Len(s) \in Nat /\ Len(q) \in Nat
  BY <1>2, <1>3, SeqsIs DEF Known
<1>5. Len(s) = Len(q) + 1
  <2>1. Len(s) <= Len(q) + 1
    BY <1>3, <1>4, SnapshotsAre
  <2> QED BY <1>1, <1>2, <1>4, <2>1 DEF Repairing, MemOK
<1>6. LastAt(s) = q
  BY <1>3, <1>4, <1>5, LastSnapshot
<1>7. checkpoint' = [events |-> q, snapshot |-> q]
  BY <1>2, <1>6 DEF WriteCheckpoint
<1>8. /\ pc' = [pc EXCEPT ![p] = "work"] /\ mem' = mem
      /\ UNCHANGED <<status, events, snapshots, cuts, acked, overlap, tripped>>
  BY DEF WriteCheckpoint, Goto, ghosts
<1>9. MemOK("work", mem[p])
  BY <1>1, <1>2, <1>4, <1>5 DEF MemOK, HasRead
<1>10. Moves(p) /\ pc'[p] = "work"
  BY <1>1, <1>8, <1>9 DEF Moves, Shape, Places
<1>11. \A r \in Procs : r # p => pc'[r] = pc[r]
  BY <1>1, <1>10, OthersStay
<1>12. Shape'
  <2>1. checkpoint' \in [events : Chain, snapshot : Chain \cup {Genesis}]
    BY <1>4, <1>7 DEF Chain
  <2> QED BY <1>1, <1>8, <1>10, <2>1, ShapeKept DEF Shape
<1>13. ASSUME cuts = 0 PROVE Uncut'
  BY <1>8, <1>13 DEF ShadowInv, Uncut
<1>14. ASSUME cuts = 0, overlap # "advances" PROVE Beside'
  <2>1. Beside /\ Uncut
    BY <1>14 DEF ShadowInv
  <2>2. IsPrefix(q, Seqs(events.lines))
    BY <1>1, <1>2, <1>3, <2>1, SeqsOfPrefix DEF Beside, Partly, Uncut, Known
  <2>3. \A r \in Procs : Partly(pc'[r], mem[r], events.lines)
    BY <1>1, <1>10, <1>11, <2>1 DEF Beside, Partly
  <2>4. checkpoint'.events = q /\ checkpoint'.snapshot = q
    BY <1>7
  <2> QED BY <1>8, <2>1, <2>2, <2>3, <2>4 DEF Beside
<1>15. ASSUME cuts = 0, overlap = "none" PROVE Alone'
  <2>1. Alone
    BY <1>15 DEF ShadowInv
  <2>2. /\ \A r \in Procs : pc'[r] # "idle" => pc[r] # "idle"
        /\ \A r \in Procs : pc'[r] \notin {"idle", "events"} => pc[r] \notin {"idle", "events"}
        /\ \A r \in Procs : HasRead(pc'[r]) => HasRead(pc[r])
    BY <1>1, <1>10, <1>11
  <2> QED BY <1>8, <2>1, <2>2 DEF Alone
<1> QED BY <1>8, <1>12, <1>13, <1>14, <1>15 DEF ShadowInv

LEMMA NextEventIs ==
  ASSUME ShadowInv, NEW p \in Procs, Applying(p), ~OutOfOrder(p)
  PROVE  LET v == mem[p].events
             x == NextEvent(p) IN
         /\ v \in Seq(EventRecord) /\ x \in EventRecord /\ x.seq = Head(mem[p].todo)
         /\ Append(v, x) \in Seq(EventRecord) /\ Len(Append(v, x)) = Len(v) + 1
         /\ EventsSound(Append(v, x))
         /\ mem[p].todo \in Seq(Feed) /\ mem[p].todo # <<>>
<1>1. MemOK(pc[p], mem[p]) /\ pc[p] = "work"
  BY DEF ShadowInv, Shape, Applying
<1>2. PICK v : v = mem[p].events
  OBVIOUS
<1>3. /\ v \in Seq(EventRecord) /\ EventsSound(v) /\ Known(p) = Seqs(v)
      /\ mem[p].todo \in Seq(Feed) /\ mem[p].todo # <<>>
  BY <1>1, <1>2 DEF MemOK, Memory, HasRead, Known, Chain, Applying
<1>4. PICK e \in Feed : e = Head(mem[p].todo)
  BY <1>3, HeadOrTail
<1>5. v # <<>> => e > Last(Seqs(v))
  <2>1. ASSUME v # <<>> PROVE Seqs(v) # <<>> /\ Last(Seqs(v)) \in Nat
    <3>1. Len(v) \in Nat \ {0} /\ Len(Seqs(v)) = Len(v) /\ Len(v) \in 1..Len(v)
      BY <1>3, <2>1, SeqsIs
    <3>2. Seqs(v)[Len(v)] \in Feed
      BY <1>3, <3>1, SeqsIs
    <3> QED BY <3>1, <3>2, FeedIsNat DEF Last
  <2> QED BY <1>3, <1>4, <2>1, FeedIsNat DEF OutOfOrder
<1>6. NextEvent(p) = [seq |-> e, after |-> Seqs(v)]
  BY <1>3, <1>4 DEF NextEvent
<1>7. PICK x : x = NextEvent(p)
  OBVIOUS
<1>8. x \in EventRecord /\ Append(v, x) \in Seq(EventRecord) /\ EventsSound(Append(v, x))
  BY <1>3, <1>4, <1>5, <1>6, <1>7, EventsGrow
<1>9. x.seq = e
  BY <1>6, <1>7
<1>10. Len(Append(v, x)) = Len(v) + 1
  BY <1>3, <1>8, AppendIs
<1> QED BY <1>2, <1>3, <1>4, <1>7, <1>8, <1>9, <1>10

LEMMA ApplyEventKeeps ==
  ASSUME ShadowInv, NEW p \in Procs, ApplyEvent(p)
  PROVE  ShadowInv'
<1>1. Shape /\ MemOK(pc[p], mem[p]) /\ Applying(p) /\ ~OutOfOrder(p)
      /\ pc[p] = "work" /\ mem[p].cmd = "advance"
  BY DEF ShadowInv, Shape, ApplyEvent, Applying
<1>2. PICK v, x : v = mem[p].events /\ x = NextEvent(p)
  OBVIOUS
<1>3. PICK t, d : t = Append(v, x) /\ d = Tail(mem[p].todo)
  OBVIOUS
<1>4. /\ v \in Seq(EventRecord) /\ x \in EventRecord /\ x.seq = Head(mem[p].todo)
      /\ t \in Seq(EventRecord) /\ Len(t) = Len(v) + 1 /\ EventsSound(t)
      /\ mem[p].todo \in Seq(Feed) /\ mem[p].todo # <<>>
  BY <1>1, <1>2, <1>3, NextEventIs
<1>5. /\ d \in Chain /\ \A e \in Range(mem[p].todo) : e = x.seq \/ e \in Range(d)
  BY <1>3, <1>4, HeadOrTail DEF Chain
<1>6. PICK m : m = [mem[p] EXCEPT !.events = t, !.todo = d]
  OBVIOUS
<1>7. /\ m \in Memory /\ m.cmd = "advance" /\ m.status = mem[p].status
      /\ m.batch = mem[p].batch /\ m.todo = d /\ m.events = t
      /\ m.snapshots = mem[p].snapshots
  BY <1>1, <1>4, <1>5, <1>6 DEF MemOK, Memory
<1>8. MemOK("applied", m)
  <2>1. /\ SnapshotsSound(m.snapshots, Seqs(v)) /\ m.snapshots \in Seq(SnapshotRecord)
        /\ Len(m.snapshots) = Len(v) + 1
    BY <1>1, <1>2, <1>7 DEF MemOK, HasRead, Memory
  <2>2. Seqs(t) = Append(Seqs(v), x.seq) /\ x.seq \in Feed /\ Seqs(v) \in Seq(Feed)
    BY <1>3, <1>4, <1>5, SeqsOfAppend, SeqsIs, HeadOrTail
  <2>3. SnapshotsSound(m.snapshots, Seqs(t))
    BY <2>1, <2>2, SnapshotsStay
  <2> QED BY <1>1, <1>4, <1>7, <2>1, <2>3 DEF MemOK
<1>9. /\ pc' = [pc EXCEPT ![p] = "applied"] /\ mem' = [mem EXCEPT ![p] = m]
      /\ events' = Appended(events, x)
      /\ UNCHANGED <<status, snapshots, checkpoint, cuts, acked, overlap, tripped>>
  BY <1>2, <1>3, <1>6 DEF ApplyEvent, Goto, ghosts
<1>10. Moves(p) /\ pc'[p] = "applied" /\ mem'[p] = m
  BY <1>1, <1>8, <1>9, MovesTo DEF Places
<1>11. \A q \in Procs : q # p => pc'[q] = pc[q] /\ mem'[q] = mem[q]
  BY <1>1, <1>10, OthersStay
<1>12. /\ events' \in [lines : Seq(EventRecord \cup {Torn}), open : BOOLEAN]
       /\ ~events.open => events'.lines = Append(events.lines, x) /\ ~events'.open
  <2>1. PICK f : f = events
    OBVIOUS
  <2>2. f \in [lines : Seq(EventRecord \cup {Torn}), open : BOOLEAN]
    BY <1>1, <2>1 DEF Shape
  <2>3. /\ Appended(f, x) \in [lines : Seq(EventRecord \cup {Torn}), open : BOOLEAN]
        /\ ~f.open => Appended(f, x).lines = Append(f.lines, x) /\ ~Appended(f, x).open
    BY <1>4, <2>2, AppendedIs
  <2> QED BY <1>9, <2>1, <2>3, Zenon
<1>13. Shape'
  BY <1>1, <1>9, <1>10, <1>12, ShapeKept DEF Shape
<1>14. ASSUME cuts = 0
       PROVE  /\ Uncut /\ events.lines \in Seq(EventRecord)
              /\ events'.lines = Append(events.lines, x) /\ ~events'.open
              /\ events'.lines \in Seq(EventRecord)
              /\ \A e : Has(events.lines, e) => Has(events'.lines, e)
              /\ Has(events'.lines, x.seq)
  <2>1. Uncut /\ events.lines \in Seq(EventRecord) /\ ~events.open
    BY <1>14 DEF ShadowInv, Uncut
  <2>2. Append(events.lines, x) \in Seq(EventRecord)
    BY <1>4, <2>1, AppendIs
  <2>3. /\ \A e : Has(events.lines, e) => Has(Append(events.lines, x), e)
        /\ Has(Append(events.lines, x), x.seq)
    BY <1>4, <2>1, HasGrows
  <2> QED BY <1>12, <2>1, <2>2, <2>3, Zenon
<1>15. ASSUME cuts = 0 PROVE Uncut'
  <2>1. \A q \in Procs : Held(mem[q], events.lines)
    BY <1>14, <1>15 DEF Uncut
  <2>2. ASSUME NEW q \in Procs, q # p PROVE Held(mem'[q], events'.lines)
    BY <1>11, <1>14, <1>15, <2>1, <2>2 DEF Held
  <2>3. Held(m, events'.lines)
    <3>1. ASSUME NEW i \in DOMAIN t PROVE Has(events'.lines, t[i].seq)
      <4>1. i \in 1..(Len(v) + 1) /\ Len(v) \in Nat
        BY <1>3, <1>4, AppendIs
      <4>2. CASE i = Len(v) + 1
        BY <1>3, <1>4, <1>14, <1>15, <4>2, AppendIs
      <4>3. CASE i \in 1..Len(v)
        <5>1. i \in DOMAIN v /\ t[i] = v[i]
          BY <1>3, <1>4, <4>3, AppendIs
        <5> QED BY <1>2, <1>14, <1>15, <2>1, <5>1 DEF Held
      <4> QED BY <4>1, <4>2, <4>3
    <3>2. ASSUME NEW i \in DOMAIN m.batch, m.batch[i] \notin Range(m.todo)
          PROVE  Has(events'.lines, m.batch[i])
      <4>1. m.batch[i] = x.seq \/ m.batch[i] \notin Range(mem[p].todo)
        BY <1>5, <1>7, <3>2
      <4> QED BY <1>1, <1>7, <1>14, <1>15, <2>1, <4>1 DEF Held
    <3> QED BY <1>7, <3>1, <3>2 DEF Held
  <2> QED BY <1>9, <1>10, <1>14, <1>15, <2>2, <2>3 DEF Uncut
<1>16. ASSUME cuts = 0, overlap # "advances" PROVE Beside' /\ events'.lines = t
  <2>1. Beside
    BY <1>16 DEF ShadowInv
  <2>2. v = events.lines
    BY <1>1, <1>2, <2>1 DEF Beside, Partly
  <2>3. events'.lines = t
    BY <1>3, <1>14, <1>16, <2>2
  <2>4. IsPrefix(checkpoint.events, Seqs(events'.lines))
    <3>1. checkpoint.events \in Seq(Feed)
      BY <1>1 DEF Shape, Chain
    <3>2. Seqs(events'.lines) = Append(Seqs(v), x.seq) /\ Seqs(v) \in Seq(Feed) /\ x.seq \in Feed
      BY <1>3, <1>4, <2>3, SeqsOfAppend, SeqsIs, HeadOrTail
    <3>3. IsPrefix(checkpoint.events, Seqs(v))
      BY <2>1, <2>2 DEF Beside
    <3> QED BY <3>1, <3>2, <3>3, PrefixIs
  <2>5. \A q, r \in Procs : mem'[q].cmd = "advance" /\ mem'[r].cmd = "advance" => q = r
    BY <1>1, <1>7, <1>10, <1>11, <2>1 DEF Beside
  <2>6. ASSUME NEW q \in Procs PROVE Partly(pc'[q], mem'[q], events'.lines)
    <3>1. CASE q = p
      BY <1>4, <1>7, <1>10, <2>3, <3>1, PrefixIs DEF Partly
    <3>2. CASE q # p
      <4>1. mem[q].cmd # "advance" /\ Partly(pc[q], mem[q], events.lines)
        BY <1>1, <2>1, <3>2 DEF Beside
      <4>2. mem[q].events \in Seq(EventRecord)
        BY <1>1 DEF Shape, MemOK, Memory
      <4>3. IsPrefix(mem[q].events, events.lines) => IsPrefix(mem[q].events, Append(events.lines, x))
        BY <1>4, <1>14, <1>16, <4>2, PrefixIs
      <4> QED BY <1>11, <1>14, <1>16, <3>2, <4>1, <4>3 DEF Partly
    <3> QED BY <3>1, <3>2
  <2> QED BY <1>4, <1>9, <2>1, <2>3, <2>4, <2>5, <2>6 DEF Beside
<1>17. ASSUME cuts = 0, overlap = "none" PROVE Alone'
  <2>1. Alone /\ Uncut /\ events'.lines = t
    BY <1>16, <1>17 DEF ShadowInv
  <2>2. mem[p].snapshots = snapshots.lines /\ v = events.lines
    BY <1>1, <1>2, <2>1 DEF Alone, HasRead
  <2>3. \A q \in Procs : q # p => pc[q] = "idle"
    BY <1>1, <2>1 DEF Alone
  <2>4. /\ \A q, r \in Procs : pc'[q] # "idle" /\ pc'[r] # "idle" => q = r
        /\ \A q \in Procs : pc'[q] \notin {"idle", "events"} => mem'[q].events = events'.lines
        /\ \A q \in Procs : HasRead(pc'[q]) => mem'[q].snapshots = snapshots.lines
    BY <1>7, <1>10, <1>11, <2>1, <2>2, <2>3 DEF HasRead
  <2>5. /\ SnapshotsSound(snapshots.lines, Seqs(events'.lines))
        /\ Len(events'.lines) <= Len(snapshots.lines)
    <3>1. SnapshotsSound(m.snapshots, Seqs(t)) /\ Len(m.snapshots) = Len(t)
      BY <1>7, <1>8 DEF MemOK, HasRead
    <3>2. Len(t) \in Nat /\ m.snapshots = snapshots.lines
      BY <1>4, <1>7, <2>2
    <3> QED BY <2>1, <3>1, <3>2
  <2> QED BY <1>9, <2>1, <2>4, <2>5 DEF Alone
<1> QED BY <1>9, <1>13, <1>15, <1>16, <1>17 DEF ShadowInv

LEMMA DiesWritingKeeps ==
  ASSUME ShadowInv, NEW p \in Procs, DiesWriting(p)
  PROVE  ShadowInv'
<1>1. Shape
  BY DEF ShadowInv
<1>2. Moves(p)
  BY <1>1, IdleIs, MovesTo DEF DiesWriting, Ends, Places
<1>3. cuts' \in Nat /\ cuts' # 0 /\ UNCHANGED <<status, checkpoint>>
  BY <1>1 DEF DiesWriting, Shape
<1>4. events' \in [lines : Seq(EventRecord \cup {Torn}), open : BOOLEAN]
  <2>1. CASE events' = events
    BY <1>1, <2>1 DEF Shape
  <2>2. CASE events' # events
    <3>1. Applying(p) /\ ~OutOfOrder(p) /\ events' \in CutShort(events, NextEvent(p))
      BY <2>2 DEF DiesWriting
    <3>2. PICK f, x : f = events /\ x = NextEvent(p)
      OBVIOUS
    <3>3. x \in EventRecord /\ f \in [lines : Seq(EventRecord \cup {Torn}), open : BOOLEAN]
      BY <1>1, <3>1, <3>2, NextEventIs DEF Shape
    <3>4. CutShort(f, x) \subseteq [lines : Seq(EventRecord \cup {Torn}), open : BOOLEAN]
      BY <3>3, AppendedIs
    <3> QED BY <3>1, <3>2, <3>4, Zenon
  <2> QED BY <2>1, <2>2
<1>5. snapshots' \in [lines : Seq(SnapshotRecord \cup {Torn}), open : BOOLEAN]
  <2>1. CASE snapshots' = snapshots
    BY <1>1, <2>1 DEF Shape
  <2>2. CASE snapshots' # snapshots
    <3>1. /\ Repairing(p) \/ pc[p] = "applied"
          /\ snapshots' \in CutShort(snapshots, NextSnapshot(p))
      BY <2>2 DEF DiesWriting
    <3>2. PICK f, x : f = snapshots /\ x = NextSnapshot(p)
      OBVIOUS
    <3>3. x \in SnapshotRecord /\ f \in [lines : Seq(SnapshotRecord \cup {Torn}), open : BOOLEAN]
      BY <1>1, <3>1, <3>2, NextSnapshotIs DEF Shape
    <3>4. CutShort(f, x) \subseteq [lines : Seq(SnapshotRecord \cup {Torn}), open : BOOLEAN]
      BY <3>3, AppendedIs
    <3> QED BY <3>1, <3>2, <3>4, Zenon
  <2> QED BY <2>1, <2>2
<1>6. Shape'
  BY <1>1, <1>2, <1>3, <1>4, <1>5, ShapeKept DEF Shape
<1> QED BY <1>3, <1>6 DEF ShadowInv

------------------------------------------------------------------------------
(* The invariant holds.                                                     *)

LEMMA InitShadow == Init => ShadowInv
<1> SUFFICES ASSUME Init PROVE ShadowInv
  OBVIOUS
<1>1. /\ status = "none" /\ events = Empty /\ snapshots = Empty
      /\ checkpoint = [events |-> <<>>, snapshot |-> Genesis]
      /\ pc = [p \in Procs |-> "idle"] /\ mem = [p \in Procs |-> Idle]
      /\ cuts = 0 /\ acked = {}
  BY DEF Init
<1>2. /\ Empty.lines = <<>> /\ ~Empty.open
      /\ \A R : Empty \in [lines : Seq(R), open : BOOLEAN]
  BY EmptySeq DEF Empty
<1>3. checkpoint \in [events : Chain, snapshot : Chain \cup {Genesis}] /\ <<>> \in Chain
  BY <1>1, EmptySeq DEF Chain
<1>4. Shape
  <2>1. /\ events \in [lines : Seq(EventRecord \cup {Torn}), open : BOOLEAN]
        /\ snapshots \in [lines : Seq(SnapshotRecord \cup {Torn}), open : BOOLEAN]
    BY <1>1, <1>2
  <2>2. /\ pc \in [Procs -> Places] /\ mem = [p \in Procs |-> mem[p]]
        /\ \A p \in Procs : MemOK(pc[p], mem[p])
    BY <1>1, IdleIs DEF Places
  <2> QED BY <1>1, <1>3, <2>1, <2>2 DEF Shape, Statuses
<1>5. /\ events.lines \in Seq(EventRecord) /\ events.lines = <<>>
      /\ snapshots.lines \in Seq(SnapshotRecord) /\ snapshots.lines = <<>>
  BY <1>1, <1>2, EmptySeq
<1>6. Uncut
  BY <1>1, <1>2, <1>5, IdleIs DEF Uncut
<1>7. Len(Seqs(events.lines)) = 0 /\ Seqs(events.lines) \in Seq(Feed)
  BY <1>5, SeqsIs
<1>8. Beside
  <2>1. EventsSound(events.lines)
    BY <1>5 DEF EventsSound
  <2>2. IsPrefix(checkpoint.events, Seqs(events.lines))
    <3>1. checkpoint.events = <<>> /\ <<>> \in Seq(Feed) /\ Len(<<>>) = 0
      BY <1>1, EmptySeq
    <3> QED BY <1>7, <3>1, PrefixIs
  <2> QED BY <1>1, <2>1, <2>2, IdleIs DEF Beside, Partly
<1>9. Alone
  <2>1. SnapshotsSound(snapshots.lines, Seqs(events.lines))
    <3>1. Len(snapshots.lines) = 0
      BY <1>5
    <3> QED BY <1>5, <1>7, <3>1, SnapshotsAre
  <2> QED BY <1>1, <1>5, <2>1 DEF Alone, HasRead
<1> QED BY <1>4, <1>6, <1>8, <1>9 DEF ShadowInv

LEMMA NextShadow == ShadowInv /\ [Next]_vars => ShadowInv'
<1> SUFFICES ASSUME ShadowInv, [Next]_vars PROVE ShadowInv'
  OBVIOUS
<1>1. CASE UNCHANGED vars
  BY <1>1 DEF vars, files, ghosts, ShadowInv, Shape, Uncut, Beside, Alone
<1>2. CASE Next
  <2> PICK p \in Procs :
        \/ Start(p) \/ Advance(p) \/ Command(p)
        \/ ReadEvents(p) \/ ReadSnapshots(p) \/ Repair(p)
        \/ Skip(p) \/ RefuseEvent(p)
        \/ ApplyEvent(p) \/ ApplySnapshot(p) \/ ApplyCheckpoint(p)
        \/ Finish(p) \/ Dies(p) \/ DiesWriting(p)
    BY <1>2 DEF Next
  <2>1. CASE Start(p) \/ Advance(p) \/ Command(p)
    BY <2>1, CommandsKeep
  <2>2. CASE ReadEvents(p)
    BY <2>2, ReadEventsKeeps
  <2>3. CASE ReadSnapshots(p)
    BY <2>3, ReadSnapshotsKeeps
  <2>4. CASE Repair(p)
    <3>1. CASE Repairing(p) /\ WriteSnapshot(p, "repair")
      BY <3>1, WriteSnapshotKeeps DEF Places
    <3>2. CASE pc[p] = "repair" /\ ~Repairing(p) /\ WriteCheckpoint(p, "work") /\ UNCHANGED mem
      BY <3>2, WriteCheckpointKeeps
    <3> QED BY <2>4, <3>1, <3>2 DEF Repair
  <2>5. CASE Skip(p)
    BY <2>5, SkipKeeps
  <2>6. CASE RefuseEvent(p) \/ Dies(p)
    BY <2>6, EndingsKeep
  <2>7. CASE ApplyEvent(p)
    BY <2>7, ApplyEventKeeps
  <2>8. CASE ApplySnapshot(p)
    BY <2>8, WriteSnapshotKeeps DEF ApplySnapshot, Places
  <2>9. CASE ApplyCheckpoint(p)
    BY <2>9, WriteCheckpointKeeps DEF ApplyCheckpoint
  <2>10. CASE Finish(p)
    BY <2>10, FinishKeeps
  <2>11. CASE DiesWriting(p)
    BY <2>11, DiesWritingKeeps
  <2> QED BY <2>1, <2>2, <2>3, <2>4, <2>5, <2>6, <2>7, <2>8, <2>9, <2>10, <2>11
<1> QED BY <1>1, <1>2

\* The inductive invariant: what each command knows is sound, and it is what the files say
\* as far as commands overlap and appends are cut short (shadow.py: _recover_checkpoint).
THEOREM ShadowAlways == Spec => []ShadowInv
  BY InitShadow, NextShadow, PTL DEF Spec

------------------------------------------------------------------------------
(* What follows from it.                                                    *)

\* Commands that run one after the other, killed anywhere between their writes, leave files
\* that _recover_checkpoint accepts, whatever the number of events, commands and kills; and
\* only a kill switch halts the session (shadow.py: _recover_checkpoint, shadow_advance).
THEOREM RecoversAloneHolds == Spec => []RecoversAlone
<1>1. ASSUME ShadowInv, overlap = "none", cuts = 0
      PROVE  /\ Accepts(events, snapshots) /\ Len(events.lines) <= Len(snapshots.lines)
             /\ status = "HALTED" => tripped
  <2>1. Shape /\ Uncut /\ Beside /\ Alone
    BY <1>1 DEF ShadowInv
  <2>2. Readable(events) /\ Readable(snapshots)
    BY <2>1, ReadableIs DEF Shape, Uncut
  <2> QED BY <2>1, <2>2 DEF Accepts, Beside, Alone
<1>2. ShadowInv => RecoversAlone
  BY <1>1 DEF RecoversAlone
<1> QED BY <1>2, ShadowAlways, PTL

LEMMA TypesOf == ShadowInv => TypeOK
<1> SUFFICES ASSUME ShadowInv PROVE TypeOK
  OBVIOUS
<1>1. Shape
  BY DEF ShadowInv
<1>2. /\ Range(events.lines) \subseteq EventRecord \cup {Torn}
      /\ Range(snapshots.lines) \subseteq SnapshotRecord \cup {Torn}
  <2>1. ASSUME NEW S, NEW q \in Seq(S) PROVE Range(q) \subseteq S
    BY DEF Range
  <2>2. /\ events.lines \in Seq(EventRecord \cup {Torn})
        /\ snapshots.lines \in Seq(SnapshotRecord \cup {Torn})
    BY <1>1 DEF Shape
  <2> QED BY <2>1, <2>2
<1>3. ASSUME NEW p \in Procs
      PROVE  pc[p] \in Places /\ (pc[p] = "idle" <=> mem[p] = Idle)
             /\ mem[p].cmd \in Commands \cup {"none"}
  <2>1. pc[p] \in Places /\ MemOK(pc[p], mem[p])
    BY <1>1 DEF Shape
  <2> QED BY <2>1, IdleIs DEF MemOK, Memory
<1> QED BY <1>1, <1>2, <1>3 DEF TypeOK, Shape, Statuses, Places

\* A reported event is applied once, the chain of the events verifies and the checkpoint names
\* a part of it, whatever reads beside an advance (shadow.py: shadow_advance, shadow_status,
\* shadow_reconcile).
THEOREM EventsOutliveReadersHolds == Spec => []EventsOutliveReaders
<1>1. ASSUME ShadowInv, cuts = 0, NEW e \in acked
      PROVE  LET n == Cardinality({i \in DOMAIN events.lines : events.lines[i].seq = e}) IN
             n >= 1 /\ (overlap # "advances" => n = 1)
  <2>1. events.lines \in Seq(EventRecord) /\ Has(events.lines, e)
    BY <1>1 DEF ShadowInv, Uncut
  <2>2. overlap # "advances" => EventsSound(events.lines)
    BY <1>1 DEF ShadowInv, Beside
  <2> QED BY <2>1, <2>2, OnceInJournal
<1>2. ShadowInv => AppliedOnce
  BY <1>1 DEF AppliedOnce
<1>3. ShadowInv => EventsOutliveReaders
  BY <1>2, TypesOf DEF EventsOutliveReaders, ShadowInv, Beside
<1> QED BY <1>3, ShadowAlways, PTL

\* A session that was halted or stopped never runs again, and takes no more events but from a
\* command that saw it running (shadow.py: shadow_advance, shadow_reconcile, shadow_stop).
THEOREM HaltHoldsAlways == Spec => HaltHolds
<1> DEFINE A == /\ status \in {"HALTED", "STOPPED"} => status' # "RUNNING"
                /\ events' # events => \E p \in Procs : mem[p].status = "RUNNING" /\ pc[p] = "work"
<1>1. ASSUME ShadowInv, [Next]_vars PROVE [A]_vars
  <2>1. CASE UNCHANGED vars
    BY <2>1
  <2>2. CASE Next
    <3>1. status \in {"HALTED", "STOPPED"} => status' # "RUNNING"
      BY <2>2 DEF Next, Start, Advance, Command, ReadEvents, ReadSnapshots, Refuse, Repair, Skip,
                  RefuseEvent, ApplyEvent, ApplySnapshot, ApplyCheckpoint, WriteSnapshot,
                  WriteCheckpoint, Finish, Dies, DiesWriting
    <3>2. ASSUME events' # events
          PROVE  \E p \in Procs : mem[p].status = "RUNNING" /\ pc[p] = "work"
      <4>1. PICK p \in Procs : Applying(p)
        BY <2>2, <3>2 DEF Next, Start, Advance, Command, Begin, ReadEvents, ReadSnapshots, Refuse,
                  Repair, Skip, RefuseEvent, ApplyEvent, ApplySnapshot, ApplyCheckpoint,
                  WriteSnapshot, WriteCheckpoint, Finish, Dies, DiesWriting, files
      <4>2. MemOK(pc[p], mem[p])
        BY <1>1 DEF ShadowInv, Shape
      <4> QED BY <4>1, <4>2 DEF Applying, MemOK
    <3> QED BY <3>1, <3>2
  <2> QED BY <1>1, <2>1, <2>2
<1>2. ShadowInv /\ [Next]_vars => [A]_vars
  BY <1>1
<1> HIDE DEF A
<1>3. Spec => [][A]_vars
  BY <1>2, ShadowAlways, PTL DEF Spec
<1> QED BY <1>3 DEF A, HaltHolds

------------------------------------------------------------------------------
(* The personal paper engine: the inductive invariant.  Of each book, what  *)
(* its log says of its fills and dividends, and how far its day has got.    *)

Decision == [session : Sessions, at : Nat, resumes : Nat]
FillEvent == [kind : {"fill"}, session : Sessions, decision : Decision, at : Nat, observed : Nat,
              resumes : Nat, qty : Int, paused : BOOLEAN]
DividendEvent == [kind : {"dividend"}, session : Sessions, qty : Int]
MissedEvent == [kind : {"missed"}, decision : Decision]
Event == FillEvent \cup DividendEvent \cup MissedEvent

BookType ==
    [pos : 0..Lot, cash : Nat, mark : Nat, pending : Decision \cup {None}, initial : BOOLEAN,
     day : Sessions \cup {None}, dayStart : Nat, high : Nat, breached : BOOLEAN, paused : BOOLEAN,
     seen : SUBSET Sessions, log : Seq(Event), began : [Sessions -> Nat \cup {None}],
     eased : BOOLEAN]

IsFill(e) == e.kind = "fill"
IsDividend(e) == e.kind = "dividend"

\* A fill as NextOpenOnly has it, of an engine that was registered at `reg`.
FillOK(f, reg) ==
    /\ f.session = f.decision.session + 1 /\ Closes(f.decision.session) > reg
    /\ f.decision.at < Opens(f.session) /\ f.decision.at < f.observed
    /\ Opens(f.session) <= f.at /\ f.at <= Opens(f.session) + Window
    /\ f.decision.resumes = f.resumes /\ (f.paused => f.qty <= 0)

\* A decision of the closes consumed, up to n, taken when they were over.
DecisionOK(d, reg, n, t, res) ==
    /\ d.session <= n /\ Closes(d.session) > reg
    /\ Closes(d.session) <= d.at /\ d.at <= t /\ d.resumes = res

\* Its fills belong to decisions of different closes, all before the pending one's.
OrdersOK(bk, reg, n, t, res) ==
    /\ bk.pending # None => DecisionOK(bk.pending, reg, n, t, res)
    /\ \A i \in DOMAIN bk.log : IsFill(bk.log[i]) =>
          /\ FillOK(bk.log[i], reg) /\ bk.log[i].at <= t /\ bk.log[i].session \in bk.seen
          /\ bk.log[i].decision.session <= n
          /\ bk.pending # None => bk.log[i].decision.session < bk.pending.session
    /\ \A i, j \in DOMAIN bk.log :
          IsFill(bk.log[i]) /\ IsFill(bk.log[j]) /\ bk.log[i].session = bk.log[j].session => i = j

\* The units are what the fills add up to, and every session that was looked at has
\* brought its dividend.
UnitsOK(bk) == bk.pos = HeldBefore(bk.log, LastSession + 1)

SeenOK(bk, reg, n, t) ==
    /\ \A s \in bk.seen : Opens(s) <= t
    /\ \A s \in Sessions : s <= n /\ Closes(s) > reg => s \in bk.seen

CreditsOK(bk, div) ==
    /\ \A i \in DOMAIN bk.log : IsDividend(bk.log[i]) =>
          /\ bk.log[i].session \in bk.seen
          /\ bk.log[i].qty = HeldBefore(bk.log, bk.log[i].session)
    /\ \A i, j \in DOMAIN bk.log :
          IsDividend(bk.log[i]) /\ IsDividend(bk.log[j]) /\ bk.log[i].session = bk.log[j].session
             => i = j
    /\ \A s \in bk.seen : HeldBefore(bk.log, s) * div[s] # 0 =>
          \E i \in DOMAIN bk.log : IsDividend(bk.log[i]) /\ bk.log[i].session = s

\* At rest a book that reached a limit is paused, unless it was resumed since.
LimitsOK(bk) ==
    /\ bk.breached = Fell(bk.high, Equity(bk), MaxDrawdown)
    /\ bk.breached => bk.paused
    /\ bk.day # None /\ ~bk.eased /\ Fell(bk.dayStart, Equity(bk), MaxDailyLoss) => bk.paused

\* Days go by in order: the present one began as dayStart says, none after it did.
DaysOK(bk, n) ==
    /\ \A s \in Sessions : bk.day = None \/ s > bk.day => bk.began[s] = None
    /\ bk.day # None => bk.day <= n + 1 /\ bk.began[bk.day] = bk.dayStart

BookOK(bk, reg, n, t, res, div) ==
    /\ bk \in BookType
    /\ OrdersOK(bk, reg, n, t, res) /\ UnitsOK(bk) /\ SeenOK(bk, reg, n, t) /\ CreditsOK(bk, div)
    /\ LimitsOK(bk) /\ (~Late => DaysOK(bk, n))

EngineInv ==
    /\ market \in Markets /\ now \in Ticks /\ bars \in 0..LatestClosed(now) /\ resumes \in Nat
    /\ registered \in (0..now) \cup {None}
    /\ registered = None => bars = 0 /\ \A b \in Books : book[b] = Fresh
    /\ book \in [Books -> BookType]
    /\ \A b \in Books : BookOK(book[b], Since, bars, now, resumes, market.dividend)

------------------------------------------------------------------------------
(* Induction over the natural numbers, from the order of finite sets.       *)

\* A set of numbers that is not empty has a least one.
LEMMA Least ==
  ASSUME NEW T \in SUBSET Nat, T # {}
  PROVE  \E n \in T : \A m \in T : n <= m
<1> DEFINE Below(n) == 0..(n - 1)
           B == {Below(n) : n \in T}
<1>1. \A n \in Nat : IsFiniteSet(Below(n)) /\ Below(n) \in SUBSET Nat
  BY FS_Interval
<1>2. B \subseteq FiniteSubsetsOf(Nat) /\ B # {}
  BY <1>1 DEF FiniteSubsetsOf
<1>3. PICK x \in B : \A y \in B : ~(<<y, x>> \in StrictSubsetOrdering(Nat))
  <2> HIDE DEF B
  <2> QED BY <1>2, FS_StrictSubsetOrderingWellFounded, WFMin
<1>4. PICK n \in T : x = Below(n)
  BY <1>3
<1>5. ASSUME NEW m \in T, m < n PROVE FALSE
  <2>1. Below(m) \in B
    OBVIOUS
  <2>2. m \in Below(n) /\ m \notin Below(m) /\ Below(m) \subseteq Below(n)
    BY <1>5
  <2>3. <<Below(m), Below(n)>> \in StrictSubsetOrdering(Nat)
    BY <2>2 DEF StrictSubsetOrdering
  <2> QED BY <1>3, <1>4, <2>1, <2>3
<1> QED BY <1>5

\* Induction, for a set of numbers rather than an operator.
LEMMA Induction ==
  ASSUME NEW T, 0 \in T, \A n \in Nat : n \in T => n + 1 \in T
  PROVE  Nat \subseteq T
<1>1. SUFFICES ASSUME Nat \ T # {} PROVE FALSE
  OBVIOUS
<1>2. PICK n \in Nat \ T : \A m \in Nat \ T : n <= m
  BY <1>1, Least
<1>3. n # 0 /\ n - 1 \in Nat /\ n - 1 \in T
  BY <1>2
<1> QED BY <1>2, <1>3

------------------------------------------------------------------------------
(* What was held before a session: a sum over the log.                      *)

Adds(e, s) == IF e.kind = "fill" /\ e.session < s THEN e.qty ELSE 0

\* What an event adds is a number.
LEMMA AddsType ==
  ASSUME NEW e \in Event, NEW s
  PROVE  Adds(e, s) \in Int
<1>1. CASE e \in FillEvent
  BY <1>1 DEF FillEvent, Adds
<1>2. CASE e \in DividendEvent
  BY <1>2 DEF DividendEvent, Adds
<1>3. CASE e \in MissedEvent
  BY <1>3 DEF MissedEvent, Adds
<1> QED BY <1>1, <1>2, <1>3 DEF Event

\* The recursive function has the partial sums.
LEMMA HeldIs ==
  ASSUME NEW log \in Seq(Event), NEW s
  PROVE  \E h \in [0..Len(log) -> Int] :
            /\ HeldBefore(log, s) = h[Len(log)] /\ h[0] = 0
            /\ \A n \in 1..Len(log) : h[n] = h[n - 1] + Adds(log[n], s)
<1> DEFINE N == Len(log)
<1> DEFINE Step(n, v) == IF log[n].kind = "fill" /\ log[n].session < s THEN v + log[n].qty ELSE v
           Good(k, g) == g = [n \in 0..k |-> IF n = 0 THEN 0 ELSE Step(n, g[n - 1])]
           T == {k \in Nat : \E g : Good(k, g)}
           held == CHOOSE g : Good(N, g)
<1>1. HeldBefore(log, s) = held[N]
  BY DEF HeldBefore
<1>2. ASSUME NEW n \in 1..N, NEW v \in Int PROVE Step(n, v) = v + Adds(log[n], s)
  BY <1>2 DEF Adds
<1> HIDE DEF Step
<1>3. Good(N, held)
  <2>1. 0 \in T
    <3>1. Good(0, [n \in 0..0 |-> 0])
      OBVIOUS
    <3> QED BY <3>1
  <2>2. ASSUME NEW k \in Nat, k \in T PROVE k + 1 \in T
    <3>1. PICK g : Good(k, g)
      BY <2>2
    <3> DEFINE h == [n \in 0..(k + 1) |-> IF n <= k THEN g[n] ELSE Step(n, g[n - 1])]
    <3>2. ASSUME NEW n \in 0..(k + 1)
          PROVE  h[n] = IF n = 0 THEN 0 ELSE Step(n, h[n - 1])
      <4>1. CASE n = 0
        BY <3>1, <4>1
      <4>2. CASE n # 0 /\ n <= k
        BY <3>1, <4>2
      <4>3. CASE n = k + 1
        BY <4>3
      <4> QED BY <4>1, <4>2, <4>3
    <3>3. Good(k + 1, h)
      BY <3>2
    <3> HIDE DEF h
    <3> QED BY <3>3
  <2>3. N \in T
    <3> HIDE DEF T
    <3> QED BY <2>1, <2>2, Induction
  <2> QED BY <2>3
<1> HIDE DEF held
<1> DEFINE S == {n \in Nat : n <= N => held[n] \in Int}
<1>4. Nat \subseteq S
  <2>1. 0 \in S
    BY <1>3
  <2>2. ASSUME NEW n \in Nat, n \in S PROVE n + 1 \in S
    <3>1. CASE n + 1 <= N
      <4>1. held[n + 1] = Step(n + 1, held[n]) /\ held[n] \in Int
        BY <1>3, <2>2, <3>1
      <4>2. log[n + 1] \in Event
        BY <3>1
      <4>3. Step(n + 1, held[n]) \in Int
        BY <1>2, <3>1, <4>1, <4>2, AddsType
      <4> QED BY <4>1, <4>3
    <3> QED BY <3>1
  <2> HIDE DEF S
  <2> QED BY <2>1, <2>2, Induction
<1>5. held \in [0..N -> Int] /\ held[0] = 0
  BY <1>3, <1>4
<1>6. ASSUME NEW n \in 1..N PROVE held[n] = held[n - 1] + Adds(log[n], s)
  <2>1. n \in 0..N /\ n # 0 /\ n - 1 \in 0..N
    BY <1>6
  <2>2. held[n - 1] \in Int
    BY <1>5, <2>1
  <2>3. held[n] = Step(n, held[n - 1])
    BY <1>3, <2>1
  <2> QED BY <1>2, <2>2, <2>3
<1> QED BY <1>1, <1>5, <1>6

\* What was held is a number.
LEMMA HeldType ==
  ASSUME NEW log \in Seq(Event), NEW s
  PROVE  HeldBefore(log, s) \in Int
<1>1. PICK h \in [0..Len(log) -> Int] : HeldBefore(log, s) = h[Len(log)]
  BY HeldIs
<1> QED BY <1>1

\* The sums of a log and of one that continues it agree.
LEMMA HeldAgrees ==
  ASSUME NEW log \in Seq(Event), NEW more \in Seq(Event), NEW s,
         NEW h \in [0..Len(log) -> Int], NEW k \in [0..Len(more) -> Int],
         Len(log) <= Len(more), h[0] = 0, k[0] = 0,
         \A n \in 1..Len(log) : h[n] = h[n - 1] + Adds(log[n], s),
         \A n \in 1..Len(more) : k[n] = k[n - 1] + Adds(more[n], s),
         \A n \in 1..Len(log) : Adds(log[n], s) = Adds(more[n], s)
  PROVE  h[Len(log)] = k[Len(log)]
<1> DEFINE S == {n \in Nat : n <= Len(log) => h[n] = k[n]}
<1>1. 0 \in S
  OBVIOUS
<1>2. ASSUME NEW n \in Nat, n \in S PROVE n + 1 \in S
  <2>1. CASE n + 1 <= Len(log)
    <3>1. h[n + 1] = h[n] + Adds(log[n + 1], s) /\ k[n + 1] = k[n] + Adds(more[n + 1], s)
          /\ Adds(log[n + 1], s) = Adds(more[n + 1], s) /\ h[n] = k[n]
      BY <1>2, <2>1
    <3> QED BY <3>1
  <2> QED BY <2>1
<1>3. Len(log) \in S
  <2> HIDE DEF S
  <2> QED BY <1>1, <1>2, Induction
<1> QED BY <1>3

\* Another event adds what it adds.
LEMMA HeldAppend ==
  ASSUME NEW log \in Seq(Event), NEW e \in Event, NEW s
  PROVE  HeldBefore(Append(log, e), s) = HeldBefore(log, s) + Adds(e, s)
<1> DEFINE more == Append(log, e)
<1>1. more \in Seq(Event) /\ Len(more) = Len(log) + 1 /\ more[Len(log) + 1] = e
      /\ \A n \in 1..Len(log) : more[n] = log[n]
  OBVIOUS
<1> HIDE DEF more
<1>2. PICK h \in [0..Len(log) -> Int] :
         /\ HeldBefore(log, s) = h[Len(log)] /\ h[0] = 0
         /\ \A n \in 1..Len(log) : h[n] = h[n - 1] + Adds(log[n], s)
  BY HeldIs
<1>3. PICK k \in [0..Len(more) -> Int] :
         /\ HeldBefore(more, s) = k[Len(more)] /\ k[0] = 0
         /\ \A n \in 1..Len(more) : k[n] = k[n - 1] + Adds(more[n], s)
  BY <1>1, HeldIs
<1>4. h[Len(log)] = k[Len(log)]
  <2>1. Len(log) <= Len(more)
    BY <1>1
  <2>2. \A n \in 1..Len(log) : Adds(log[n], s) = Adds(more[n], s)
    BY <1>1
  <2> QED BY <1>1, <1>2, <1>3, <2>1, <2>2, HeldAgrees
<1>5. k[Len(log) + 1] = k[Len(log)] + Adds(e, s)
  BY <1>1, <1>3
<1> QED BY <1>1, <1>2, <1>3, <1>4, <1>5 DEF more

\* Sessions before which the same fills came had the same held.
LEMMA HeldSame ==
  ASSUME NEW log \in Seq(Event), NEW s, NEW r,
         \A n \in 1..Len(log) : Adds(log[n], s) = Adds(log[n], r)
  PROVE  HeldBefore(log, s) = HeldBefore(log, r)
<1>1. PICK h \in [0..Len(log) -> Int] :
         /\ HeldBefore(log, s) = h[Len(log)] /\ h[0] = 0
         /\ \A n \in 1..Len(log) : h[n] = h[n - 1] + Adds(log[n], s)
  BY HeldIs
<1>2. PICK k \in [0..Len(log) -> Int] :
         /\ HeldBefore(log, r) = k[Len(log)] /\ k[0] = 0
         /\ \A n \in 1..Len(log) : k[n] = k[n - 1] + Adds(log[n], r)
  BY HeldIs
<1> DEFINE S == {n \in Nat : n <= Len(log) => h[n] = k[n]}
<1>3. 0 \in S
  BY <1>1, <1>2
<1>4. ASSUME NEW n \in Nat, n \in S PROVE n + 1 \in S
  <2>1. CASE n + 1 <= Len(log)
    <3>1. h[n + 1] = h[n] + Adds(log[n + 1], s) /\ k[n + 1] = k[n] + Adds(log[n + 1], r)
          /\ h[n] = k[n]
      BY <1>1, <1>2, <1>4, <2>1
    <3>2. Adds(log[n + 1], s) = Adds(log[n + 1], r)
      BY <2>1
    <3> QED BY <3>1, <3>2
  <2> QED BY <2>1
<1>5. Len(log) \in S
  <2> HIDE DEF S
  <2> QED BY <1>3, <1>4, Induction
<1> QED BY <1>1, <1>2, <1>5

\* Without fills before it nothing was held.
LEMMA HeldNothing ==
  ASSUME NEW log \in Seq(Event), NEW s, \A n \in 1..Len(log) : Adds(log[n], s) = 0
  PROVE  HeldBefore(log, s) = 0
<1>1. PICK h \in [0..Len(log) -> Int] :
         /\ HeldBefore(log, s) = h[Len(log)] /\ h[0] = 0
         /\ \A n \in 1..Len(log) : h[n] = h[n - 1] + Adds(log[n], s)
  BY HeldIs
<1> DEFINE S == {n \in Nat : n <= Len(log) => h[n] = 0}
<1>2. 0 \in S
  BY <1>1
<1>3. ASSUME NEW n \in Nat, n \in S PROVE n + 1 \in S
  <2>1. CASE n + 1 <= Len(log)
    <3>1. h[n + 1] = h[n] + Adds(log[n + 1], s) /\ h[n] = 0 /\ Adds(log[n + 1], s) = 0
      BY <1>1, <1>3, <2>1
    <3> QED BY <3>1
  <2> QED BY <2>1
<1>4. Len(log) \in S
  <2> HIDE DEF S
  <2> QED BY <1>2, <1>3, Induction
<1> QED BY <1>1, <1>4

------------------------------------------------------------------------------
(* The calendar, and the closes a run consumes.                             *)

\* A session is closed exactly when it is not after the latest closed one.
LEMMA ClosedIs ==
  ASSUME NEW t \in Nat
  PROVE  /\ LatestClosed(t) \in 0..LastSession
         /\ \A s \in Sessions : s <= LatestClosed(t) <=> Closes(s) <= t
<1>0. LastSession \in Nat
  BY PaperConstants
<1>1. CASE t < 7
  <2>1. Closed(t) = {}
    BY <1>0, <1>1 DEF Closed, Sessions, Closes
  <2>2. LatestClosed(t) = 0
    BY <2>1, FS_EmptySet DEF LatestClosed
  <2> QED BY <1>0, <1>1, <2>2 DEF Sessions, Closes
<1>2. CASE t >= 7
  <2> DEFINE k == (t - 3) \div 4
             m == IF k <= LastSession THEN k ELSE LastSession
  <2>1. k \in Nat /\ 4 * k <= t - 3 /\ t - 3 < 4 * k + 4
    BY <1>2
  <2> HIDE DEF k
  <2>2. m \in 0..LastSession /\ m \in Nat
    BY <1>0, <2>1
  <2>3. Closed(t) = 1..m
    BY <1>0, <2>1 DEF Closed, Sessions, Closes
  <2>4. LatestClosed(t) = m
    BY <2>2, <2>3, FS_Interval DEF LatestClosed
  <2> QED BY <1>0, <2>1, <2>2, <2>4 DEF Sessions, Closes
<1> QED BY <1>1, <1>2

\* The recursive function goes close by close.
LEMMA CaughtUpIs ==
  ASSUME NEW b, NEW bk, NEW panel \in Nat, NEW since, bars \in Nat
  PROVE  \E a : /\ CaughtUp(b, bk, panel, since) = a[panel]
                /\ \A s \in 0..panel :
                      a[s] = IF s <= bars THEN bk
                             ELSE IF Closes(s) > since THEN AtClose(b, a[s - 1], s)
                             ELSE a[s - 1]
<1> DEFINE Step(n, v) == IF Closes(n) > since THEN AtClose(b, v, n) ELSE v
           Good(k, g) == g = [n \in 0..k |-> IF n <= bars THEN bk ELSE Step(n, g[n - 1])]
           T == {k \in Nat : \E g : Good(k, g)}
           after == CHOOSE g : Good(panel, g)
<1>1. CaughtUp(b, bk, panel, since) = after[panel]
  <2> DEFINE Fun(g) == g = [n \in 0..panel |-> IF n <= bars THEN bk
                               ELSE IF Closes(n) > since THEN AtClose(b, g[n - 1], n)
                               ELSE g[n - 1]]
  <2>1. CaughtUp(b, bk, panel, since) = (CHOOSE g : Fun(g))[panel]
    BY DEF CaughtUp
  <2> QED BY <2>1
<1> HIDE DEF Step
<1>2. Good(panel, after)
  <2>1. 0 \in T
    <3>1. Good(0, [n \in 0..0 |-> bk])
      OBVIOUS
    <3> QED BY <3>1
  <2>2. ASSUME NEW k \in Nat, k \in T PROVE k + 1 \in T
    <3>1. PICK g : Good(k, g)
      BY <2>2
    <3> DEFINE h == [n \in 0..(k + 1) |-> IF n <= k THEN g[n]
                                          ELSE IF n <= bars THEN bk ELSE Step(n, g[n - 1])]
    <3>2. ASSUME NEW n \in 0..(k + 1)
          PROVE  h[n] = IF n <= bars THEN bk ELSE Step(n, h[n - 1])
      <4>1. CASE n <= bars
        BY <3>1, <4>1
      <4>2. CASE ~(n <= bars) /\ n <= k
        BY <3>1, <4>2
      <4>3. CASE ~(n <= bars) /\ n = k + 1
        BY <4>3
      <4> QED BY <4>1, <4>2, <4>3
    <3>3. Good(k + 1, h)
      BY <3>2
    <3> HIDE DEF h
    <3> QED BY <3>3
  <2>3. panel \in T
    <3> HIDE DEF T
    <3> QED BY <2>1, <2>2, Induction
  <2> QED BY <2>3
<1> HIDE DEF after
<1>3. \A s \in 0..panel : after[s] = IF s <= bars THEN bk ELSE Step(s, after[s - 1])
  BY <1>2
<1> QED BY <1>1, <1>3 DEF Step

------------------------------------------------------------------------------
(* What happens to a book, field by field.                                  *)

MarketOK == market \in [open : Prices, close : Prices, dividend : Prices]

\* A book is never worth less than nothing: no purchase is on credit.
LEMMA EquityType ==
  ASSUME NEW bk \in BookType
  PROVE  Equity(bk) \in Nat
<1>1. bk.cash \in Nat /\ bk.pos \in Nat /\ bk.mark \in Nat
  BY PaperConstants DEF BookType
<1>2. bk.pos * bk.mark \in Nat
  BY <1>1
<1> QED BY <1>1, <1>2 DEF Equity

\* An event changes the log alone.
LEMMA LoggedIs ==
  ASSUME NEW bk \in BookType, NEW e \in Event
  PROVE  /\ Logged(bk, e) \in BookType
         /\ Logged(bk, e).log = Append(bk.log, e)
         /\ Logged(bk, e).pos = bk.pos /\ Logged(bk, e).cash = bk.cash
         /\ Logged(bk, e).mark = bk.mark /\ Logged(bk, e).pending = bk.pending
         /\ Logged(bk, e).initial = bk.initial /\ Logged(bk, e).day = bk.day
         /\ Logged(bk, e).dayStart = bk.dayStart /\ Logged(bk, e).high = bk.high
         /\ Logged(bk, e).breached = bk.breached /\ Logged(bk, e).paused = bk.paused
         /\ Logged(bk, e).seen = bk.seen /\ Logged(bk, e).began = bk.began
         /\ Logged(bk, e).eased = bk.eased
<1>1. bk.log \in Seq(Event) /\ Append(bk.log, e) \in Seq(Event)
  BY DEF BookType
<1> QED BY <1>1 DEF Logged, BookType

\* Another day changes the day, its start and what it began with.
LEMMA OnDayIs ==
  ASSUME NEW bk \in BookType, NEW s \in Sessions
  PROVE  /\ OnDay(bk, s) \in BookType
         /\ OnDay(bk, s).day = s
         /\ OnDay(bk, s).dayStart = IF bk.day = s THEN bk.dayStart ELSE Equity(bk)
         /\ OnDay(bk, s).began = IF bk.day = s THEN bk.began ELSE Began(bk, s)
         /\ OnDay(bk, s).pos = bk.pos /\ OnDay(bk, s).cash = bk.cash
         /\ OnDay(bk, s).mark = bk.mark /\ OnDay(bk, s).pending = bk.pending
         /\ OnDay(bk, s).initial = bk.initial /\ OnDay(bk, s).high = bk.high
         /\ OnDay(bk, s).breached = bk.breached /\ OnDay(bk, s).paused = bk.paused
         /\ OnDay(bk, s).seen = bk.seen /\ OnDay(bk, s).log = bk.log
         /\ OnDay(bk, s).eased = bk.eased
<1>1. Equity(bk) \in Nat
  BY EquityType
<1>2. Began(bk, s) \in [Sessions -> Nat \cup {None}]
  BY <1>1 DEF Began, BookType
<1>3. CASE bk.day = s
  BY <1>3 DEF OnDay
<1>4. CASE bk.day # s
  <2> DEFINE e == Equity(bk)
             g == Began(bk, s)
  <2>1. OnDay(bk, s) = [bk EXCEPT !.day = s, !.dayStart = e, !.began = g]
    BY <1>4 DEF OnDay
  <2>2. e \in Nat /\ g \in [Sessions -> Nat \cup {None}]
    BY <1>1, <1>2
  <2> HIDE DEF e, g
  <2>3. [bk EXCEPT !.day = s, !.dayStart = e, !.began = g] \in BookType
    BY <2>2 DEF BookType
  <2>4. /\ OnDay(bk, s).day = s /\ OnDay(bk, s).dayStart = e /\ OnDay(bk, s).began = g
        /\ OnDay(bk, s).pos = bk.pos /\ OnDay(bk, s).cash = bk.cash
        /\ OnDay(bk, s).mark = bk.mark /\ OnDay(bk, s).pending = bk.pending
        /\ OnDay(bk, s).initial = bk.initial /\ OnDay(bk, s).high = bk.high
        /\ OnDay(bk, s).breached = bk.breached /\ OnDay(bk, s).paused = bk.paused
        /\ OnDay(bk, s).seen = bk.seen /\ OnDay(bk, s).log = bk.log
        /\ OnDay(bk, s).eased = bk.eased
    BY <2>1 DEF BookType
  <2> QED BY <1>4, <2>1, <2>3, <2>4 DEF e, g
<1> QED BY <1>3, <1>4

\* The actions of a session change the log, the cash and what was seen.
LEMMA DividendIs ==
  ASSUME NEW bk \in BookType, NEW s \in Sessions, MarketOK
  PROVE  /\ Dividend(bk, s) \in BookType
         /\ Dividend(bk, s).seen = bk.seen \cup {s}
         /\ IF s \notin bk.seen /\ bk.pos * market.dividend[s] # 0
            THEN /\ [kind |-> "dividend", session |-> s, qty |-> bk.pos] \in Event
                 /\ Dividend(bk, s).log
                      = Append(bk.log, [kind |-> "dividend", session |-> s, qty |-> bk.pos])
            ELSE Dividend(bk, s).log = bk.log
         /\ Dividend(bk, s).pos = bk.pos
         /\ Dividend(bk, s).mark = bk.mark /\ Dividend(bk, s).pending = bk.pending
         /\ Dividend(bk, s).initial = bk.initial /\ Dividend(bk, s).high = bk.high
         /\ Dividend(bk, s).day = bk.day /\ Dividend(bk, s).dayStart = bk.dayStart
         /\ Dividend(bk, s).breached = bk.breached /\ Dividend(bk, s).paused = bk.paused
         /\ Dividend(bk, s).began = bk.began /\ Dividend(bk, s).eased = bk.eased
<1> DEFINE credit == bk.pos * market.dividend[s]
           seen == [bk EXCEPT !.seen = @ \cup {s}]
           event == [kind |-> "dividend", session |-> s, qty |-> bk.pos]
<1>1. credit \in Nat
  <2>1. market.dividend[s] \in Nat /\ bk.pos \in Nat
    BY PaperConstants DEF MarketOK, Prices, BookType
  <2> QED BY <2>1
<1>2. event \in Event
  <2>1. bk.pos \in Int
    BY PaperConstants DEF BookType
  <2>2. event \in DividendEvent
    BY <2>1 DEF DividendEvent
  <2> QED BY <2>2 DEF Event
<1>3. /\ seen \in BookType /\ seen.seen = bk.seen \cup {s} /\ seen.cash = bk.cash
      /\ seen.pos = bk.pos /\ seen.log = bk.log
      /\ seen.mark = bk.mark /\ seen.pending = bk.pending
      /\ seen.initial = bk.initial /\ seen.high = bk.high
      /\ seen.day = bk.day /\ seen.dayStart = bk.dayStart
      /\ seen.breached = bk.breached /\ seen.paused = bk.paused
      /\ seen.began = bk.began /\ seen.eased = bk.eased
  BY DEF BookType
<1>4. Dividend(bk, s) = IF Unseen(bk, s) /\ credit # 0
                        THEN Logged([seen EXCEPT !.cash = @ + credit], event) ELSE seen
  BY DEF Dividend
<1> HIDE DEF seen, credit, event
<1> DEFINE paid == [seen EXCEPT !.cash = @ + credit]
<1>5. /\ paid \in BookType /\ paid.seen = bk.seen \cup {s}
      /\ paid.pos = bk.pos /\ paid.log = bk.log
      /\ paid.mark = bk.mark /\ paid.pending = bk.pending
      /\ paid.initial = bk.initial /\ paid.high = bk.high
      /\ paid.day = bk.day /\ paid.dayStart = bk.dayStart
      /\ paid.breached = bk.breached /\ paid.paused = bk.paused
      /\ paid.began = bk.began /\ paid.eased = bk.eased
  BY <1>1, <1>3 DEF BookType
<1> HIDE DEF paid
<1>6. CASE Unseen(bk, s) /\ credit # 0
  <2>1. Dividend(bk, s) = Logged(paid, event)
    BY <1>4, <1>6 DEF paid
  <2>2. s \notin bk.seen /\ bk.pos * market.dividend[s] # 0
    BY <1>6 DEF Unseen, credit
  <2>3. event = [kind |-> "dividend", session |-> s, qty |-> bk.pos]
    BY DEF event
  <2> QED BY <1>2, <1>5, <2>1, <2>2, <2>3, LoggedIs
<1>7. CASE ~(Unseen(bk, s) /\ credit # 0)
  <2>1. Dividend(bk, s) = seen
    BY <1>4, <1>7
  <2>2. ~(s \notin bk.seen /\ bk.pos * market.dividend[s] # 0)
    BY <1>7 DEF Unseen, credit
  <2> QED BY <1>3, <2>1, <2>2
<1> QED BY <1>6, <1>7

\* After _risk a book is paused at either limit, measured from its high and its day's start.
LEMMA RiskIs ==
  ASSUME NEW bk \in BookType, NEW price \in Nat
  PROVE  /\ Risk(bk, price) \in BookType
         /\ LimitsOK(Risk(bk, price))
         /\ bk.paused => Risk(bk, price).paused
         /\ Risk(bk, price).eased = FALSE
         /\ Risk(bk, price).pos = bk.pos /\ Risk(bk, price).cash = bk.cash
         /\ Risk(bk, price).pending = bk.pending /\ Risk(bk, price).initial = bk.initial
         /\ Risk(bk, price).day = bk.day /\ Risk(bk, price).dayStart = bk.dayStart
         /\ Risk(bk, price).seen = bk.seen /\ Risk(bk, price).log = bk.log
         /\ Risk(bk, price).began = bk.began
<1> DEFINE valued == [bk EXCEPT !.mark = price]
           high == IF Equity(valued) > bk.high THEN Equity(valued) ELSE bk.high
           breach == Fell(high, Equity(valued), MaxDrawdown)
           pause == bk.paused \/ Limits(valued, high)
           r == Risk(bk, price)
<1>1. /\ valued \in BookType /\ valued.pos = bk.pos /\ valued.cash = bk.cash
      /\ valued.pending = bk.pending /\ valued.initial = bk.initial
      /\ valued.day = bk.day /\ valued.dayStart = bk.dayStart
      /\ valued.seen = bk.seen /\ valued.log = bk.log /\ valued.began = bk.began
      /\ valued.paused = bk.paused /\ valued.mark = price
  BY DEF BookType
<1>2. r = [valued EXCEPT !.high = high, !.eased = FALSE, !.breached = breach, !.paused = pause]
  <2>1. r = [valued EXCEPT !.high = high, !.eased = FALSE, !.breached = breach,
                           !.paused = valued.paused \/ Limits(valued, high)]
    BY Zenon DEF Risk
  <2>2. valued.paused = bk.paused
    BY <1>1
  <2> QED BY <2>1, <2>2, Zenon
<1>3. high \in Nat
  BY <1>1, EquityType DEF BookType
<1>4. breach \in BOOLEAN
  BY DEF Fell
<1>5. pause \in BOOLEAN
  BY <1>1 DEF Limits, Fell, BookType
<1>6. breach => pause
  BY Zenon DEF Limits
<1>7. Fell(valued.dayStart, Equity(valued), MaxDailyLoss) => pause
  BY Zenon DEF Limits
<1>8. bk.paused => pause
  BY Zenon
<1> DEFINE e == Equity(valued)
<1>9. e \in Nat /\ e = valued.cash + valued.pos * valued.mark
  BY <1>1, EquityType DEF Equity
<1>10. breach = Fell(high, e, MaxDrawdown)
  BY Zenon
<1>11. Fell(valued.dayStart, e, MaxDailyLoss) => pause
  BY <1>7
<1> HIDE DEF valued, high, breach, pause, r, e
<1>12. r \in BookType
  BY <1>1, <1>2, <1>3, <1>4, <1>5 DEF BookType
<1>13. /\ r.high = high /\ r.eased = FALSE /\ r.breached = breach /\ r.paused = pause
       /\ r.pos = valued.pos /\ r.cash = valued.cash /\ r.pending = valued.pending
       /\ r.initial = valued.initial /\ r.day = valued.day /\ r.dayStart = valued.dayStart
       /\ r.seen = valued.seen /\ r.log = valued.log /\ r.began = valued.began
       /\ r.mark = valued.mark
  BY <1>1, <1>2 DEF BookType
<1>14. Equity(r) = e
  BY <1>9, <1>13 DEF Equity
<1>15. LimitsOK(r)
  <2>1. r.breached = Fell(r.high, Equity(r), MaxDrawdown)
    BY <1>10, <1>13, <1>14, Zenon
  <2>2. r.breached => r.paused
    BY <1>6, <1>13, Zenon
  <2>3. Fell(r.dayStart, Equity(r), MaxDailyLoss) => r.paused
    BY <1>11, <1>13, <1>14, Zenon
  <2> QED BY <2>1, <2>2, <2>3, Zenon DEF LimitsOK
<1>16. bk.paused => r.paused
  BY <1>8, <1>13, Zenon
<1> QED BY <1>1, <1>12, <1>13, <1>15, <1>16 DEF r

------------------------------------------------------------------------------
(* What a valuation keeps.                                                  *)

\* A log and the log that another event, not a fill, was added to hold the same units.
LEMMA QuietHeld ==
  ASSUME NEW log \in Seq(Event), NEW e \in Event, ~IsFill(e)
  PROVE  \A s : HeldBefore(Append(log, e), s) = HeldBefore(log, s)
<1>1. ASSUME NEW s PROVE HeldBefore(Append(log, e), s) = HeldBefore(log, s)
  <2>1. Adds(e, s) = 0
    BY DEF Adds, IsFill
  <2>2. HeldBefore(log, s) \in Int
    BY HeldType
  <2> QED BY <2>1, <2>2, HeldAppend
<1> QED BY <1>1

\* A book that lost its decision at most, and got at most a new event that is no fill.
Quieter(new, bk) ==
    /\ new.pending \in {bk.pending, None} /\ bk.seen \subseteq new.seen
    /\ new.log = bk.log \/ \E e \in Event : ~IsFill(e) /\ new.log = Append(bk.log, e)

\* Fills and decision stay right in a quieter book.
LEMMA OrdersKept ==
  ASSUME NEW bk \in BookType, NEW new \in BookType, Quieter(new, bk),
         NEW reg, NEW n, NEW t, NEW res, OrdersOK(bk, reg, n, t, res)
  PROVE  OrdersOK(new, reg, n, t, res)
<1> DEFINE N == Len(bk.log)
<1>1. bk.log \in Seq(Event) /\ N \in Nat
  BY DEF BookType
<1>2. ASSUME NEW i \in DOMAIN new.log, IsFill(new.log[i])
      PROVE  i \in DOMAIN bk.log /\ new.log[i] = bk.log[i]
  <2>1. CASE new.log = bk.log
    BY <1>2, <2>1
  <2>2. ASSUME NEW e \in Event, ~IsFill(e), new.log = Append(bk.log, e)
        PROVE  i \in DOMAIN bk.log /\ new.log[i] = bk.log[i]
    <3>1. new.log[N + 1] = e /\ DOMAIN new.log = 1..(N + 1) /\ DOMAIN bk.log = 1..N
      BY <1>1, <2>2
    <3>2. i # N + 1
      BY <1>2, <2>2, <3>1
    <3> QED BY <1>1, <2>2, <3>1, <3>2
  <2> QED BY <2>1, <2>2 DEF Quieter
<1>3. new.pending = bk.pending \/ new.pending = None
  BY DEF Quieter
<1>4. new.pending # None => DecisionOK(new.pending, reg, n, t, res)
  BY <1>3 DEF OrdersOK
<1>5. ASSUME NEW i \in DOMAIN new.log, IsFill(new.log[i])
      PROVE  /\ FillOK(new.log[i], reg) /\ new.log[i].at <= t /\ new.log[i].session \in new.seen
             /\ new.log[i].decision.session <= n
             /\ new.pending # None => new.log[i].decision.session < new.pending.session
  <2>1. i \in DOMAIN bk.log /\ new.log[i] = bk.log[i]
    BY <1>2, <1>5
  <2>2. IsFill(bk.log[i])
    BY <1>5, <2>1
  <2> QED BY <1>3, <2>1, <2>2 DEF OrdersOK, Quieter
<1>6. ASSUME NEW i \in DOMAIN new.log, NEW j \in DOMAIN new.log,
             IsFill(new.log[i]), IsFill(new.log[j]), new.log[i].session = new.log[j].session
      PROVE  i = j
  <2>1. i \in DOMAIN bk.log /\ new.log[i] = bk.log[i] /\ j \in DOMAIN bk.log /\ new.log[j] = bk.log[j]
    BY <1>2, <1>6
  <2> QED BY <1>6, <2>1 DEF OrdersOK
<1> QED BY <1>4, <1>5, <1>6 DEF OrdersOK

\* A quieter book holds the same units.
LEMMA UnitsKept ==
  ASSUME NEW bk \in BookType, NEW new \in BookType, Quieter(new, bk), new.pos = bk.pos, UnitsOK(bk)
  PROVE  UnitsOK(new)
<1>1. CASE new.log = bk.log
  BY <1>1 DEF UnitsOK
<1>2. ASSUME NEW e \in Event, ~IsFill(e), new.log = Append(bk.log, e) PROVE UnitsOK(new)
  <2>1. bk.log \in Seq(Event)
    BY DEF BookType
  <2>2. HeldBefore(new.log, LastSession + 1) = HeldBefore(bk.log, LastSession + 1)
    BY <1>2, <2>1, QuietHeld
  <2> QED BY <2>2 DEF UnitsOK
<1> QED BY <1>1, <1>2 DEF Quieter

\* What is credited stays credited when an event is logged that is neither fill nor dividend.
LEMMA CreditsKept ==
  ASSUME NEW bk \in BookType, NEW new \in BookType, new.seen = bk.seen, NEW div,
         new.log = bk.log \/ \E e \in Event : ~IsFill(e) /\ ~IsDividend(e) /\ new.log = Append(bk.log, e),
         CreditsOK(bk, div)
  PROVE  CreditsOK(new, div)
<1>1. CASE new.log = bk.log
  BY <1>1 DEF CreditsOK
<1>2. ASSUME NEW e \in Event, ~IsFill(e), ~IsDividend(e), new.log = Append(bk.log, e)
      PROVE  CreditsOK(new, div)
  <2> DEFINE N == Len(bk.log)
  <2>1. bk.log \in Seq(Event) /\ N \in Nat
    BY DEF BookType
  <2>2. \A s : HeldBefore(new.log, s) = HeldBefore(bk.log, s)
    BY <1>2, <2>1, QuietHeld
  <2>3. new.log[N + 1] = e /\ DOMAIN new.log = 1..(N + 1) /\ DOMAIN bk.log = 1..N
        /\ \A i \in 1..N : new.log[i] = bk.log[i]
    BY <1>2, <2>1
  <2>4. ASSUME NEW i \in DOMAIN new.log, IsDividend(new.log[i])
        PROVE  i \in DOMAIN bk.log /\ new.log[i] = bk.log[i]
    <3>1. i # N + 1
      BY <1>2, <2>3, <2>4
    <3> QED BY <2>1, <2>3, <3>1
  <2>5. ASSUME NEW i \in DOMAIN new.log, IsDividend(new.log[i])
        PROVE  /\ new.log[i].session \in new.seen
               /\ new.log[i].qty = HeldBefore(new.log, new.log[i].session)
    BY <2>2, <2>4, <2>5 DEF CreditsOK
  <2>6. ASSUME NEW i \in DOMAIN new.log, NEW j \in DOMAIN new.log,
               IsDividend(new.log[i]), IsDividend(new.log[j]),
               new.log[i].session = new.log[j].session
        PROVE  i = j
    BY <2>4, <2>6 DEF CreditsOK
  <2>7. ASSUME NEW s \in new.seen, HeldBefore(new.log, s) * div[s] # 0
        PROVE  \E i \in DOMAIN new.log : IsDividend(new.log[i]) /\ new.log[i].session = s
    <3>1. PICK i \in DOMAIN bk.log : IsDividend(bk.log[i]) /\ bk.log[i].session = s
      BY <2>2, <2>7 DEF CreditsOK
    <3>2. i \in DOMAIN new.log /\ new.log[i] = bk.log[i]
      BY <2>1, <2>3
    <3> QED BY <3>1, <3>2
  <2> QED BY <2>5, <2>6, <2>7 DEF CreditsOK
<1> QED BY <1>1, <1>2

\* What OnDay, the actions and _risk make of a book together, at an opening or a close.
Visited(bk, s, price) == Risk(Dividend(OnDay(bk, s), s), price)

IsVisited(v, bk, s) ==
    LET dividend == [kind |-> "dividend", session |-> s, qty |-> bk.pos] IN
    /\ v \in BookType /\ LimitsOK(v)
    /\ (bk.paused => v.paused) /\ v.eased = FALSE
    /\ v.pos = bk.pos /\ v.pending = bk.pending /\ v.initial = bk.initial
    /\ v.day = s /\ v.dayStart = (IF bk.day = s THEN bk.dayStart ELSE Equity(bk))
    /\ v.began = (IF bk.day = s THEN bk.began ELSE Began(bk, s))
    /\ v.seen = bk.seen \cup {s}
    /\ IF s \notin bk.seen /\ bk.pos * market.dividend[s] # 0
       THEN dividend \in Event /\ v.log = Append(bk.log, dividend)
       ELSE v.log = bk.log

\* A visit field by field.
LEMMA VisitedIs ==
  ASSUME NEW bk \in BookType, NEW s \in Sessions, NEW price \in Nat, MarketOK
  PROVE  IsVisited(Visited(bk, s, price), bk, s)
<1> DEFINE o == OnDay(bk, s)
           d == Dividend(o, s)
           v == Visited(bk, s, price)
           credited == s \notin bk.seen /\ bk.pos * market.dividend[s] # 0
           event == [kind |-> "dividend", session |-> s, qty |-> bk.pos]
           start == IF bk.day = s THEN bk.dayStart ELSE Equity(bk)
           began == IF bk.day = s THEN bk.began ELSE Began(bk, s)
<1>1. /\ o \in BookType /\ o.day = s /\ o.dayStart = start /\ o.began = began /\ o.pos = bk.pos
      /\ o.pending = bk.pending /\ o.initial = bk.initial /\ o.seen = bk.seen /\ o.log = bk.log
      /\ o.paused = bk.paused
  BY OnDayIs
<1> HIDE DEF o, start, began
<1>2. /\ d \in BookType /\ d.day = o.day /\ d.dayStart = o.dayStart /\ d.began = o.began
      /\ d.pos = o.pos /\ d.pending = o.pending /\ d.initial = o.initial
      /\ d.seen = o.seen \cup {s} /\ d.paused = o.paused
  BY <1>1, DividendIs
<1>3. IF s \notin o.seen /\ o.pos * market.dividend[s] # 0
      THEN /\ [kind |-> "dividend", session |-> s, qty |-> o.pos] \in Event
           /\ d.log = Append(o.log, [kind |-> "dividend", session |-> s, qty |-> o.pos])
      ELSE d.log = o.log
  BY <1>1, DividendIs
<1>4. IF credited THEN event \in Event /\ d.log = Append(bk.log, event) ELSE d.log = bk.log
  BY <1>1, <1>3
<1> HIDE DEF d, credited, event
<1>5. v = Risk(d, price)
  BY DEF Visited, d, o
<1>6. /\ v \in BookType /\ LimitsOK(v) /\ (d.paused => v.paused) /\ v.eased = FALSE
      /\ v.pos = d.pos /\ v.pending = d.pending /\ v.initial = d.initial /\ v.day = d.day
      /\ v.dayStart = d.dayStart /\ v.seen = d.seen /\ v.log = d.log /\ v.began = d.began
  <2>1. /\ Risk(d, price) \in BookType
        /\ LimitsOK(Risk(d, price))
        /\ d.paused => Risk(d, price).paused
        /\ Risk(d, price).eased = FALSE
        /\ Risk(d, price).pos = d.pos /\ Risk(d, price).cash = d.cash
        /\ Risk(d, price).pending = d.pending /\ Risk(d, price).initial = d.initial
        /\ Risk(d, price).day = d.day /\ Risk(d, price).dayStart = d.dayStart
        /\ Risk(d, price).seen = d.seen /\ Risk(d, price).log = d.log
        /\ Risk(d, price).began = d.began
    BY <1>2, RiskIs
  <2> QED BY <1>5, <2>1, Zenon
<1> HIDE DEF v
<1>7. /\ v \in BookType /\ LimitsOK(v) /\ (bk.paused => v.paused) /\ v.eased = FALSE
      /\ v.pos = bk.pos /\ v.pending = bk.pending /\ v.initial = bk.initial /\ v.day = s
      /\ v.dayStart = start /\ v.seen = bk.seen \cup {s} /\ v.began = began
  BY <1>1, <1>2, <1>6
<1>8. IF credited THEN event \in Event /\ v.log = Append(bk.log, event) ELSE v.log = bk.log
  BY <1>4, <1>6
<1> QED BY <1>7, <1>8, Zenon DEF IsVisited, v, credited, event, start, began

\* A session that was not looked at is later than every fill: the units held are those from
\* before it.
LEMMA VisitedCredits ==
  ASSUME NEW bk \in BookType, NEW s \in Sessions, NEW price \in Nat, MarketOK,
         UnitsOK(bk), CreditsOK(bk, market.dividend),
         \A i \in DOMAIN bk.log : IsFill(bk.log[i]) =>
            bk.log[i].session <= s /\ bk.log[i].session \in bk.seen
  PROVE  CreditsOK(Visited(bk, s, price), market.dividend)
<1> DEFINE v == Visited(bk, s, price)
           e == [kind |-> "dividend", session |-> s, qty |-> bk.pos]
           N == Len(bk.log)
           due == bk.pos * market.dividend[s]
<1>1. /\ v \in BookType /\ v.seen = bk.seen \cup {s}
      /\ IF s \notin bk.seen /\ due # 0 THEN e \in Event /\ v.log = Append(bk.log, e)
         ELSE v.log = bk.log
  <2>1. IsVisited(v, bk, s)
    BY VisitedIs
  <2> QED BY <2>1 DEF IsVisited
<1> HIDE DEF v
<1>2. bk.log \in Seq(Event) /\ N \in Nat /\ DOMAIN bk.log = 1..N
  BY DEF BookType
<1>3. ~IsFill(e) /\ IsDividend(e) /\ e.session = s /\ e.qty = bk.pos
  BY DEF IsFill, IsDividend
<1> HIDE DEF e
<1>4. CASE s \in bk.seen
  <2>1. v.seen = bk.seen /\ v.log = bk.log
    BY <1>1, <1>4
  <2> QED BY <1>1, <2>1, CreditsKept DEF v
<1>5. CASE s \notin bk.seen
  <2>1. bk.pos = HeldBefore(bk.log, s)
    <3>1. ASSUME NEW i \in 1..N PROVE Adds(bk.log[i], s) = Adds(bk.log[i], LastSession + 1)
      <4>1. CASE IsFill(bk.log[i])
        <5>1. bk.log[i].session <= s /\ bk.log[i].session \in bk.seen
              /\ bk.log[i].session # s
          BY <1>2, <1>5, <4>1
        <5>2. bk.log[i].session \in Sessions /\ s \in Sessions
          BY <5>1 DEF BookType
        <5>3. bk.log[i].session < s /\ bk.log[i].session < LastSession + 1
          BY <5>1, <5>2, PaperConstants DEF Sessions
        <5> QED BY <5>3 DEF Adds
      <4>2. CASE ~IsFill(bk.log[i])
        BY <4>2 DEF Adds, IsFill
      <4> QED BY <4>1, <4>2
    <3>2. HeldBefore(bk.log, s) = HeldBefore(bk.log, LastSession + 1)
      BY <1>2, <3>1, HeldSame
    <3> QED BY <3>2 DEF UnitsOK
  <2>2. CASE due # 0
    <3>1. e \in Event /\ v.log = Append(bk.log, e)
      BY <1>1, <1>5, <2>2
    <3>2. \A x : HeldBefore(v.log, x) = HeldBefore(bk.log, x)
      BY <1>2, <1>3, <3>1, QuietHeld
    <3>3. v.log[N + 1] = e /\ DOMAIN v.log = 1..(N + 1)
          /\ \A i \in 1..N : v.log[i] = bk.log[i]
      BY <1>2, <3>1
    <3>4. ASSUME NEW i \in DOMAIN v.log, IsDividend(v.log[i])
          PROVE  /\ v.log[i].session \in v.seen
                 /\ v.log[i].qty = HeldBefore(v.log, v.log[i].session)
                 /\ i \in 1..N => v.log[i].session # s
      <4>1. CASE i = N + 1
        <5>1. v.log[i] = e /\ i \notin 1..N
          BY <1>2, <3>3, <4>1
        <5> QED BY <1>1, <1>3, <2>1, <3>2, <5>1
      <4>2. CASE i # N + 1
        <5>1. i \in 1..N /\ v.log[i] = bk.log[i]
          BY <1>2, <3>3, <4>2
        <5>2. bk.log[i].session \in bk.seen
              /\ bk.log[i].qty = HeldBefore(bk.log, bk.log[i].session)
          BY <1>2, <3>4, <5>1 DEF CreditsOK
        <5> QED BY <1>1, <1>5, <3>2, <5>1, <5>2
      <4> QED BY <4>1, <4>2
    <3>5. ASSUME NEW i \in DOMAIN v.log, NEW j \in DOMAIN v.log,
                 IsDividend(v.log[i]), IsDividend(v.log[j]), v.log[i].session = v.log[j].session
          PROVE  i = j
      <4>1. CASE i \in 1..N /\ j \in 1..N
        BY <1>2, <3>3, <3>5, <4>1 DEF CreditsOK
      <4>2. CASE i \in 1..N /\ j = N + 1
        <5>1. v.log[j].session = s /\ v.log[i].session # s
          BY <1>3, <3>3, <3>4, <3>5, <4>2
        <5> QED BY <3>5, <5>1
      <4>3. CASE i = N + 1 /\ j \in 1..N
        <5>1. v.log[i].session = s /\ v.log[j].session # s
          BY <1>3, <3>3, <3>4, <3>5, <4>3
        <5> QED BY <3>5, <5>1
      <4> QED BY <1>2, <3>3, <4>1, <4>2, <4>3
    <3>6. ASSUME NEW x \in v.seen, HeldBefore(v.log, x) * market.dividend[x] # 0
          PROVE  \E i \in DOMAIN v.log : IsDividend(v.log[i]) /\ v.log[i].session = x
      <4>1. CASE x = s
        <5>1. N + 1 \in DOMAIN v.log
          BY <1>2, <3>3
        <5> QED BY <1>3, <3>3, <4>1, <5>1
      <4>2. CASE x # s
        <5>1. x \in bk.seen /\ HeldBefore(bk.log, x) * market.dividend[x] # 0
          BY <1>1, <3>2, <3>6, <4>2
        <5>2. PICK i \in DOMAIN bk.log : IsDividend(bk.log[i]) /\ bk.log[i].session = x
          BY <5>1 DEF CreditsOK
        <5>3. i \in DOMAIN v.log /\ v.log[i] = bk.log[i]
          BY <1>2, <3>3
        <5> QED BY <5>2, <5>3
      <4> QED BY <4>1, <4>2
    <3> QED BY <3>4, <3>5, <3>6 DEF CreditsOK, v
  <2>3. CASE due = 0
    <3>1. v.log = bk.log
      BY <1>1, <2>3
    <3>2. HeldBefore(v.log, s) * market.dividend[s] = 0
      BY <2>1, <2>3, <3>1
    <3>3. ASSUME NEW x \in v.seen, HeldBefore(v.log, x) * market.dividend[x] # 0
          PROVE  \E i \in DOMAIN v.log : IsDividend(v.log[i]) /\ v.log[i].session = x
      <4>1. x # s
        BY <3>2, <3>3
      <4>2. x \in bk.seen
        BY <1>1, <4>1
      <4> QED BY <3>1, <3>3, <4>2 DEF CreditsOK
    <3>4. \A i \in DOMAIN v.log : IsDividend(v.log[i]) =>
             /\ v.log[i].session \in v.seen
             /\ v.log[i].qty = HeldBefore(v.log, v.log[i].session)
      BY <1>1, <3>1 DEF CreditsOK
    <3>5. \A i, j \in DOMAIN v.log :
             IsDividend(v.log[i]) /\ IsDividend(v.log[j]) /\ v.log[i].session = v.log[j].session
                => i = j
      BY <3>1 DEF CreditsOK
    <3> QED BY <3>3, <3>4, <3>5 DEF CreditsOK, v
  <2> QED BY <2>2, <2>3
<1> QED BY <1>4, <1>5

\* A visit keeps orders, units and dividends.
LEMMA VisitedKeeps ==
  ASSUME NEW bk \in BookType, NEW s \in Sessions, NEW price \in Nat, MarketOK,
         NEW reg, NEW n, NEW t, NEW res,
         OrdersOK(bk, reg, n, t, res), UnitsOK(bk), CreditsOK(bk, market.dividend),
         \A i \in DOMAIN bk.log : IsFill(bk.log[i]) => bk.log[i].session <= s
  PROVE  /\ OrdersOK(Visited(bk, s, price), reg, n, t, res)
         /\ UnitsOK(Visited(bk, s, price))
         /\ CreditsOK(Visited(bk, s, price), market.dividend)
<1> DEFINE v == Visited(bk, s, price)
           e == [kind |-> "dividend", session |-> s, qty |-> bk.pos]
           credited == s \notin bk.seen /\ bk.pos * market.dividend[s] # 0
<1>1. /\ v \in BookType /\ v.seen = bk.seen \cup {s} /\ v.pending = bk.pending /\ v.pos = bk.pos
      /\ IF credited THEN e \in Event /\ v.log = Append(bk.log, e) ELSE v.log = bk.log
  <2>1. IsVisited(v, bk, s)
    BY VisitedIs
  <2> QED BY <2>1 DEF IsVisited
<1>2. ~IsFill(e)
  BY DEF IsFill
<1> HIDE DEF v, e, credited
<1>3. Quieter(v, bk)
  BY <1>1, <1>2 DEF Quieter
<1>4. OrdersOK(v, reg, n, t, res) /\ UnitsOK(v)
  BY <1>1, <1>3, OrdersKept, UnitsKept
<1>5. \A i \in DOMAIN bk.log : IsFill(bk.log[i]) =>
         bk.log[i].session <= s /\ bk.log[i].session \in bk.seen
  BY DEF OrdersOK
<1>6. CreditsOK(v, market.dividend)
  BY <1>5, VisitedCredits DEF v
<1> QED BY <1>4, <1>6 DEF v

\* The day goes on or a later one begins.
LEMMA VisitedDays ==
  ASSUME NEW bk \in BookType, NEW s \in Sessions, NEW price \in Nat, MarketOK,
         NEW n, NEW m \in Nat, DaysOK(bk, n), s <= m + 1, bk.day = None \/ bk.day <= s
  PROVE  DaysOK(Visited(bk, s, price), m)
<1> DEFINE v == Visited(bk, s, price)
<1>1. /\ v \in BookType /\ v.day = s
      /\ v.dayStart = IF bk.day = s THEN bk.dayStart ELSE Equity(bk)
      /\ v.began = IF bk.day = s THEN bk.began ELSE Began(bk, s)
  <2>1. IsVisited(v, bk, s)
    BY VisitedIs
  <2> QED BY <2>1 DEF IsVisited
<1> HIDE DEF v
<1>2. s \in Int /\ s # None /\ \A x \in Sessions : x \in Int
  BY PaperConstants DEF Sessions
<1>3. CASE bk.day = s
  BY <1>1, <1>2, <1>3 DEF DaysOK, v
<1>4. CASE bk.day # s
  <2>1. \A x \in Sessions : x >= s => bk.began[x] = None
    <3>1. CASE bk.day = None
      BY <3>1 DEF DaysOK
    <3>2. CASE bk.day # None
      <4>1. bk.day \in Sessions /\ bk.day < s
        BY <1>2, <1>4, <3>2 DEF BookType
      <4>2. ASSUME NEW x \in Sessions, x >= s PROVE bk.began[x] = None
        <5>1. x \in Int /\ s \in Int /\ bk.day \in Int
          BY <1>2, <4>1
        <5>2. x > bk.day
          BY <4>1, <4>2, <5>1
        <5> QED BY <3>2, <5>2 DEF DaysOK
      <4> QED BY <4>2
    <3> QED BY <3>1, <3>2
  <2>2. v.dayStart = Equity(bk) /\ v.began = Began(bk, s)
    BY <1>1, <1>4
  <2>3. bk.began \in [Sessions -> Nat \cup {None}]
    BY DEF BookType
  <2>4. Began(bk, s)[s] = Equity(bk)
    BY <1>2, <2>1, <2>3 DEF Began
  <2>5. \A x \in Sessions : x > s => Began(bk, s)[x] = None
    BY <1>2, <2>1, <2>3 DEF Began
  <2> QED BY <1>1, <1>2, <2>2, <2>4, <2>5 DEF DaysOK, v
<1> QED BY <1>3, <1>4

------------------------------------------------------------------------------
(* The steps of a run keep a book.                                          *)

\* More closes consumed, and a later clock.
LEMMA LaterOrders ==
  ASSUME NEW bk \in BookType, NEW reg, NEW n \in Nat, NEW m \in Nat, NEW t \in Nat, NEW u \in Nat,
         NEW res, n <= m, t <= u, OrdersOK(bk, reg, n, t, res)
  PROVE  OrdersOK(bk, reg, m, u, res)
<1>0. \A s \in Sessions : s \in Int
  BY DEF Sessions
<1>1. bk.pending # None => DecisionOK(bk.pending, reg, m, u, res)
  <2>1. ASSUME bk.pending # None PROVE DecisionOK(bk.pending, reg, m, u, res)
    <3>1. bk.pending \in Decision /\ DecisionOK(bk.pending, reg, n, t, res)
      BY <2>1 DEF OrdersOK, BookType
    <3>2. bk.pending.session \in Int /\ bk.pending.at \in Int
      BY <1>0, <3>1 DEF Decision
    <3> QED BY <3>1, <3>2 DEF DecisionOK
  <2> QED BY <2>1
<1>2. ASSUME NEW i \in DOMAIN bk.log, IsFill(bk.log[i])
      PROVE  bk.log[i].at <= u /\ bk.log[i].decision.session <= m
  <2>1. bk.log[i] \in Event
    BY <1>2 DEF BookType
  <2>2. bk.log[i] \in FillEvent
    BY <1>2, <2>1 DEF Event, DividendEvent, MissedEvent, IsFill
  <2>3. bk.log[i].at \in Int /\ bk.log[i].decision.session \in Int
    BY <1>0, <2>2 DEF FillEvent, Decision
  <2>4. bk.log[i].at <= t /\ bk.log[i].decision.session <= n
    BY <1>2 DEF OrdersOK
  <2> QED BY <2>3, <2>4
<1> QED BY <1>1, <1>2 DEF OrdersOK

\* Where a fill lies.
LEMMA FillIs ==
  ASSUME NEW bk \in BookType, NEW i \in DOMAIN bk.log, IsFill(bk.log[i])
  PROVE  /\ bk.log[i] \in FillEvent
         /\ bk.log[i].session \in Sessions /\ bk.log[i].session \in Int
         /\ bk.log[i].decision.session \in Sessions /\ bk.log[i].decision.session \in Int
         /\ bk.log[i].at \in Nat
<1>1. bk.log[i] \in Event
  BY DEF BookType
<1>2. bk.log[i] \in FillEvent
  BY <1>1 DEF Event, DividendEvent, MissedEvent, IsFill
<1>3. bk.log[i].session \in Sessions /\ bk.log[i].at \in Nat /\ bk.log[i].decision \in Decision
  BY <1>2 DEF FillEvent
<1>4. bk.log[i].decision.session \in Sessions
  BY <1>3 DEF Decision
<1> QED BY <1>2, <1>3, <1>4 DEF Sessions

\* A close from before the registration is only observed.
LEMMA ObservedKeeps ==
  ASSUME NEW bk, NEW reg \in Nat, NEW n \in Nat, NEW t \in Nat, NEW res, NEW div,
         BookOK(bk, reg, n, t, res, div), Closes(n + 1) <= reg
  PROVE  BookOK(bk, reg, n + 1, t, res, div)
<1>1. bk \in BookType
  BY DEF BookOK
<1>2. OrdersOK(bk, reg, n + 1, t, res)
  BY <1>1, LaterOrders DEF BookOK
<1>3. SeenOK(bk, reg, n + 1, t)
  <2>1. ASSUME NEW s \in Sessions, s <= n + 1, Closes(s) > reg PROVE s \in bk.seen
    <3>1. s \in Int /\ s # n + 1
      BY <2>1 DEF Sessions, Closes
    <3>2. s <= n
      BY <2>1, <3>1
    <3> QED BY <2>1, <3>2 DEF BookOK, SeenOK
  <2> QED BY <2>1 DEF BookOK, SeenOK
<1>4. ~Late => DaysOK(bk, n + 1)
  <2>1. ASSUME ~Late PROVE DaysOK(bk, n + 1)
    <3>1. DaysOK(bk, n)
      BY <2>1 DEF BookOK
    <3>2. bk.day # None => bk.day \in Int
      BY <1>1 DEF BookType, Sessions
    <3> QED BY <3>1, <3>2 DEF DaysOK
  <2> QED BY <2>1
<1> QED BY <1>2, <1>3, <1>4 DEF BookOK

\* What does not depend on the pending decision.
LEMMA SameBook ==
  ASSUME NEW bk \in BookType, NEW new \in BookType, NEW reg, NEW n, NEW t, NEW div,
         new.log = bk.log, new.seen = bk.seen, new.pos = bk.pos, new.day = bk.day,
         new.dayStart = bk.dayStart, new.began = bk.began, new.cash = bk.cash,
         new.mark = bk.mark, new.high = bk.high, new.breached = bk.breached,
         new.paused = bk.paused, new.eased = bk.eased,
         UnitsOK(bk), SeenOK(bk, reg, n, t), CreditsOK(bk, div), LimitsOK(bk),
         ~Late => DaysOK(bk, n)
  PROVE  /\ UnitsOK(new) /\ SeenOK(new, reg, n, t) /\ CreditsOK(new, div) /\ LimitsOK(new)
         /\ ~Late => DaysOK(new, n)
<1>1. UnitsOK(new)
  BY DEF UnitsOK
<1>2. SeenOK(new, reg, n, t)
  BY DEF SeenOK
<1>3. CreditsOK(new, div)
  BY CreditsKept
<1>4. LimitsOK(new)
  <2>1. Equity(new) = Equity(bk)
    BY DEF Equity
  <2> QED BY <2>1, Zenon DEF LimitsOK
<1>5. ~Late => DaysOK(new, n)
  BY DEF DaysOK
<1> QED BY <1>1, <1>2, <1>3, <1>4, <1>5

\* A close values the book, pays its dividend and may decide.
LEMMA AtCloseKeeps ==
  ASSUME NEW b \in Books, NEW bk, NEW reg \in Nat, NEW n \in Nat, n + 1 \in Sessions, MarketOK,
         now \in Nat, resumes \in Nat, BookOK(bk, reg, n, now, resumes, market.dividend),
         Closes(n + 1) > reg, Closes(n + 1) <= now
  PROVE  BookOK(AtClose(b, bk, n + 1), reg, n + 1, now, resumes, market.dividend)
<1> DEFINE s == n + 1
           v == Visited(bk, s, market.close[s])
           d == [session |-> s, at |-> now, resumes |-> resumes]
           p == IF ~bk.initial \/ s \in Cadence[b] THEN d ELSE bk.pending
           c == AtClose(b, bk, s)
<1>1. bk \in BookType /\ s \in Sessions /\ market.close[s] \in Nat
  BY DEF BookOK, MarketOK, Prices
<1>2. IsVisited(v, bk, s)
  BY <1>1, VisitedIs
<1>3. v \in BookType /\ LimitsOK(v) /\ v.pending = bk.pending /\ v.initial = bk.initial
      /\ v.day = s /\ v.seen = bk.seen \cup {s}
  BY <1>2 DEF IsVisited
<1>4. \A i \in DOMAIN bk.log : IsFill(bk.log[i]) => bk.log[i].session <= s
  <2>1. ASSUME NEW i \in DOMAIN bk.log, IsFill(bk.log[i]) PROVE bk.log[i].session <= s
    <3>1. bk.log[i].session \in Int /\ bk.log[i].decision.session \in Int
      BY <1>1, <2>1, FillIs
    <3>2. bk.log[i].session = bk.log[i].decision.session + 1 /\ bk.log[i].decision.session <= n
      BY <2>1 DEF BookOK, OrdersOK, FillOK
    <3> QED BY <3>1, <3>2
  <2> QED BY <2>1
<1>5. /\ OrdersOK(v, reg, n, now, resumes) /\ UnitsOK(v) /\ CreditsOK(v, market.dividend)
  BY <1>1, <1>4, VisitedKeeps DEF BookOK
<1>6. Opens(s) <= now /\ Opens(s) \in Int /\ Closes(s) \in Int
  BY DEF Opens, Closes
<1>7. SeenOK(v, reg, s, now)
  <2>1. \A x \in v.seen : Opens(x) <= now
    BY <1>3, <1>6 DEF BookOK, SeenOK
  <2>2. ASSUME NEW x \in Sessions, x <= s, Closes(x) > reg PROVE x \in v.seen
    <3>1. x = s \/ x <= n
      BY <2>2 DEF Sessions
    <3> QED BY <1>3, <2>2, <3>1 DEF BookOK, SeenOK
  <2> QED BY <2>1, <2>2 DEF SeenOK
<1>8. ~Late => DaysOK(v, s)
  <2>1. ASSUME ~Late PROVE DaysOK(v, s)
    <3>1. DaysOK(bk, n)
      BY <2>1 DEF BookOK
    <3>2. bk.day = None \/ bk.day <= s
      BY <3>1 DEF DaysOK
    <3>3. s \in Nat /\ s <= s + 1
      BY <1>1
    <3> QED BY <1>1, <3>1, <3>2, <3>3, VisitedDays
  <2> QED BY <2>1
<1>9. d \in Decision /\ d.session = s /\ d.at = now /\ d.resumes = resumes
  BY <1>1 DEF Decision
<1>10. c = [v EXCEPT !.initial = TRUE, !.pending = p]
  <2>1. c = [v EXCEPT !.initial = TRUE,
                      !.pending = IF ~bk.initial \/ s \in Cadence[b] THEN d ELSE @]
    BY Zenon DEF AtClose, Visited
  <2>2. v.pending = bk.pending
    BY <1>3
  <2> QED BY <2>1, <2>2
<1> HIDE DEF v, c
<1>11. CASE p = bk.pending
  <2> HIDE DEF p, d
  <2>1. c \in BookType
    BY <1>1, <1>3, <1>10, <1>11 DEF BookType
  <2>2. /\ c.pending = v.pending /\ c.log = v.log /\ c.seen = v.seen /\ c.pos = v.pos
        /\ c.day = v.day /\ c.dayStart = v.dayStart /\ c.began = v.began /\ c.cash = v.cash
        /\ c.mark = v.mark /\ c.high = v.high /\ c.breached = v.breached
        /\ c.paused = v.paused /\ c.eased = v.eased
    BY <1>3, <1>10, <1>11 DEF BookType
  <2>3. OrdersOK(c, reg, s, now, resumes)
    <3>1. Quieter(c, v)
      BY <2>2 DEF Quieter
    <3>2. OrdersOK(c, reg, n, now, resumes)
      BY <1>3, <1>5, <2>1, <3>1, OrdersKept
    <3> QED BY <1>1, <2>1, <3>2, LaterOrders
  <2>6. /\ UnitsOK(c) /\ SeenOK(c, reg, s, now) /\ CreditsOK(c, market.dividend)
        /\ LimitsOK(c) /\ (~Late => DaysOK(c, s))
    BY <1>3, <1>5, <1>7, <1>8, <2>1, <2>2, SameBook
  <2> QED BY <2>1, <2>3, <2>6 DEF BookOK, c
<1>12. CASE p = d
  <2>1. c \in BookType
    <3>1. p \in Decision
      BY <1>9, <1>12
    <3> HIDE DEF p, d
    <3> QED BY <1>3, <1>10, <3>1 DEF BookType
  <2>2. /\ c.pending = p /\ c.log = v.log /\ c.seen = v.seen /\ c.pos = v.pos
        /\ c.day = v.day /\ c.dayStart = v.dayStart /\ c.began = v.began /\ c.cash = v.cash
        /\ c.mark = v.mark /\ c.high = v.high /\ c.breached = v.breached
        /\ c.paused = v.paused /\ c.eased = v.eased
    <3> HIDE DEF p, d
    <3> QED BY <1>3, <1>10 DEF BookType
  <2> HIDE DEF p, d
  <2>3. DecisionOK(c.pending, reg, s, now, resumes)
    BY <1>1, <1>6, <1>9, <1>12, <2>2 DEF DecisionOK
  <2>4. ASSUME NEW i \in DOMAIN c.log, IsFill(c.log[i])
        PROVE  /\ FillOK(c.log[i], reg) /\ c.log[i].at <= now /\ c.log[i].session \in c.seen
               /\ c.log[i].decision.session <= s
               /\ c.log[i].decision.session < c.pending.session
    <3>1. i \in DOMAIN v.log /\ c.log[i] = v.log[i] /\ IsFill(v.log[i])
      BY <2>2, <2>4
    <3>2. v.log[i].decision.session \in Int
      BY <1>3, <3>1, FillIs
    <3>3. /\ FillOK(v.log[i], reg) /\ v.log[i].at <= now /\ v.log[i].session \in v.seen
          /\ v.log[i].decision.session <= n
      BY <1>5, <3>1 DEF OrdersOK
    <3> QED BY <1>9, <1>12, <2>2, <3>1, <3>2, <3>3
  <2>5. OrdersOK(c, reg, s, now, resumes)
    BY <1>5, <2>2, <2>3, <2>4 DEF OrdersOK
  <2>6. /\ UnitsOK(c) /\ SeenOK(c, reg, s, now) /\ CreditsOK(c, market.dividend)
        /\ LimitsOK(c) /\ (~Late => DaysOK(c, s))
    BY <1>3, <1>5, <1>7, <1>8, <2>1, <2>2, SameBook
  <2> QED BY <2>1, <2>5, <2>6 DEF BookOK, c
<1> QED BY <1>11, <1>12

\* The closes of a run, one after the other.
LEMMA CaughtUpKeeps ==
  ASSUME NEW b \in Books, NEW bk, NEW panel \in Nat, MarketOK, now \in Nat, resumes \in Nat,
         bars \in Nat, bars <= panel, panel <= LatestClosed(now), Since \in Nat,
         BookOK(bk, Since, bars, now, resumes, market.dividend)
  PROVE  BookOK(CaughtUp(b, bk, panel, Since), Since, panel, now, resumes, market.dividend)
<1>1. PICK a : /\ CaughtUp(b, bk, panel, Since) = a[panel]
               /\ \A s \in 0..panel :
                     a[s] = IF s <= bars THEN bk
                            ELSE IF Closes(s) > Since THEN AtClose(b, a[s - 1], s)
                            ELSE a[s - 1]
  BY CaughtUpIs
<1> DEFINE S == {s \in Nat : bars <= s /\ s <= panel =>
                   BookOK(a[s], Since, s, now, resumes, market.dividend)}
<1>2. 0 \in S
  <2>1. ASSUME bars <= 0 PROVE BookOK(a[0], Since, 0, now, resumes, market.dividend)
    <3>1. bars = 0
      BY <2>1
    <3>2. a[0] = bk
      BY <1>1, <3>1
    <3> QED BY <3>1, <3>2
  <2> QED BY <2>1
<1>3. ASSUME NEW n \in Nat, n \in S PROVE n + 1 \in S
  <2>1. ASSUME bars <= n + 1, n + 1 <= panel
        PROVE  BookOK(a[n + 1], Since, n + 1, now, resumes, market.dividend)
    <3>1. CASE n + 1 = bars
      <4>1. a[n + 1] = bk
        BY <1>1, <2>1, <3>1
      <4> QED BY <3>1, <4>1
    <3>2. CASE n + 1 # bars
      <4>1. bars <= n /\ n <= panel /\ ~(n + 1 <= bars) /\ n + 1 \in 0..panel
        BY <2>1, <3>2
      <4>2. BookOK(a[n], Since, n, now, resumes, market.dividend)
        BY <1>3, <4>1
      <4>3. a[n + 1] = IF Closes(n + 1) > Since THEN AtClose(b, a[n], n + 1) ELSE a[n]
        BY <1>1, <4>1
      <4>4. n + 1 \in Sessions /\ Closes(n + 1) <= now
        <5>1. LatestClosed(now) \in 0..LastSession /\ LastSession \in Nat
          BY ClosedIs, PaperConstants
        <5>2. n + 1 \in Sessions /\ n + 1 <= LatestClosed(now)
          BY <2>1, <5>1 DEF Sessions
        <5> QED BY <5>2, ClosedIs
      <4>5. CASE Closes(n + 1) > Since
        BY <4>2, <4>3, <4>4, <4>5, AtCloseKeeps
      <4>6. CASE ~(Closes(n + 1) > Since)
        <5>1. Closes(n + 1) <= Since
          BY <4>6 DEF Closes
        <5> QED BY <4>2, <4>3, <4>6, <5>1, ObservedKeeps
      <4> QED BY <4>5, <4>6
    <3> QED BY <3>1, <3>2
  <2> QED BY <2>1
<1>4. panel \in S
  <2> HIDE DEF S
  <2> QED BY <1>2, <1>3, Induction
<1> QED BY <1>1, <1>4

\* A decision is dropped.
LEMMA DropKeeps ==
  ASSUME NEW bk, NEW reg, NEW n, NEW t, NEW res, NEW div, bk.pending # None,
         BookOK(bk, reg, n, t, res, div)
  PROVE  BookOK(Drop(bk), reg, n, t, res, div) /\ Drop(bk).pending = None
         /\ Drop(bk).seen = bk.seen
<1> DEFINE e == [kind |-> "missed", decision |-> bk.pending]
           c == [bk EXCEPT !.pending = None]
           new == Drop(bk)
<1>1. bk \in BookType /\ bk.pending \in Decision
  BY DEF BookOK, BookType
<1>2. e \in Event /\ ~IsFill(e) /\ ~IsDividend(e)
  <2>1. e \in MissedEvent
    BY <1>1 DEF MissedEvent
  <2> QED BY <2>1 DEF Event, IsFill, IsDividend
<1>3. /\ c \in BookType /\ c.pending = None /\ c.log = bk.log /\ c.seen = bk.seen
      /\ c.pos = bk.pos /\ c.day = bk.day /\ c.dayStart = bk.dayStart /\ c.began = bk.began
      /\ c.cash = bk.cash /\ c.mark = bk.mark /\ c.high = bk.high
      /\ c.breached = bk.breached /\ c.paused = bk.paused /\ c.eased = bk.eased
  BY <1>1 DEF BookType
<1>4. new = Logged(c, e)
  BY DEF Drop
<1> HIDE DEF e, c, new
<1>5. /\ new \in BookType /\ new.pending = None /\ new.log = Append(bk.log, e)
      /\ new.seen = bk.seen /\ new.pos = bk.pos /\ new.day = bk.day
      /\ new.dayStart = bk.dayStart /\ new.began = bk.began
      /\ new.cash = bk.cash /\ new.mark = bk.mark /\ new.high = bk.high
      /\ new.breached = bk.breached /\ new.paused = bk.paused /\ new.eased = bk.eased
  BY <1>2, <1>3, <1>4, LoggedIs
<1>6. Quieter(new, bk)
  BY <1>2, <1>5 DEF Quieter
<1>7. OrdersOK(new, reg, n, t, res) /\ UnitsOK(new)
  BY <1>1, <1>5, <1>6, OrdersKept, UnitsKept DEF BookOK
<1>8. CreditsOK(new, div)
  BY <1>1, <1>2, <1>5, CreditsKept DEF BookOK
<1>9. SeenOK(new, reg, n, t)
  BY <1>5 DEF BookOK, SeenOK
<1>10. LimitsOK(new)
  <2>1. Equity(new) = Equity(bk)
    BY <1>5 DEF Equity
  <2>2. LimitsOK(bk)
    BY DEF BookOK
  <2> QED BY <1>5, <2>1, <2>2, Zenon DEF LimitsOK
<1>11. ~Late => DaysOK(new, n)
  BY <1>5 DEF BookOK, DaysOK
<1> QED BY <1>5, <1>7, <1>8, <1>9, <1>10, <1>11 DEF BookOK, new

\* Expiry keeps a book, and leaves no decision whose window is over.
LEMMA ExpiredKeeps ==
  ASSUME NEW bk, NEW reg, NEW n, NEW t, NEW res, NEW div, BookOK(bk, reg, n, t, res, div)
  PROVE  BookOK(Expired(bk), reg, n, t, res, div) /\ ~Missed(Expired(bk))
<1>1. CASE Missed(bk)
  <2>1. Expired(bk) = Drop(bk) /\ bk.pending # None
    BY <1>1 DEF Expired, Missed
  <2>2. BookOK(Drop(bk), reg, n, t, res, div) /\ Drop(bk).pending = None
    BY <2>1, DropKeeps
  <2> QED BY <2>1, <2>2 DEF Missed
<1>2. CASE ~Missed(bk)
  BY <1>2 DEF Expired
<1> QED BY <1>1, <1>2

\* A book as a run leaves it before the quotes.
LEMMA ValuedKeeps ==
  ASSUME NEW b \in Books, NEW panel \in Nat, MarketOK, now \in Nat, resumes \in Nat,
         bars \in Nat, bars <= panel, panel <= LatestClosed(now), Since \in Nat,
         BookOK(book[b], Since, bars, now, resumes, market.dividend)
  PROVE  /\ BookOK(Valued(b, panel), Since, panel, now, resumes, market.dividend)
         /\ ~Missed(Valued(b, panel))
<1> DEFINE e == Expired(book[b])
           c == CaughtUp(b, e, panel, Since)
<1>1. BookOK(e, Since, bars, now, resumes, market.dividend)
  BY ExpiredKeeps
<1> HIDE DEF e
<1>2. BookOK(c, Since, panel, now, resumes, market.dividend)
  BY <1>1, CaughtUpKeeps
<1> HIDE DEF c
<1>3. BookOK(Expired(c), Since, panel, now, resumes, market.dividend) /\ ~Missed(Expired(c))
  BY <1>2, ExpiredKeeps
<1> QED BY <1>3 DEF Valued, c, e

\* The opening: a book's fills are from sessions up to the quote's, which is not over.
LEMMA FillsBefore ==
  ASSUME NEW bk, NEW reg, NEW n, NEW t \in Nat, NEW res, NEW div, NEW s \in Sessions,
         BookOK(bk, reg, n, t, res, div), t < Closes(s)
  PROVE  /\ \A i \in DOMAIN bk.log : IsFill(bk.log[i]) => bk.log[i].session <= s
         /\ \A x \in bk.seen : x <= s
<1>0. s \in Int /\ bk \in BookType
  BY DEF Sessions, BookOK
<1>1. ASSUME NEW x \in Sessions, Opens(x) <= t PROVE x <= s
  BY <1>0, <1>1 DEF Opens, Closes, Sessions
<1>2. \A x \in bk.seen : x <= s
  <2>1. ASSUME NEW x \in bk.seen PROVE x <= s
    <3>1. x \in Sessions /\ Opens(x) <= t
      BY <1>0, <2>1 DEF BookType, BookOK, SeenOK
    <3> QED BY <1>1, <3>1
  <2> QED BY <2>1
<1>3. ASSUME NEW i \in DOMAIN bk.log, IsFill(bk.log[i]) PROVE bk.log[i].session <= s
  BY <1>2, <1>3 DEF BookOK, OrdersOK
<1> QED BY <1>2, <1>3

\* An opening at level n, of the session after it unless quotes come Late.
LEMMA AtOpenKeeps ==
  ASSUME NEW bk, NEW reg \in Nat, NEW n \in Nat, NEW q \in Quotes, MarketOK,
         now \in Nat, resumes \in Nat, now < Closes(q.session),
         BookOK(bk, reg, n, now, resumes, market.dividend), ~Late => q.session = n + 1
  PROVE  /\ BookOK(AtOpen(bk, q), reg, n, now, resumes, market.dividend)
         /\ q.session \in AtOpen(bk, q).seen
         /\ AtOpen(bk, q).pending # None => AtOpen(bk, q).pending = bk.pending /\ InTime(bk, q)
<1> DEFINE s == q.session
           v == Visited(bk, s, market.open[s])
           c == AtOpen(bk, q)
<1>1. s \in Sessions /\ Opens(s) <= q.at /\ q.at \in 0..now
  BY DEF Quotes
<1>2. bk \in BookType /\ market.open[s] \in Nat
  BY <1>1 DEF BookOK, MarketOK, Prices
<1>3. IsVisited(v, bk, s)
  BY <1>1, <1>2, VisitedIs
<1>4. v \in BookType /\ LimitsOK(v) /\ v.pending = bk.pending /\ v.seen = bk.seen \cup {s}
  BY <1>3 DEF IsVisited
<1>5. \A i \in DOMAIN bk.log : IsFill(bk.log[i]) => bk.log[i].session <= s
  BY <1>1, FillsBefore
<1>6. OrdersOK(v, reg, n, now, resumes) /\ UnitsOK(v) /\ CreditsOK(v, market.dividend)
  BY <1>1, <1>2, <1>5, VisitedKeeps DEF BookOK
<1>7. SeenOK(v, reg, n, now)
  <2>1. Opens(s) <= now
    BY <1>1 DEF Opens, Sessions
  <2> QED BY <1>4, <2>1 DEF BookOK, SeenOK
<1>8. ~Late => DaysOK(v, n)
  <2>1. ASSUME ~Late PROVE DaysOK(v, n)
    <3>1. DaysOK(bk, n) /\ s = n + 1
      BY <2>1 DEF BookOK
    <3>2. bk.day = None \/ bk.day <= s
      BY <3>1 DEF DaysOK
    <3>3. s <= n + 1
      BY <3>1
    <3> QED BY <1>1, <1>2, <3>1, <3>2, <3>3, VisitedDays
  <2> QED BY <2>1
<1>9. BookOK(v, reg, n, now, resumes, market.dividend)
  BY <1>4, <1>6, <1>7, <1>8 DEF BookOK
<1>10. c = IF v.pending = None \/ InTime(v, q) THEN v ELSE Drop(v)
  <2>1. c = IF bk.pending = None \/ InTime(bk, q) THEN v ELSE Drop(v)
    BY DEF AtOpen, Visited
  <2> QED BY <1>4, <2>1 DEF InTime
<1>11. InTime(v, q) = InTime(bk, q)
  BY <1>4 DEF InTime
<1> HIDE DEF v, c
<1>12. CASE v.pending = None \/ InTime(v, q)
  BY <1>4, <1>9, <1>10, <1>11, <1>12 DEF c
<1>13. CASE ~(v.pending = None \/ InTime(v, q))
  <2>1. c = Drop(v) /\ v.pending # None
    BY <1>10, <1>13
  <2>2. BookOK(Drop(v), reg, n, now, resumes, market.dividend) /\ Drop(v).pending = None
        /\ Drop(v).seen = v.seen
    BY <1>9, <2>1, DropKeeps
  <2> QED BY <1>4, <2>1, <2>2 DEF c
<1> QED BY <1>12, <1>13

\* What an order leaves: within its target, never on credit, and no purchase while paused.
LEMMA FillsToIs ==
  ASSUME NEW b \in Books, NEW bk \in BookType, NEW q \in Quotes, MarketOK,
         NEW to \in FillsTo(b, bk, q), bk.pending # None
  PROVE  /\ to \in 0..Lot
         /\ bk.cash - (to - bk.pos) * market.open[q.session] \in Nat
         /\ bk.paused => to <= bk.pos
<1> DEFINE target == IF bk.pending.session \in Wants[b] THEN Lot ELSE 0
           price == market.open[q.session]
<1>1. Lot \in Nat /\ target \in 0..Lot /\ bk.pos \in 0..Lot /\ bk.cash \in Nat /\ price \in Nat
  BY PaperConstants DEF BookType, Quotes, MarketOK, Prices
<1>2. \/ target < bk.pos /\ to \in target..bk.pos
      \/ to = bk.pos
      \/ ~bk.paused /\ to \in bk.pos..target /\ (to - bk.pos) * price <= bk.cash
  BY DEF FillsTo
<1> HIDE DEF target, price
<1>3. to \in 0..Lot /\ to \in Int /\ bk.pos \in Int
  BY <1>1, <1>2
<1> DEFINE cost == (to - bk.pos) * price
<1>4. cost \in Int
  BY <1>1, <1>3
<1>5. cost <= bk.cash
  <2>1. CASE to <= bk.pos
    <3>1. cost <= 0
      BY <1>1, <1>3, <2>1
    <3> HIDE DEF cost
    <3> QED BY <1>1, <1>4, <3>1
  <2>2. CASE ~(to <= bk.pos)
    BY <1>1, <1>2, <1>3, <2>2
  <2> QED BY <2>1, <2>2
<1>6. bk.cash - cost \in Nat
  <2> HIDE DEF cost
  <2> QED BY <1>1, <1>4, <1>5
<1>7. bk.paused => to <= bk.pos
  BY <1>1, <1>2, <1>3
<1> QED BY <1>3, <1>6, <1>7 DEF price

\* A fill adds to what later sessions hold, and to none that was looked at.
LEMMA FillKeeps ==
  ASSUME NEW b \in Books, NEW bk, NEW reg \in Nat, NEW n \in Nat, NEW q \in Quotes, MarketOK,
         now \in Nat, resumes \in Nat, now < Closes(q.session),
         BookOK(bk, reg, n, now, resumes, market.dividend), q.session \in bk.seen,
         bk.pending # None => InTime(bk, q) /\ bk.pending.session = q.session - 1,
         NEW to \in FillsTo(b, bk, q)
  PROVE  BookOK(Filled(bk, q, to), reg, n, now, resumes, market.dividend)
<1> DEFINE s == q.session
           price == market.open[s]
           d == bk.pending
           f == [kind |-> "fill", session |-> s, decision |-> d, at |-> now, observed |-> q.at,
                 resumes |-> resumes, qty |-> to - bk.pos, paused |-> bk.paused]
           left == bk.cash - (to - bk.pos) * price
           u == [bk EXCEPT !.cash = left, !.pos = to, !.pending = None]
           l == Logged(u, f)
           c == Filled(bk, q, to)
           N == Len(bk.log)
<1>1. CASE d = None
  BY <1>1 DEF Filled
<1>2. CASE d # None
  <2>1. /\ bk \in BookType /\ d \in Decision /\ s \in Sessions /\ s \in Nat /\ price \in Nat
        /\ q.at \in 0..now /\ Opens(s) <= q.at
    <3>1. bk \in BookType /\ d \in Decision
      BY <1>2 DEF BookOK, BookType
    <3>2. s \in Sessions /\ q.at \in 0..now /\ Opens(s) <= q.at
      BY DEF Quotes
    <3>3. price \in Nat
      BY <3>2 DEF MarketOK, Prices
    <3>4. s \in Nat
      BY <3>2 DEF Sessions
    <3> QED BY <3>1, <3>2, <3>3, <3>4
  <2>2. to \in 0..Lot /\ left \in Nat /\ (bk.paused => to <= bk.pos)
    BY <1>2, <2>1, FillsToIs
  <2>3. bk.pos \in 0..Lot /\ Lot \in Nat /\ bk.paused \in BOOLEAN /\ bk.log \in Seq(Event)
        /\ d.session \in Nat /\ d.session \in Sessions /\ d.at \in Nat
    <3>1. bk.pos \in 0..Lot /\ Lot \in Nat /\ bk.paused \in BOOLEAN /\ bk.log \in Seq(Event)
      BY <2>1, PaperConstants DEF BookType
    <3>2. d.session \in Sessions /\ d.at \in Nat
      BY <2>1 DEF Decision
    <3> QED BY <3>1, <3>2 DEF Sessions
  <2>4. to - bk.pos \in Int /\ to \in Int /\ bk.pos \in Int
    BY <2>2, <2>3
  <2>5. f \in FillEvent /\ f \in Event
    <3>1. f \in FillEvent
      BY <2>1, <2>3, <2>4 DEF FillEvent
    <3> QED BY <3>1 DEF Event
  <2>6. IsFill(f) /\ ~IsDividend(f) /\ f.session = s /\ f.decision = d /\ f.at = now
        /\ f.qty = to - bk.pos
    BY DEF IsFill, IsDividend
  <2>7. FillOK(f, reg)
    <3>1. InTime(bk, q) /\ d.session = s - 1
      BY <1>2
    <3>2. now - Opens(s) <= Window /\ d.at < Opens(s) /\ d.at < q.at /\ Opens(s) \in Int
          /\ Window \in Int
      BY <2>1, <3>1, PaperConstants DEF InTime, Opens
    <3>3. Opens(s) <= now /\ now <= Opens(s) + Window
      BY <2>1, <3>2
    <3>4. s = d.session + 1
      BY <2>1, <2>3, <3>1
    <3>5. Closes(d.session) > reg /\ d.resumes = resumes
      BY <1>2 DEF BookOK, OrdersOK, DecisionOK
    <3>6. bk.paused => to - bk.pos <= 0
      BY <2>2, <2>4
    <3> QED BY <3>2, <3>3, <3>4, <3>5, <3>6 DEF FillOK
  <2>8. c = Risk(l, price)
    BY <1>2 DEF Filled
  <2> HIDE DEF f, left
  <2>9. /\ u \in BookType /\ u.pos = to /\ u.pending = None /\ u.log = bk.log
        /\ u.seen = bk.seen /\ u.day = bk.day /\ u.dayStart = bk.dayStart /\ u.began = bk.began
    BY <2>1, <2>2 DEF BookType
  <2> HIDE DEF u
  <2>10. /\ l \in BookType /\ l.pos = to /\ l.pending = None /\ l.log = Append(bk.log, f)
         /\ l.seen = bk.seen /\ l.day = bk.day /\ l.dayStart = bk.dayStart /\ l.began = bk.began
    BY <2>5, <2>9, LoggedIs
  <2> HIDE DEF l, c
  <2>11. /\ c \in BookType /\ LimitsOK(c) /\ c.pos = to /\ c.pending = None
         /\ c.log = Append(bk.log, f) /\ c.seen = bk.seen /\ c.day = bk.day
         /\ c.dayStart = bk.dayStart /\ c.began = bk.began
    <3>1. /\ Risk(l, price) \in BookType
          /\ LimitsOK(Risk(l, price))
          /\ Risk(l, price).pos = l.pos /\ Risk(l, price).pending = l.pending
          /\ Risk(l, price).day = l.day /\ Risk(l, price).dayStart = l.dayStart
          /\ Risk(l, price).seen = l.seen /\ Risk(l, price).log = l.log
          /\ Risk(l, price).began = l.began
      BY <2>1, <2>10, RiskIs
    <3> QED BY <2>8, <2>10, <3>1
  <2>12. N \in Nat /\ c.log[N + 1] = f /\ DOMAIN c.log = 1..(N + 1) /\ DOMAIN bk.log = 1..N
         /\ \A i \in 1..N : c.log[i] = bk.log[i]
    BY <2>3, <2>5, <2>11
  <2>13. ASSUME NEW i \in DOMAIN bk.log, IsFill(bk.log[i])
         PROVE  /\ FillOK(bk.log[i], reg) /\ bk.log[i].at <= now /\ bk.log[i].session \in bk.seen
                /\ bk.log[i].decision.session <= n
                /\ bk.log[i].session < s
    <3>1. /\ FillOK(bk.log[i], reg) /\ bk.log[i].at <= now /\ bk.log[i].session \in bk.seen
          /\ bk.log[i].decision.session <= n /\ bk.log[i].decision.session < d.session
      BY <1>2, <2>13 DEF BookOK, OrdersOK
    <3>2. bk.log[i].session \in Int /\ bk.log[i].decision.session \in Int
      BY <2>1, <2>13, FillIs
    <3>3. bk.log[i].session = bk.log[i].decision.session + 1 /\ s = d.session + 1
      BY <2>6, <2>7, <3>1 DEF FillOK
    <3> QED BY <2>1, <2>3, <3>1, <3>2, <3>3
  <2>14. OrdersOK(c, reg, n, now, resumes)
    <3>1. ASSUME NEW i \in DOMAIN c.log, IsFill(c.log[i])
          PROVE  /\ FillOK(c.log[i], reg) /\ c.log[i].at <= now /\ c.log[i].session \in c.seen
                 /\ c.log[i].decision.session <= n
      <4>1. CASE i = N + 1
        <5>1. d.session <= n
          BY <1>2 DEF BookOK, OrdersOK, DecisionOK
        <5>2. now <= now
          OBVIOUS
        <5> QED BY <2>6, <2>7, <2>11, <2>12, <4>1, <5>1, <5>2
      <4>2. CASE i # N + 1
        <5>1. i \in DOMAIN bk.log /\ c.log[i] = bk.log[i]
          BY <2>12, <4>2
        <5> QED BY <2>11, <2>13, <3>1, <5>1
      <4> QED BY <4>1, <4>2
    <3>2. ASSUME NEW i \in DOMAIN c.log, NEW j \in DOMAIN c.log, IsFill(c.log[i]), IsFill(c.log[j]),
                 c.log[i].session = c.log[j].session
          PROVE  i = j
      <4>1. ASSUME NEW x \in DOMAIN c.log, x # N + 1, IsFill(c.log[x]) PROVE c.log[x].session # s
        <5>1. x \in DOMAIN bk.log /\ c.log[x] = bk.log[x]
          BY <2>12, <4>1
        <5>2. bk.log[x].session < s /\ bk.log[x].session \in Int
          BY <2>1, <2>13, <4>1, <5>1, FillIs
        <5> QED BY <2>1, <5>1, <5>2
      <4>2. c.log[N + 1].session = s
        BY <2>6, <2>12
      <4>3. CASE i = N + 1 \/ j = N + 1
        BY <3>2, <4>1, <4>2, <4>3
      <4>4. CASE i # N + 1 /\ j # N + 1
        <5>1. i \in DOMAIN bk.log /\ c.log[i] = bk.log[i] /\ j \in DOMAIN bk.log
              /\ c.log[j] = bk.log[j]
          BY <2>12, <4>4
        <5> QED BY <3>2, <5>1 DEF BookOK, OrdersOK
      <4> QED BY <4>3, <4>4
    <3> QED BY <2>11, <3>1, <3>2 DEF OrdersOK
  <2>15. UnitsOK(c)
    <3>1. Adds(f, LastSession + 1) = to - bk.pos
      <4>1. s < LastSession + 1
        BY <2>1, PaperConstants DEF Sessions
      <4> QED BY <2>6, <4>1 DEF Adds, IsFill
    <3>2. HeldBefore(c.log, LastSession + 1) = HeldBefore(bk.log, LastSession + 1) + (to - bk.pos)
      BY <2>3, <2>5, <2>11, <3>1, HeldAppend
    <3>3. HeldBefore(bk.log, LastSession + 1) = bk.pos
      BY DEF BookOK, UnitsOK
    <3> QED BY <2>4, <2>11, <3>2, <3>3 DEF UnitsOK
  <2>16. \A x \in bk.seen : HeldBefore(c.log, x) = HeldBefore(bk.log, x)
    <3>1. ASSUME NEW x \in bk.seen PROVE HeldBefore(c.log, x) = HeldBefore(bk.log, x)
      <4>1. x \in Int /\ x <= s
        <5>1. x \in Sessions
          BY <2>1, <3>1 DEF BookType
        <5> QED BY <2>1, <3>1, <5>1, FillsBefore DEF Sessions
      <4>2. Adds(f, x) = 0
        BY <2>1, <2>6, <4>1 DEF Adds
      <4>3. HeldBefore(bk.log, x) \in Int
        BY <2>3, HeldType
      <4> QED BY <2>3, <2>5, <2>11, <4>2, <4>3, HeldAppend
    <3> QED BY <3>1
  <2>17. CreditsOK(c, market.dividend)
    <3>1. ASSUME NEW i \in DOMAIN c.log, IsDividend(c.log[i])
          PROVE  i \in DOMAIN bk.log /\ c.log[i] = bk.log[i]
      <4>1. i # N + 1
        BY <2>6, <2>12, <3>1
      <4> QED BY <2>12, <4>1
    <3>2. ASSUME NEW i \in DOMAIN c.log, IsDividend(c.log[i])
          PROVE  c.log[i].session \in c.seen /\ c.log[i].qty = HeldBefore(c.log, c.log[i].session)
      <4>1. i \in DOMAIN bk.log /\ c.log[i] = bk.log[i] /\ IsDividend(bk.log[i])
        BY <3>1, <3>2
      <4>2. bk.log[i].session \in bk.seen /\ bk.log[i].qty = HeldBefore(bk.log, bk.log[i].session)
        BY <4>1 DEF BookOK, CreditsOK
      <4> QED BY <2>11, <2>16, <4>1, <4>2
    <3>3. ASSUME NEW i \in DOMAIN c.log, NEW j \in DOMAIN c.log,
                 IsDividend(c.log[i]), IsDividend(c.log[j]), c.log[i].session = c.log[j].session
          PROVE  i = j
      BY <3>1, <3>3 DEF BookOK, CreditsOK
    <3>4. ASSUME NEW x \in c.seen, HeldBefore(c.log, x) * market.dividend[x] # 0
          PROVE  \E i \in DOMAIN c.log : IsDividend(c.log[i]) /\ c.log[i].session = x
      <4>1. x \in bk.seen /\ HeldBefore(bk.log, x) * market.dividend[x] # 0
        BY <2>11, <2>16, <3>4
      <4>2. PICK i \in DOMAIN bk.log : IsDividend(bk.log[i]) /\ bk.log[i].session = x
        BY <4>1 DEF BookOK, CreditsOK
      <4>3. i \in DOMAIN c.log /\ c.log[i] = bk.log[i]
        BY <2>12
      <4> QED BY <4>2, <4>3
    <3> QED BY <3>2, <3>3, <3>4 DEF CreditsOK
  <2>18. SeenOK(c, reg, n, now)
    BY <2>11 DEF BookOK, SeenOK
  <2>19. ~Late => DaysOK(c, n)
    BY <2>11 DEF BookOK, DaysOK
  <2> QED BY <2>11, <2>14, <2>15, <2>17, <2>18, <2>19 DEF BookOK, c
<1> QED BY <1>1, <1>2

------------------------------------------------------------------------------
(* What a run reads.                                                        *)

\* A run has the closes of a prefix of the calendar; unless Late, an opening's quote finds
\* all of those before its session.
LEMMA PanelIs ==
  ASSUME NEW panel \in Panels, now \in Nat
  PROVE  /\ panel \in Nat /\ panel <= LatestClosed(now)
         /\ \A q \in Quotes : ~Late /\ now < Closes(q.session) => q.session = panel + 1
<1>1. LatestClosed(now) \in 0..LastSession /\ LastSession \in Nat
      /\ \A s \in Sessions : s <= LatestClosed(now) <=> Closes(s) <= now
  BY ClosedIs, PaperConstants
<1>2. /\ Late => panel \in 0..LatestClosed(now)
      /\ ~Late => panel = LatestClosed(now)
                  \/ \E s \in Sessions : panel = s - 1 /\ now = Closes(s)
  BY DEF Panels
<1>3. ASSUME NEW s \in Sessions, panel = s - 1, now = Closes(s)
      PROVE  panel \in Nat /\ panel <= LatestClosed(now)
  <2>1. s <= LatestClosed(now) /\ s \in Nat /\ s >= 1
    BY <1>1, <1>3 DEF Closes, Sessions
  <2> QED BY <1>1, <1>3, <2>1
<1>4. panel \in Nat /\ panel <= LatestClosed(now)
  <2>1. CASE Late
    BY <1>1, <1>2, <2>1
  <2>2. CASE ~Late
    <3>1. CASE panel = LatestClosed(now)
      BY <1>1, <3>1
    <3> QED BY <1>2, <1>3, <2>2, <3>1
  <2> QED BY <2>1, <2>2
<1>5. ASSUME NEW q \in Quotes, ~Late, now < Closes(q.session) PROVE q.session = panel + 1
  <2>1. q.session \in Sessions /\ q.session \in Nat /\ q.session >= 1
        /\ Opens(q.session) <= q.at /\ q.at \in 0..now
    BY DEF Quotes, Sessions
  <2>2. Opens(q.session) <= now
    BY <2>1 DEF Opens
  <2>3. CASE panel = LatestClosed(now)
    <3>1. ~(q.session <= panel)
      BY <1>1, <1>5, <2>1, <2>3 DEF Closes
    <3>2. q.session - 1 <= panel
      <4>1. CASE q.session = 1
        BY <1>4, <4>1
      <4>2. CASE q.session # 1
        <5>1. q.session - 1 \in Sessions
          BY <1>1, <2>1, <4>2 DEF Sessions
        <5>2. Closes(q.session - 1) <= now
          BY <2>1, <2>2 DEF Closes, Opens
        <5> QED BY <1>1, <2>3, <5>1, <5>2
      <4> QED BY <4>1, <4>2
    <3> QED BY <1>4, <2>1, <3>1, <3>2
  <2>4. ASSUME NEW s \in Sessions, panel = s - 1, now = Closes(s) PROVE FALSE
    <3>1. s \in Nat
      BY <2>4 DEF Sessions
    <3> QED BY <1>5, <2>1, <2>2, <2>4, <3>1 DEF Opens, Closes
  <2> QED BY <1>2, <1>5, <2>3, <2>4
<1> QED BY <1>4, <1>5

\* A decision that an opening finds in time is the one of the close before it.
LEMMA InTimeIsNext ==
  ASSUME NEW bk \in BookType, NEW reg, NEW n, NEW q \in Quotes, NEW res, now \in Nat,
         bk.pending # None, DecisionOK(bk.pending, reg, n, now, res), ~Missed(bk),
         InTime(bk, q), now < Closes(q.session)
  PROVE  bk.pending.session = q.session - 1
<1> DEFINE d == bk.pending
           s == q.session
<1>1. d \in Decision
  BY DEF BookType
<1>2. d.session \in Nat /\ d.at \in Nat
  BY <1>1 DEF Decision, Sessions
<1>3. s \in Nat /\ Opens(s) <= now
  BY DEF Quotes, Sessions, Opens
<1>4. Closes(d.session) <= d.at /\ d.at < Opens(s)
  BY DEF DecisionOK, InTime
<1>5. now <= Opens(d.session + 1) + Window /\ Window \in 0..2
  <2>1. ~(now > Opens(d.session + 1) + Window)
    BY DEF Missed
  <2> QED BY <1>2, <2>1, PaperConstants DEF Opens
<1> HIDE DEF d, s
<1>6. d.session < s
  BY <1>2, <1>3, <1>4 DEF Opens, Closes
<1>7. s <= d.session + 1
  BY <1>2, <1>3, <1>5 DEF Opens
<1>8. d.session = s - 1
  BY <1>2, <1>3, <1>6, <1>7
<1> QED BY <1>8 DEF d, s

------------------------------------------------------------------------------
(* Every step keeps the invariant.                                          *)

\* A book of an engine that is not registered is right at any time.
LEMMA FreshKeeps ==
  ASSUME NEW reg \in Nat, NEW t \in Nat, NEW res, NEW div
  PROVE  Fresh \in BookType /\ BookOK(Fresh, reg, 0, t, res, div)
<1>0. {LastSession, Capital, MaxDailyLoss, MaxDrawdown} \subseteq Nat \ {0} /\ Lot \in Nat
  BY PaperConstants
<1>1. Fresh \in BookType
  <2>1. <<>> \in Seq(Event) /\ [s \in Sessions |-> None] \in [Sessions -> Nat \cup {None}]
    OBVIOUS
  <2> QED BY <1>0, <2>1 DEF Fresh, BookType
<1>2. /\ Fresh.pending = None /\ Fresh.log = <<>> /\ Fresh.seen = {} /\ Fresh.pos = 0
      /\ Fresh.cash = Capital /\ Fresh.mark = 0 /\ Fresh.day = None /\ Fresh.dayStart = Capital
      /\ Fresh.high = Capital /\ Fresh.breached = FALSE /\ Fresh.paused = FALSE
      /\ Fresh.began = [s \in Sessions |-> None]
  BY DEF Fresh
<1>3. OrdersOK(Fresh, reg, 0, t, res)
  BY <1>2 DEF OrdersOK
<1>4. HeldBefore(<<>>, LastSession + 1) = 0
  <2> DEFINE log == <<>>
  <2>1. log \in Seq(Event) /\ Len(log) = 0
    OBVIOUS
  <2> HIDE DEF log
  <2>2. \A n \in 1..Len(log) : Adds(log[n], LastSession + 1) = 0
    BY <2>1
  <2>3. HeldBefore(log, LastSession + 1) = 0
    BY <2>1, <2>2, HeldNothing
  <2> QED BY <2>3 DEF log
<1>5. UnitsOK(Fresh)
  BY <1>2, <1>4 DEF UnitsOK
<1>6. SeenOK(Fresh, reg, 0, t)
  BY <1>2 DEF SeenOK, Sessions
<1>7. CreditsOK(Fresh, div)
  BY <1>2 DEF CreditsOK
<1>8. LimitsOK(Fresh)
  <2>1. Equity(Fresh) = Capital
    BY <1>0, <1>2 DEF Equity
  <2>2. MaxDrawdown * Capital > 0
    BY <1>0
  <2>3. ~Fell(Capital, Capital, MaxDrawdown)
    BY <1>0, <2>2 DEF Fell
  <2>4. Fell(Capital, Capital, MaxDrawdown) = FALSE
    BY <2>3 DEF Fell
  <2> QED BY <1>2, <2>1, <2>4, Zenon DEF LimitsOK
<1>9. DaysOK(Fresh, 0)
  BY <1>2 DEF DaysOK
<1> QED BY <1>1, <1>3, <1>5, <1>6, <1>7, <1>8, <1>9 DEF BookOK

\* The invariant holds at first.
LEMMA InitEngine ==
  EngineInit => EngineInv
<1>1. SUFFICES ASSUME EngineInit PROVE EngineInv
  OBVIOUS
<1>2. market \in Markets /\ now = 0 /\ registered = None /\ bars = 0 /\ resumes = 0
      /\ book = [b \in Books |-> Fresh]
  BY <1>1 DEF EngineInit
<1>3. Since = 0
  BY <1>2 DEF Since
<1>4. Fresh \in BookType /\ BookOK(Fresh, Since, 0, 0, 0, market.dividend)
  BY <1>3, FreshKeeps
<1>5. now \in Ticks /\ bars \in 0..LatestClosed(now) /\ registered \in (0..now) \cup {None}
  <2>1. LatestClosed(0) \in 0..LastSession /\ LastSession \in Nat
    BY ClosedIs, PaperConstants
  <2> QED BY <1>2, <2>1 DEF Ticks, Closes
<1>6. book \in [Books -> BookType] /\ \A b \in Books : book[b] = Fresh
  BY <1>2, <1>4
<1> QED BY <1>2, <1>4, <1>5, <1>6 DEF EngineInv

\* The numbers of the invariant.
LEMMA InvNumbers ==
  ASSUME EngineInv
  PROVE  /\ MarketOK /\ now \in Nat /\ resumes \in Nat /\ bars \in Nat /\ Since \in 0..now
         /\ bars <= LatestClosed(now) /\ LatestClosed(now) \in 0..LastSession
         /\ \A b \in Books : BookOK(book[b], Since, bars, now, resumes, market.dividend)
<1>1. now \in Nat
  BY PaperConstants DEF EngineInv, Ticks, Closes
<1>2. LatestClosed(now) \in 0..LastSession /\ LastSession \in Nat
  BY <1>1, ClosedIs, PaperConstants
<1>3. bars \in Nat /\ bars <= LatestClosed(now)
  BY <1>2 DEF EngineInv
<1>4. Since \in 0..now
  BY <1>1 DEF EngineInv, Since
<1>5. MarketOK
  BY PaperConstants DEF EngineInv, MarketOK
<1> QED BY <1>1, <1>2, <1>3, <1>4, <1>5 DEF EngineInv

\* A run: every book caught up and expired, then opened and filled if there are quotes.
LEMMA RunKeeps ==
  EngineInv /\ Run => EngineInv'
<1>1. SUFFICES ASSUME EngineInv, Run PROVE EngineInv'
  OBVIOUS
<1>2. PICK panel \in Panels, q \in Quotes \cup {None} :
         /\ Refused(panel, q) = "none" /\ book' \in Results(panel, q)
         /\ bars' = panel /\ registered' = Since
         /\ UNCHANGED <<market, now, resumes>>
  BY <1>1 DEF Run
<1>3. /\ MarketOK /\ now \in Nat /\ resumes \in Nat /\ bars \in Nat /\ Since \in 0..now
      /\ \A b \in Books : BookOK(book[b], Since, bars, now, resumes, market.dividend)
  BY <1>1, InvNumbers
<1>4. panel \in Nat /\ panel <= LatestClosed(now) /\ bars <= panel
  <2>1. panel \in Nat /\ panel <= LatestClosed(now)
    BY <1>3, PanelIs
  <2>2. ~(panel < bars)
    BY <1>2 DEF Refused
  <2> QED BY <1>3, <2>1, <2>2
<1>5. ASSUME NEW b \in Books
      PROVE  /\ BookOK(Valued(b, panel), Since, panel, now, resumes, market.dividend)
             /\ ~Missed(Valued(b, panel))
  BY <1>3, <1>4, ValuedKeeps
<1>6. book' \in [Books -> BookType]
      /\ \A b \in Books : BookOK(book'[b], Since, panel, now, resumes, market.dividend)
  <2>1. CASE q = None
    <3>1. book' = [b \in Books |-> Valued(b, panel)]
      BY <1>2, <2>1 DEF Results
    <3>2. \A b \in Books : Valued(b, panel) \in BookType
      BY <1>5 DEF BookOK
    <3> QED BY <1>5, <3>1, <3>2
  <2>2. CASE q # None
    <3> DEFINE opened == [b \in Books |-> AtOpen(Valued(b, panel), q)]
    <3>1. q \in Quotes /\ ~Stale(q) /\ \A b \in Books : ~NotNext(AtOpen(Valued(b, panel), q), q)
      BY <1>2, <2>2 DEF Refused
    <3>2. now < Closes(q.session)
      BY <3>1 DEF Stale
    <3>3. ~Late => q.session = panel + 1
      BY <1>3, <3>1, <3>2, PanelIs
    <3>4. PICK to \in [Books -> 0..Lot] :
             /\ \A b \in Books : to[b] \in FillsTo(b, opened[b], q)
             /\ book' = [b \in Books |-> Filled(opened[b], q, to[b])]
      BY <1>2, <2>2 DEF Results
    <3>5. ASSUME NEW b \in Books
          PROVE  BookOK(Filled(opened[b], q, to[b]), Since, panel, now, resumes, market.dividend)
      <4> DEFINE v == Valued(b, panel)
                 o == AtOpen(v, q)
      <4>1. opened[b] = o
        OBVIOUS
      <4>2. to[b] \in FillsTo(b, o, q)
        BY <3>4, <4>1
      <4>3. BookOK(v, Since, panel, now, resumes, market.dividend)
        BY <1>5
      <4>4. ~NotNext(o, q)
        BY <3>1
      <4> HIDE DEF v
      <4>5. Since \in Nat
        BY <1>3
      <4>6. /\ BookOK(o, Since, panel, now, resumes, market.dividend)
            /\ q.session \in o.seen
            /\ o.pending # None => o.pending = v.pending /\ InTime(v, q)
        BY <1>3, <1>4, <3>1, <3>2, <3>3, <4>3, <4>5, AtOpenKeeps
      <4> HIDE DEF o, opened
      <4>7. o.pending # None => InTime(o, q) /\ o.pending.session = q.session - 1
        BY <4>4, <4>6 DEF NotNext, InTime
      <4>8. BookOK(Filled(o, q, to[b]), Since, panel, now, resumes, market.dividend)
        BY <1>3, <1>4, <3>1, <3>2, <4>2, <4>5, <4>6, <4>7, FillKeeps
      <4> QED BY <4>1, <4>8
    <3> HIDE DEF opened
    <3>6. \A b \in Books : Filled(opened[b], q, to[b]) \in BookType
      BY <3>5 DEF BookOK
    <3> QED BY <3>4, <3>5, <3>6
  <2> QED BY <2>1, <2>2
<1>7. Since' = Since
  <2>1. Since # None
    BY <1>3, PaperConstants
  <2> QED BY <1>2, <2>1 DEF Since
<1>8. /\ market' \in Markets /\ now' \in Ticks /\ bars' \in 0..LatestClosed(now)'
      /\ resumes' \in Nat /\ registered' \in (0..now)' \cup {None}
  BY <1>1, <1>2, <1>3, <1>4 DEF EngineInv, LatestClosed, Closed
<1>9. registered' # None
  BY <1>2, <1>3, PaperConstants
<1>10. \A b \in Books : BookOK(book'[b], Since', bars', now', resumes', market'.dividend)
  BY <1>2, <1>6, <1>7
<1> QED BY <1>6, <1>8, <1>9, <1>10 DEF EngineInv

\* A pause only pauses.
LEMMA PauseKeeps ==
  EngineInv /\ Pause => EngineInv'
<1>1. SUFFICES ASSUME EngineInv, Pause PROVE EngineInv'
  OBVIOUS
<1>2. /\ registered # None
      /\ book' = [b \in Books |-> [book[b] EXCEPT !.paused = TRUE]]
      /\ market' = market /\ now' = now /\ registered' = registered /\ bars' = bars
      /\ resumes' = resumes
  BY <1>1 DEF Pause
<1>3. ASSUME NEW b \in Books
      PROVE  BookOK([book[b] EXCEPT !.paused = TRUE], Since, bars, now, resumes, market.dividend)
  <2> DEFINE bk == book[b]
             c == [bk EXCEPT !.paused = TRUE]
  <2>1. bk \in BookType /\ BookOK(bk, Since, bars, now, resumes, market.dividend)
    BY <1>1 DEF EngineInv
  <2> HIDE DEF bk
  <2>2. /\ c \in BookType /\ c.paused = TRUE /\ c.pending = bk.pending /\ c.log = bk.log
        /\ c.seen = bk.seen /\ c.pos = bk.pos /\ c.day = bk.day /\ c.dayStart = bk.dayStart
        /\ c.began = bk.began /\ c.cash = bk.cash /\ c.mark = bk.mark /\ c.high = bk.high
        /\ c.breached = bk.breached /\ c.eased = bk.eased
    BY <2>1 DEF BookType
  <2> HIDE DEF c
  <2>3. OrdersOK(c, Since, bars, now, resumes) /\ UnitsOK(c) /\ SeenOK(c, Since, bars, now)
    BY <2>1, <2>2 DEF BookOK, OrdersOK, UnitsOK, SeenOK
  <2>4. CreditsOK(c, market.dividend)
    BY <2>1, <2>2 DEF BookOK, CreditsOK
  <2>5. LimitsOK(c)
    <3>1. Equity(c) = Equity(bk)
      BY <2>2 DEF Equity
    <3>2. c.paused
      BY <2>2
    <3>3. LimitsOK(bk)
      BY <2>1 DEF BookOK
    <3>4. c.breached = Fell(c.high, Equity(c), MaxDrawdown)
      BY <2>2, <3>1, <3>3, Zenon DEF LimitsOK
    <3> QED BY <3>2, <3>4, Zenon DEF LimitsOK
  <2>6. ~Late => DaysOK(c, bars)
    BY <2>1, <2>2 DEF BookOK, DaysOK
  <2> QED BY <2>2, <2>3, <2>4, <2>5, <2>6 DEF BookOK, c, bk
<1>4. book' \in [Books -> BookType]
  <2>1. \A b \in Books : [book[b] EXCEPT !.paused = TRUE] \in BookType
    BY <1>3 DEF BookOK
  <2> QED BY <1>2, <2>1
<1>5. \A b \in Books : BookOK(book'[b], Since', bars', now', resumes', market'.dividend)
  <2>1. Since' = Since
    BY <1>2 DEF Since
  <2> QED BY <1>2, <1>3, <2>1
<1>6. /\ market' \in Markets /\ now' \in Ticks /\ bars' \in 0..LatestClosed(now)'
      /\ resumes' \in Nat /\ registered' \in (0..now)' \cup {None}
  BY <1>1, <1>2 DEF EngineInv, LatestClosed, Closed
<1> QED BY <1>2, <1>4, <1>5, <1>6 DEF EngineInv

\* A resume is refused while a book is breached, so it leaves no drawdown unpaused.
LEMMA ResumeKeeps ==
  EngineInv /\ Resume => EngineInv'
<1>1. SUFFICES ASSUME EngineInv, Resume PROVE EngineInv'
  OBVIOUS
<1> DEFINE Eased(bk) == [bk EXCEPT !.paused = FALSE, !.pending = None, !.eased = TRUE]
<1>2. /\ registered # None /\ \A b \in Books : ~book[b].breached
      /\ book' = [b \in Books |-> Eased(book[b])]
      /\ market' = market /\ now' = now /\ registered' = registered /\ bars' = bars
      /\ resumes' = resumes + 1
  BY <1>1 DEF Resume
<1>3. ASSUME NEW b \in Books
      PROVE  BookOK(Eased(book[b]), Since, bars, now, resumes + 1, market.dividend)
  <2> DEFINE bk == book[b]
             c == Eased(bk)
  <2>1. bk \in BookType /\ BookOK(bk, Since, bars, now, resumes, market.dividend) /\ ~bk.breached
    BY <1>1, <1>2 DEF EngineInv
  <2> HIDE DEF bk
  <2>2. /\ c \in BookType /\ c.eased = TRUE /\ c.pending = None /\ c.log = bk.log
        /\ c.seen = bk.seen /\ c.pos = bk.pos /\ c.day = bk.day /\ c.dayStart = bk.dayStart
        /\ c.began = bk.began /\ c.cash = bk.cash /\ c.mark = bk.mark /\ c.high = bk.high
        /\ c.breached = bk.breached
    BY <2>1 DEF BookType
  <2> HIDE DEF c
  <2>3. OrdersOK(c, Since, bars, now, resumes + 1) /\ UnitsOK(c) /\ SeenOK(c, Since, bars, now)
    BY <2>1, <2>2 DEF BookOK, OrdersOK, UnitsOK, SeenOK
  <2>4. CreditsOK(c, market.dividend)
    BY <2>1, <2>2 DEF BookOK, CreditsOK
  <2>5. LimitsOK(c)
    <3>1. Equity(c) = Equity(bk)
      BY <2>2 DEF Equity
    <3>2. ~c.breached /\ c.eased
      BY <2>1, <2>2
    <3>3. LimitsOK(bk)
      BY <2>1 DEF BookOK
    <3>4. c.breached = Fell(c.high, Equity(c), MaxDrawdown)
      BY <2>2, <3>1, <3>3, Zenon DEF LimitsOK
    <3> QED BY <3>2, <3>4, Zenon DEF LimitsOK
  <2>6. ~Late => DaysOK(c, bars)
    BY <2>1, <2>2 DEF BookOK, DaysOK
  <2> QED BY <2>2, <2>3, <2>4, <2>5, <2>6 DEF BookOK, c, bk
<1>4. book' \in [Books -> BookType]
  <2>1. \A b \in Books : Eased(book[b]) \in BookType
    BY <1>3 DEF BookOK
  <2> QED BY <1>2, <2>1
<1> HIDE DEF Eased
<1>5. \A b \in Books : BookOK(book'[b], Since', bars', now', resumes', market'.dividend)
  <2>1. Since' = Since
    BY <1>2 DEF Since
  <2> QED BY <1>2, <1>3, <2>1
<1>6. /\ market' \in Markets /\ now' \in Ticks /\ bars' \in 0..LatestClosed(now)'
      /\ resumes' \in Nat /\ registered' \in (0..now)' \cup {None}
  BY <1>1, <1>2 DEF EngineInv, LatestClosed, Closed
<1> QED BY <1>2, <1>4, <1>5, <1>6 DEF EngineInv

\* Time closes sessions; nothing that was decided or filled depends on the later clock.
LEMMA TickKeeps ==
  EngineInv /\ Tick => EngineInv'
<1>1. SUFFICES ASSUME EngineInv, Tick PROVE EngineInv'
  OBVIOUS
<1>2. /\ now' = now + 1 /\ now + 1 \in Ticks /\ market' = market /\ registered' = registered
      /\ bars' = bars /\ book' = book /\ resumes' = resumes
  BY <1>1 DEF Tick, db
<1>3. /\ now \in Nat /\ resumes \in Nat /\ bars \in Nat /\ Since \in 0..now
      /\ bars <= LatestClosed(now) /\ LatestClosed(now) \in 0..LastSession
      /\ \A b \in Books : BookOK(book[b], Since, bars, now, resumes, market.dividend)
  BY <1>1, InvNumbers
<1>4. bars <= LatestClosed(now + 1)
  <2>1. /\ LatestClosed(now + 1) \in 0..LastSession /\ LastSession \in Nat
        /\ \A s \in Sessions : s <= LatestClosed(now + 1) <=> Closes(s) <= now + 1
    BY <1>3, ClosedIs, PaperConstants
  <2>2. \A s \in Sessions : s <= LatestClosed(now) <=> Closes(s) <= now
    BY <1>3, ClosedIs
  <2>3. CASE LatestClosed(now) = 0
    BY <1>3, <2>1, <2>3
  <2>4. CASE LatestClosed(now) # 0
    <3> DEFINE s == LatestClosed(now)
    <3>1. s \in Sessions
      BY <1>3, <2>1, <2>4 DEF Sessions
    <3>2. Closes(s) <= now /\ Closes(s) \in Int
      <4>1. s \in Int /\ s <= s
        BY <1>3
      <4> QED BY <2>2, <3>1, <4>1 DEF Closes
    <3>3. s <= LatestClosed(now + 1)
      BY <1>3, <2>1, <3>1, <3>2
    <3> QED BY <1>3, <2>1, <3>3
  <2> QED BY <2>3, <2>4
<1>5. \A b \in Books : BookOK(book[b], Since', bars, now + 1, resumes, market.dividend)
  <2>1. CASE registered = None
    <3>1. Since' = now + 1 /\ now + 1 \in Nat
      BY <1>2, <1>3, <2>1 DEF Since
    <3>2. bars = 0 /\ \A b \in Books : book[b] = Fresh
      BY <1>1, <2>1 DEF EngineInv
    <3>3. BookOK(Fresh, Since', 0, now + 1, resumes, market.dividend)
      BY <3>1, FreshKeeps
    <3> QED BY <3>2, <3>3
  <2>2. CASE registered # None
    <3>1. Since' = Since
      BY <1>2, <2>2 DEF Since
    <3>2. ASSUME NEW b \in Books
          PROVE  BookOK(book[b], Since, bars, now + 1, resumes, market.dividend)
      <4>1. BookOK(book[b], Since, bars, now, resumes, market.dividend)
        BY <1>3
      <4>2. book[b] \in BookType
        BY <4>1 DEF BookOK
      <4>3. OrdersOK(book[b], Since, bars, now + 1, resumes)
        <5>1. now + 1 \in Nat /\ now <= now + 1 /\ bars <= bars
          BY <1>3
        <5>2. OrdersOK(book[b], Since, bars, now, resumes)
          BY <4>1 DEF BookOK
        <5> QED BY <1>3, <4>2, <5>1, <5>2, LaterOrders
      <4>4. SeenOK(book[b], Since, bars, now + 1)
        <5>1. \A s \in book[b].seen : Opens(s) \in Int /\ Opens(s) <= now
          BY <4>1, <4>2 DEF BookOK, SeenOK, BookType, Opens, Sessions
        <5> QED BY <1>3, <4>1, <5>1 DEF BookOK, SeenOK
      <4> QED BY <4>1, <4>3, <4>4 DEF BookOK
    <3> QED BY <3>1, <3>2
  <2> QED BY <2>1, <2>2
<1>6. /\ market' \in Markets /\ now' \in Ticks /\ bars' \in 0..LatestClosed(now)'
      /\ resumes' \in Nat /\ registered' \in (0..now)' \cup {None}
  <2>1. LatestClosed(now)' = LatestClosed(now + 1)
    BY <1>2 DEF LatestClosed, Closed
  <2>2. LatestClosed(now + 1) \in Nat
    BY <1>3, ClosedIs, PaperConstants
  <2>3. bars \in 0..LatestClosed(now + 1)
    BY <1>3, <1>4, <2>2
  <2>4. registered \in 0..(now + 1) \cup {None}
    BY <1>1, <1>3 DEF EngineInv
  <2> QED BY <1>1, <1>2, <2>1, <2>3, <2>4 DEF EngineInv
<1> QED BY <1>1, <1>2, <1>5, <1>6 DEF EngineInv

\* The invariant of the engine: of every book, whatever runs, pauses and resumes there
\* were and whatever the inputs they had (engine.py: run, pause, resume).
THEOREM EngineAlways == EngineSpec => []EngineInv
<1>1. EngineInit => EngineInv
  BY InitEngine
<1>2. EngineInv /\ [EngineNext]_engineVars => EngineInv'
  <2>1. SUFFICES ASSUME EngineInv, [EngineNext]_engineVars PROVE EngineInv'
    OBVIOUS
  <2>2. CASE Run
    BY <2>1, <2>2, RunKeeps
  <2>3. CASE Pause
    BY <2>1, <2>3, PauseKeeps
  <2>4. CASE Resume
    BY <2>1, <2>4, ResumeKeeps
  <2>5. CASE Tick
    BY <2>1, <2>5, TickKeeps
  <2>6. CASE UNCHANGED engineVars
    <3>1. /\ market' = market /\ now' = now /\ registered' = registered /\ bars' = bars
          /\ book' = book /\ resumes' = resumes
      BY <2>6 DEF engineVars, db
    <3>2. Since' = Since
      BY <3>1 DEF Since
    <3> QED BY <2>1, <3>1, <3>2 DEF EngineInv, LatestClosed, Closed
  <2> QED BY <2>1, <2>2, <2>3, <2>4, <2>5, <2>6 DEF EngineNext
<1> QED BY <1>1, <1>2, PTL DEF EngineSpec

------------------------------------------------------------------------------
(* What follows.                                                            *)

\* The invariant implies what the runs check.
LEMMA EngineProperties ==
  EngineInv => NextOpenOnly /\ DividendOnce /\ NeverBlocked /\ (~Late => LimitsHold)
<1>1. SUFFICES ASSUME EngineInv
               PROVE  NextOpenOnly /\ DividendOnce /\ NeverBlocked /\ (~Late => LimitsHold)
  OBVIOUS
<1>2. /\ MarketOK /\ now \in Nat /\ resumes \in Nat /\ bars \in Nat /\ Since \in 0..now
      /\ bars <= LatestClosed(now) /\ LatestClosed(now) \in 0..LastSession
      /\ \A b \in Books : BookOK(book[b], Since, bars, now, resumes, market.dividend)
  BY <1>1, InvNumbers
<1>3. \A b \in Books : book[b] \in BookType
  BY <1>2 DEF BookOK
<1>4. NextOpenOnly
  <2>1. SUFFICES ASSUME NEW b \in Books, NEW i \in Events(b, "fill")
                 PROVE  LET f == book[b].log[i]
                            d == f.decision IN
                        /\ f.session = d.session + 1 /\ Closes(d.session) > registered
                        /\ d.at < Opens(f.session) /\ d.at < f.observed
                        /\ f.at \in Opens(f.session)..(Opens(f.session) + Window)
                        /\ d.resumes = f.resumes /\ (f.paused => f.qty <= 0)
                        /\ \A j \in Events(b, "fill") :
                              book[b].log[j].session = f.session => i = j
    BY DEF NextOpenOnly
  <2> DEFINE bk == book[b]
             f == bk.log[i]
  <2>2. i \in DOMAIN bk.log /\ IsFill(f)
    BY DEF Events, IsFill
  <2>3. registered # None /\ Since = registered
    <3>1. CASE registered = None
      <4>1. bk = Fresh
        BY <1>1, <3>1 DEF EngineInv
      <4>2. bk.log = <<>>
        BY <4>1 DEF Fresh
      <4> QED BY <2>2, <4>2
    <3>2. CASE registered # None
      BY <3>2 DEF Since
    <3> QED BY <3>1, <3>2
  <2>4. FillOK(f, registered)
    BY <1>2, <2>2, <2>3 DEF BookOK, OrdersOK
  <2>5. f.at \in Nat /\ f.session \in Int /\ Opens(f.session) \in Int
    BY <1>3, <2>2, FillIs DEF Opens
  <2>6. f.at \in Opens(f.session)..(Opens(f.session) + Window)
    BY <2>4, <2>5, PaperConstants DEF FillOK
  <2>7. ASSUME NEW j \in Events(b, "fill"), bk.log[j].session = f.session PROVE i = j
    <3>1. j \in DOMAIN bk.log /\ IsFill(bk.log[j])
      BY DEF Events, IsFill
    <3> QED BY <1>2, <2>2, <2>7, <3>1 DEF BookOK, OrdersOK
  <2> QED BY <2>4, <2>6, <2>7 DEF FillOK
<1>5. DividendOnce
  <2>1. SUFFICES ASSUME NEW b \in Books, NEW s \in Sessions
                 PROVE  LET due == HeldBefore(book[b].log, s) * market.dividend[s]
                            credited == {i \in Events(b, "dividend") : book[b].log[i].session = s} IN
                        /\ \A i \in credited : book[b].log[i].qty = HeldBefore(book[b].log, s)
                        /\ Cardinality(credited) <= 1
                        /\ s <= bars /\ due # 0 => credited # {}
    BY DEF DividendOnce
  <2> DEFINE bk == book[b]
             credited == {i \in Events(b, "dividend") : book[b].log[i].session = s}
  <2>2. CreditsOK(bk, market.dividend) /\ bk \in BookType /\ s \in Nat
    BY <1>2, <1>3 DEF BookOK, Sessions
  <2>3. \A i : i \in credited <=> i \in DOMAIN bk.log /\ IsDividend(bk.log[i]) /\ bk.log[i].session = s
    BY DEF Events, IsDividend
  <2> HIDE DEF credited
  <2>4. \A i \in credited : bk.log[i].qty = HeldBefore(bk.log, s)
    BY <2>2, <2>3 DEF CreditsOK
  <2>5. Cardinality(credited) <= 1
    <3>1. CASE credited = {}
      BY <3>1, FS_EmptySet
    <3>2. CASE credited # {}
      <4>1. PICK i : i \in credited
        BY <3>2
      <4>2. \A j \in credited : j = i
        BY <2>2, <2>3, <4>1 DEF CreditsOK
      <4>3. credited = {i}
        BY <4>1, <4>2
      <4>4. Cardinality({i}) = 1
        BY FS_Singleton
      <4> QED BY <4>3, <4>4
    <3> QED BY <3>1, <3>2
  <2>6. ASSUME s <= bars, HeldBefore(bk.log, s) * market.dividend[s] # 0 PROVE credited # {}
    <3>1. CASE Closes(s) > Since
      <4>1. s \in bk.seen
        BY <1>2, <2>6, <3>1 DEF BookOK, SeenOK
      <4>2. PICK i \in DOMAIN bk.log : IsDividend(bk.log[i]) /\ bk.log[i].session = s
        BY <2>2, <2>6, <4>1 DEF CreditsOK
      <4> QED BY <2>3, <4>2
    <3>2. CASE ~(Closes(s) > Since)
      <4>1. ASSUME NEW n \in 1..Len(bk.log) PROVE Adds(bk.log[n], s) = 0
        <5>1. CASE IsFill(bk.log[n])
          <6>1. n \in DOMAIN bk.log
            BY <2>2, <4>1 DEF BookType
          <6>2. FillOK(bk.log[n], Since)
            BY <1>2, <5>1, <6>1 DEF BookOK, OrdersOK
          <6>3. bk.log[n].session \in Int /\ bk.log[n].decision.session \in Int
            BY <2>2, <5>1, <6>1, FillIs
          <6>4. Closes(bk.log[n].decision.session) > Closes(s)
            <7>1. Closes(bk.log[n].decision.session) > Since
              BY <6>2 DEF FillOK
            <7>2. Closes(bk.log[n].decision.session) \in Int /\ Closes(s) \in Int
              BY <2>2, <6>3 DEF Closes
            <7>3. Since \in Int
              BY <1>2
            <7> QED BY <3>2, <7>1, <7>2, <7>3
          <6>5. ~(bk.log[n].session < s)
            BY <2>2, <6>2, <6>3, <6>4 DEF FillOK, Closes
          <6> QED BY <6>5 DEF Adds
        <5>2. CASE ~IsFill(bk.log[n])
          BY <5>2 DEF Adds, IsFill
        <5> QED BY <5>1, <5>2
      <4>2. HeldBefore(bk.log, s) = 0
        BY <2>2, <4>1, HeldNothing DEF BookType
      <4>3. market.dividend[s] \in Nat
        BY <1>2 DEF MarketOK, Prices
      <4> QED BY <2>6, <4>2, <4>3
    <3> QED BY <3>1, <3>2
  <2> QED BY <2>4, <2>5, <2>6 DEF credited
<1>6. NeverBlocked
  <2>1. ASSUME NEW panel \in Panels, NEW q \in Quotes, Refused(panel, q) = "notNext" PROVE FALSE
    <3>1. /\ ~(panel < bars) /\ q # None /\ ~Stale(q)
          /\ \E b \in Books : NotNext(AtOpen(Valued(b, panel), q), q)
      BY <2>1 DEF Refused
    <3>2. PICK b \in Books : NotNext(AtOpen(Valued(b, panel), q), q)
      BY <3>1
    <3>3. now < Closes(q.session)
      BY <3>1 DEF Stale
    <3>4. panel \in Nat /\ panel <= LatestClosed(now) /\ bars <= panel
      <4>1. panel \in Nat /\ panel <= LatestClosed(now)
        BY <1>2, PanelIs
      <4> QED BY <1>2, <3>1, <4>1
    <3>5. ~Late => q.session = panel + 1
      BY <1>2, <3>3, PanelIs
    <3> DEFINE v == Valued(b, panel)
               o == AtOpen(v, q)
    <3>6. BookOK(v, Since, panel, now, resumes, market.dividend) /\ ~Missed(v) /\ Since \in Nat
      BY <1>2, <3>4, ValuedKeeps
    <3>7. NotNext(o, q)
      BY <3>2
    <3> HIDE DEF v
    <3>8. o.pending # None => o.pending = v.pending /\ InTime(v, q)
      BY <1>2, <3>3, <3>4, <3>5, <3>6, AtOpenKeeps
    <3> HIDE DEF o
    <3>9. v.pending # None /\ InTime(v, q) /\ v.pending.session # q.session - 1
      BY <3>7, <3>8 DEF NotNext
    <3>10. v \in BookType /\ DecisionOK(v.pending, Since, panel, now, resumes)
      BY <3>6, <3>9 DEF BookOK, OrdersOK
    <3>11. v.pending.session = q.session - 1
      BY <1>2, <3>3, <3>6, <3>9, <3>10, InTimeIsNext
    <3> QED BY <3>9, <3>11
  <2> QED BY <2>1 DEF NeverBlocked
<1>7. ASSUME ~Late PROVE LimitsHold
  <2>1. EngineTypes
    <3>1. registered \in Ticks \cup {None} /\ now \in Ticks
      <4>1. now \in Ticks /\ registered \in (0..now) \cup {None}
        BY <1>1 DEF EngineInv
      <4>2. Closes(LastSession) \in Int
        BY PaperConstants DEF Closes
      <4> QED BY <1>2, <4>1, <4>2 DEF Ticks
    <3>2. bars \in 0..LastSession
      BY <1>2, PaperConstants
    <3> QED BY <1>3, <3>1, <3>2 DEF EngineTypes, BookType
  <2>2. ASSUME NEW b \in Books
        PROVE  /\ Fell(book[b].high, Equity(book[b]), MaxDrawdown) => book[b].paused
               /\ book[b].day # None /\ ~book[b].eased
                  /\ Fell(book[b].began[book[b].day], Equity(book[b]), MaxDailyLoss)
                    => book[b].paused
    <3>1. LimitsOK(book[b]) /\ DaysOK(book[b], bars)
      BY <1>2, <1>7 DEF BookOK
    <3>2. Fell(book[b].high, Equity(book[b]), MaxDrawdown) => book[b].paused
      BY <3>1, Zenon DEF LimitsOK
    <3>3. ASSUME book[b].day # None, ~book[b].eased,
                 Fell(book[b].began[book[b].day], Equity(book[b]), MaxDailyLoss)
          PROVE  book[b].paused
      <4>1. book[b].began[book[b].day] = book[b].dayStart
        BY <3>1, <3>3 DEF DaysOK
      <4>2. Fell(book[b].dayStart, Equity(book[b]), MaxDailyLoss)
        BY <3>3, <4>1
      <4> QED BY <3>1, <3>3, <4>2, Zenon DEF LimitsOK
    <3> QED BY <3>2, <3>3
  <2> QED BY <2>1, <2>2 DEF LimitsHold
<1> QED BY <1>4, <1>5, <1>6, <1>7

\* Orders fill at the next opening or never: whatever ran, was paused or resumed, every fill
\* of every book is of the decision of the close before it, in its window, once
\* (engine.py: run, _expire_missed_decisions, _execute_quotes).
THEOREM NextOpenOnlyHolds == EngineSpec => []NextOpenOnly
<1>1. EngineInv => NextOpenOnly
  BY EngineProperties
<1> QED BY <1>1, EngineAlways, PTL

\* A dividend reaches a book once, for the units it held before the session's own fill, and
\* no later than the session's close is consumed (engine.py: apply_actions).
THEOREM DividendOnceHolds == EngineSpec => []DividendOnce
<1>1. EngineInv => DividendOnce
  BY EngineProperties
<1> QED BY <1>1, EngineAlways, PTL

\* Where no quote comes before the close of the day before, a book beyond a limit is paused
\* (engine.py: _risk): the day's start is that of its first valuation.
THEOREM LimitsHoldAlways ==
  ASSUME ~Late
  PROVE  EngineSpec => []LimitsHold
<1>1. EngineInv => LimitsHold
  BY EngineProperties
<1> QED BY <1>1, EngineAlways, PTL

\* No book's decision makes an opening's run refuse the quotes of all
\* (engine.py: _execute_quotes, "quote is not the next session of the frozen decision").
THEOREM NeverBlockedHolds == EngineSpec => []NeverBlocked
<1>1. EngineInv => NeverBlocked
  BY EngineProperties
<1> QED BY <1>1, EngineAlways, PTL

==============================================================================
