-------------------------- MODULE TrackSeal_proofs --------------------------
(***************************************************************************)
(* Proofs about TrackSeal, for any number of records, accounts, reports    *)
(* and requests: the chain of a record verifies, what is ended stays as it *)
(* was and what was public leaves a tombstone, the limits hold, and no     *)
(* record or link outlives what it is of, with the exceptions that the     *)
(* properties name.                                                        *)
(***************************************************************************)
EXTENDS TrackSeal, FiniteSetTheorems, WellFoundedInduction, TLAPS

------------------------------------------------------------------------------
(* The inductive invariant.                                                 *)

Acts == {"none", "open", "add", "end", "forget", "delete", "leave", "purge",
         "publish", "unpublish", "hide", "unhide"}

ReqState ==
    [act : Acts, pc : {"", "rows", "check", "write", "tomb", "delete"},
     who : Accounts \cup {None}, report : Reports \cup {None},
     seals : SUBSET Seals, keys : SUBSET (Seals \X Nat), ends : SUBSET Seals,
     count : Nat, pos : Nat, head : Hash, ops : Nat]

\* A request is at a point of its handler, and knows what that handler works on.
ReqOK(r) ==
    /\ r \in ReqState
    /\ r.act = "none" => r.pc = "" /\ r.seals = {}
    /\ r.act = "open" => r.pc = "check" /\ r.who \in Accounts /\ r.seals = {}
    /\ r.act = "add" => r.pc \in {"rows", "check", "write"}
    /\ r.act \in {"open", "add", "forget"} => r.report \in Reports
    /\ r.act \in {"end", "forget", "purge", "publish", "unpublish", "hide", "unhide"} =>
          r.pc = "write"
    /\ r.act \in {"delete", "leave"} => r.pc \in {"tomb", "delete"} /\ r.who \in Accounts
    /\ r.act \in {"add", "publish"} => \A s, t \in r.seals : s = t
    /\ r.ends \subseteq r.seals
    /\ \A k \in r.keys : k[1] \in r.seals

\* The rows are the n entries of a chain that ends in head.
Chain(rs, n, head) ==
    /\ \A u \in rs : u.pos \in 1..n
    /\ \A u, v \in rs : u.pos = v.pos => u = v
    /\ \A i \in 1..n : \E u \in rs : u.pos = i
    /\ \A u \in rs : IF u.pos = 1 THEN u.prev = <<>>
                     ELSE \E v \in rs : v.pos = u.pos - 1 /\ u.prev = EntryHash(v)
    /\ n > 0 /\ \E u \in rs : u.pos = n /\ head = EntryHash(u)

Lives(s) == seal[s].status \in {"open", "ended"}

DbShape ==
    /\ seal \in [Seals -> SealRow]
    /\ IsFiniteSet(uploads) /\ uploads \subseteq Upload
    /\ quota \in [Accounts -> Nat]
    /\ reports \subseteq Reports /\ accounts \subseteq Accounts
    /\ raced \subseteq Seals /\ late \subseteq Reports \cup Accounts

\* A record that was never opened has no row.
Fresh == \A s \in Seals : seal[s].status = "none" => seal[s] = NoSeal /\ Rows(s) = {}

RecordOK(s) ==
    /\ Lives(s) => Chain(Rows(s), seal[s].count, seal[s].head)
    /\ seal[s].status \in {"withdrawn", "gone"} => Rows(s) = {}
    /\ seal[s].status = "withdrawn" => seal[s].account = None
    /\ seal[s].published => Lives(s)

Records == \A s \in Seals \ raced : RecordOK(s)

\* The quota counts the records an account has opened.
Counted ==
    \A a \in accounts : /\ quota[a] = Cardinality({s \in Seals : seal[s].by = a})
                        /\ quota[a] <= MaxRecords

Public ==
    \A s, t \in Seals \ raced :
        s # t /\ seal[s].published /\ seal[t].published => seal[s].hash # seal[t].hash

Transacts(r) == r.act # "none" /\ r.pc # "check"

\* What a transaction has read of a record still holds.
Reading(r, s) ==
    /\ r.act = "add" => seal[s].status = "open" /\ r.head = seal[s].head
    /\ r.act = "add" /\ r.pc = "write" => r.pos = seal[s].count + 1
    /\ r.act = "end" => seal[s].status = "open"
    /\ Lives(s)
    /\ r.act = "forget" => (s \in r.ends <=> seal[s].status = "open")
    /\ r.act \in {"delete", "leave", "purge"} => \A u \in Rows(s) : Key(u) \in r.keys
    /\ r.pc = "delete" => (s \in r.ends <=> seal[s].since)
    /\ r.act = "purge" => seal[s].status = "ended" /\ ~seal[s].since

\* What is read again before it is written on: a record that is open with as many entries
\* as before is the one that was read.
Rereading(r, s) ==
    seal[s].status = "open" =>
        /\ seal[s].count >= r.count
        /\ seal[s].count = r.count => seal[s].head = r.head /\ r.pos = r.count + 1

Reads(r) ==
    \A s \in r.seals \ raced : IF Transacts(r) THEN Reading(r, s) ELSE Rereading(r, s)

\* Who publishes has seen no such operations public.
Publishing(r) ==
    r.act = "publish" =>
        \A s \in r.seals \ raced : \A t \in Seals \ (raced \cup {s}) :
            ~(seal[t].published /\ seal[t].hash = r.ops)

\* What a request is going to write of an account or a report exists, or has been noted;
\* what it is going to delete is no more than what it found, or that has been noted.
Named(r) ==
    /\ r.act = "open" => r.who \in accounts \cup late
    /\ r.act = "open" \/ (r.act = "add" /\ r.pc \in {"check", "write"}) =>
          r.report \in reports \cup late
    /\ r.act = "leave" =>
          \A s \in Seals \ raced :
              Lives(s) /\ seal[s].account = r.who => s \in r.seals \/ r.who \in late
    /\ r.act = "forget" =>
          \A u \in uploads : u.report = r.report =>
              Key(u) \in r.keys \/ r.report \in late \/ u.seal \in raced

Opened(r) == \A s \in r.seals : seal[s].status # "none"

Watched(r) == ReqOK(r) /\ Opened(r) /\ Reads(r) /\ Publishing(r) /\ Named(r)

Tables == DbShape /\ Fresh /\ Records /\ Counted /\ Public /\ NothingOrphaned

AtWork == {req[q] : q \in Procs}

SealInv ==
    /\ Tables
    /\ req = [q \in Procs |-> req[q]]
    /\ \A r \in AtWork : Watched(r)

\* What a step may do to a record: it is opened once, it stays open or ended with the
\* entries it has or, while it is open, with more of them, and it leaves a tombstone.
Evolves(s) ==
    /\ seal'[s].status = "open" =>
          /\ seal[s].status = "open"
          /\ \/ seal'[s].count = seal[s].count /\ seal'[s].head = seal[s].head
             \/ seal'[s].count > seal[s].count
    /\ seal[s].status = "ended" /\ seal'[s].status = "ended" =>
          seal'[s].head = seal[s].head /\ seal'[s].count = seal[s].count
    /\ seal[s].status \in {"withdrawn", "gone"} => seal'[s] = seal[s]
    /\ seal[s].since => seal'[s].since

Evolution == \A s \in Seals \ raced' : seal[s].status # "none" => Evolves(s)

\* A transaction of q touches the records it has read, unless that is noted.
Kept(q) ==
    \A s \in Seals \ raced' : seal[s].status # "none" /\ s \notin req[q].seals =>
        seal'[s] = seal[s] /\ Rows(s)' = Rows(s)

Lasting ==
    \A s \in Seals : seal[s].status # "none" =>
        seal'[s].status # "none" /\ seal'[s].by = seal[s].by

\* What is public after the step was, or q has just published it.
Published(q) ==
    \A s \in Seals \ raced' : seal'[s].published =>
        \/ seal[s].published /\ seal'[s].hash = seal[s].hash
        \/ req[q].act = "publish" /\ s \in req[q].seals /\ seal'[s].hash = req[q].ops

\* What the other requests have read, the step leaves or notes.
Noted(q) ==
    /\ late \subseteq late'
    /\ \A p \in Procs \ {q} :
          /\ req[p].act = "open" /\ req[p].who \in accounts => req[p].who \in accounts' \cup late'
          /\ req[p].report \in reports => req[p].report \in reports' \cup late'
          /\ req[p].act = "leave" => \A s \in Seals \ raced' :
                Lives(s)' /\ seal'[s].account = req[p].who =>
                    \/ Lives(s) /\ seal[s].account = req[p].who
                    \/ req[p].who \in late'
          /\ req[p].act = "forget" => \A u \in uploads' :
                u.report = req[p].report => u \in uploads \/ req[p].report \in late'

Commits(q) ==
    /\ req' = [req EXCEPT ![q] = Idle]
    /\ raced \cup Beside(q, req[q].seals) \subseteq raced'
    /\ Evolution /\ Kept(q) /\ Lasting /\ Published(q) /\ Noted(q)

------------------------------------------------------------------------------
(* Numbers of entries.                                                      *)

LEMMA Smallest ==
  ASSUME NEW T \in SUBSET Nat, T # {}
  PROVE  \E n \in T : \A m \in T : n <= m
<1>1. PICK n \in T : \A m \in T : ~(<<m, n>> \in OpToRel(<, Nat))
  BY NatLessThanWellFounded, WFMin
<1>2. \A m \in T : ~(m < n)
  BY <1>1 DEF OpToRel
<1> QED BY <1>2

\* A finite set of numbers has a largest: the more a bound leaves out, the fewer are left.
LEMMA Largest ==
  ASSUME NEW T \in SUBSET Nat, T # {}, IsFiniteSet(T)
  PROVE  \E n \in T : \A m \in T : m <= n
<1> DEFINE From(k) == {m \in T : k <= m}
           Left == {Cardinality(From(k)) : k \in Nat}
<1>1. \A k \in Nat : IsFiniteSet(From(k)) /\ Cardinality(From(k)) \in Nat
  <2> TAKE k \in Nat
  <2>1. From(k) \in SUBSET T
    OBVIOUS
  <2>2. IsFiniteSet(From(k))
    BY <2>1, FS_Subset
  <2> QED BY <2>2, FS_CardinalityType
<1>2. Left \in SUBSET Nat /\ Left # {}
  BY <1>1
<1>3. PICK c \in Left : \A d \in Left : c <= d
  <2> HIDE DEF Left
  <2> QED BY <1>2, Smallest
<1>4. PICK k \in Nat : c = Cardinality(From(k))
  OBVIOUS
<1>5. From(k) = {}
  <2> SUFFICES ASSUME NEW x \in From(k) PROVE FALSE
    OBVIOUS
  <2>1. x \in T /\ x \in Nat /\ k <= x
    OBVIOUS
  <2>2. \A m \in T : m \in Nat /\ (x + 1 <= m => k <= m)
    BY <2>1
  <2>3. From(x + 1) \in SUBSET From(k) /\ x \notin From(x + 1)
    <3>1. ASSUME NEW m \in From(x + 1) PROVE m \in From(k) /\ m # x
      <4>1. m \in T /\ x + 1 <= m
        OBVIOUS
      <4>2. m \in Nat /\ k <= m
        BY <4>1, <2>2
      <4> QED BY <2>1, <4>1, <4>2
    <3> HIDE DEF From
    <3> QED BY <3>1
  <2>4. x + 1 \in Nat
    BY <2>1
  <2>5. Cardinality(From(x + 1)) \in Left
    BY <2>4
  <2> HIDE DEF From, Left
  <2>6. IsFiniteSet(From(k))
    BY <1>1
  <2>7. /\ Cardinality(From(x + 1)) <= c
        /\ Cardinality(From(k)) = Cardinality(From(x + 1)) => From(k) = From(x + 1)
    BY <2>3, <2>6, <1>4, FS_Subset
  <2>8. Cardinality(From(x + 1)) = c
    <3>1. Cardinality(From(x + 1)) \in Nat /\ c \in Nat
      BY <2>4, <1>1, <1>4
    <3>2. c <= Cardinality(From(x + 1))
      BY <1>3, <2>5
    <3> QED BY <3>1, <3>2, <2>7
  <2> QED BY <2>3, <2>7, <2>8, <1>4
<1> DEFINE Bounds == {b \in Nat : \A m \in T : m <= b}
<1>6. k \in Bounds
  <2> SUFFICES ASSUME NEW m \in T PROVE m <= k
    OBVIOUS
  <2>1. m \notin From(k)
    BY <1>5
  <2> QED BY <2>1
<1>7. PICK b \in Bounds : \A d \in Bounds : b <= d
  <2>1. Bounds \in SUBSET Nat /\ Bounds # {}
    BY <1>6
  <2> HIDE DEF Bounds
  <2> QED BY <2>1, Smallest
<1>8. b \in T
  <2> SUFFICES ASSUME b \notin T PROVE FALSE
    OBVIOUS
  <2>1. \A m \in T : m \in Nat /\ m < b
    OBVIOUS
  <2>2. b \in Nat /\ b > 0
    <3>1. b \in Nat
      BY <1>7
    <3>2. PICK m \in T : TRUE
      OBVIOUS
    <3> QED BY <2>1, <3>1, <3>2
  <2>3. b - 1 \in Nat /\ \A m \in T : m <= b - 1
    BY <2>1, <2>2
  <2>4. b - 1 \in Bounds
    BY <2>3
  <2> QED BY <2>2, <2>4, <1>7
<1> QED BY <1>8

LEMMA LastRowIsOne ==
  ASSUME DbShape, NEW s, Rows(s) # {}
  PROVE  /\ LastRow(s) \in Rows(s)
         /\ \A v \in Rows(s) : v.pos <= LastRow(s).pos
<1> DEFINE T == {u.pos : u \in Rows(s)}
           pos == [u \in Rows(s) |-> u.pos]
<1>1. /\ Rows(s) \in SUBSET uploads /\ IsFiniteSet(uploads)
      /\ \A u \in Rows(s) : u.pos \in Nat
  BY DEF Rows, DbShape, Upload
<1>2. IsFiniteSet(Rows(s))
  BY <1>1, FS_Subset
<1>3. pos \in Surjection(Rows(s), T)
  BY DEF Surjection
<1>4. IsFiniteSet(T)
  <2> HIDE DEF pos, T
  <2> QED BY <1>2, <1>3, FS_Surjection
<1>5. T \in SUBSET Nat /\ T # {}
  BY <1>1
<1>6. PICK n \in T : \A m \in T : m <= n
  <2> HIDE DEF T
  <2> QED BY <1>4, <1>5, Largest
<1>7. \E u \in Rows(s) : \A v \in Rows(s) : v.pos <= u.pos
  BY <1>6
<1> QED BY <1>7 DEF LastRow

\* A record has a number that none of its rows has.
LEMMA EntryIsRow ==
  ASSUME DbShape, NEW s \in Seals, NEW pos \in Nat, NEW r \in Reports, NEW prev \in Hash
  PROVE  /\ Entry(s, pos, r, prev) \in Upload
         /\ Entry(s, pos, r, prev).seal = s /\ Entry(s, pos, r, prev).pos = pos
         /\ Entry(s, pos, r, prev).report = r /\ Entry(s, pos, r, prev).prev = prev
         /\ EntryHash(Entry(s, pos, r, prev)) = Append(prev, Ops[r])
         /\ EntryHash(Entry(s, pos, r, prev)) \in Hash
<1> DEFINE ids == {u.id : u \in Rows(s)}
           id == [u \in Rows(s) |-> u.id]
           n == Cardinality(Rows(s))
<1>1. Rows(s) \in SUBSET uploads /\ IsFiniteSet(uploads)
  BY DEF Rows, DbShape
<1>2. IsFiniteSet(Rows(s)) /\ n \in Nat
  BY <1>1, FS_Subset, FS_CardinalityType
<1>3. id \in Surjection(Rows(s), ids)
  BY DEF Surjection
<1>4. IsFiniteSet(ids) /\ Cardinality(ids) <= n
  <2> HIDE DEF id, ids
  <2> QED BY <1>2, <1>3, FS_Surjection
<1>5. \E i \in 1..(n + 1) : \A u \in Rows(s) : u.id # i
  <2> SUFFICES ASSUME 1..(n + 1) \in SUBSET ids PROVE FALSE
    OBVIOUS
  <2>1. Cardinality(1..(n + 1)) = n + 1
    <3> HIDE DEF n
    <3>1. 1 \in Int /\ n + 1 \in Int /\ ~(1 > n + 1)
      BY <1>2
    <3> QED BY <3>1, <1>2, FS_Interval
  <2>2. Cardinality(1..(n + 1)) <= Cardinality(ids) /\ Cardinality(ids) \in Nat
    <3> HIDE DEF ids, n
    <3> QED BY <1>4, FS_Subset, FS_CardinalityType
  <2> HIDE DEF n
  <2> QED BY <1>2, <1>4, <2>1, <2>2
<1> DEFINE i == CHOOSE i \in 1..(n + 1) : \A u \in Rows(s) : u.id # i
<1>6. i \in 1..(n + 1)
  BY <1>5
<1>7. i \in Nat
  <2> HIDE DEF i, n
  <2> QED BY <1>2, <1>6
<1>8. Entry(s, pos, r, prev) = [seal |-> s, pos |-> pos, report |-> r, ops |-> Ops[r],
                                prev |-> prev, id |-> i]
  BY DEF Entry
<1> HIDE DEF i
<1>9. Ops[r] \in Nat /\ Append(prev, Ops[r]) \in Hash
  BY SealConstants DEF Hash
<1> QED BY <1>7, <1>8, <1>9 DEF Upload, EntryHash

------------------------------------------------------------------------------
(* Chains.                                                                  *)

LEMMA ChainEnds ==
  ASSUME DbShape, NEW s, NEW n \in Nat, NEW head, Chain(Rows(s), n, head)
  PROVE  /\ Rows(s) # {} /\ Cardinality(Rows(s)) = n
         /\ LastRow(s) \in Rows(s) /\ LastRow(s).pos = n /\ head = EntryHash(LastRow(s))
<1> DEFINE pos == [u \in Rows(s) |-> u.pos]
<1>1. /\ Rows(s) \in SUBSET uploads /\ IsFiniteSet(uploads)
      /\ \A u \in Rows(s) : u.pos \in Nat
  BY DEF Rows, DbShape, Upload
<1>2. IsFiniteSet(Rows(s))
  BY <1>1, FS_Subset
<1>3. pos \in Bijection(Rows(s), 1..n)
  BY DEF Chain, Bijection, Injection, Surjection, IsInjective
<1>4. Cardinality(1..n) = n
  <2>1. 1 \in Int /\ n \in Int
    OBVIOUS
  <2>2. Cardinality(1..n) = IF 1 > n THEN 0 ELSE n - 1 + 1
    BY <2>1, FS_Interval
  <2> QED BY <2>2
<1>5. Cardinality(Rows(s)) = n
  <2> HIDE DEF pos
  <2>1. ExistsBijection(Rows(s), 1..n)
    BY <1>3 DEF ExistsBijection
  <2> QED BY <1>2, <1>4, <2>1, FS_Bijection
<1>6. PICK u \in Rows(s) : u.pos = n /\ head = EntryHash(u)
  BY DEF Chain
<1>7. LastRow(s) \in Rows(s) /\ n <= LastRow(s).pos
  BY <1>6, LastRowIsOne
<1>8. LastRow(s).pos = n
  BY <1>7 DEF Chain
<1> QED BY <1>5, <1>6, <1>7, <1>8 DEF Chain

LEMMA ChainStarts ==
  ASSUME NEW u, u.pos = 1, u.prev = <<>>
  PROVE  Chain({u}, 1, EntryHash(u))
BY DEF Chain

LEMMA ChainGrows ==
  ASSUME NEW rs, NEW n \in Nat, NEW head, Chain(rs, n, head),
         NEW u, u.pos = n + 1, u.prev = head
  PROVE  Chain(rs \cup {u}, n + 1, EntryHash(u))
<1> DEFINE e == EntryHash(u)
           Before(v) == IF v.pos = 1 THEN v.prev = <<>>
                        ELSE \E w \in rs \cup {u} : w.pos = v.pos - 1 /\ v.prev = EntryHash(w)
<1>1. /\ \A v \in rs : v.pos \in 1..n
      /\ \A v, w \in rs : v.pos = w.pos => v = w
      /\ \A i \in 1..n : \E v \in rs : v.pos = i
      /\ n > 0
  BY DEF Chain
<1>2. \A v \in rs \cup {u} : v.pos \in 1..(n + 1)
  BY <1>1
<1>3. \A v, w \in rs \cup {u} : v.pos = w.pos => v = w
  BY <1>1
<1>4. \A i \in 1..(n + 1) : \E v \in rs \cup {u} : v.pos = i
  <2> TAKE i \in 1..(n + 1)
  <2>1. CASE i = n + 1
    BY <2>1
  <2>2. CASE i # n + 1
    BY <1>1, <2>2
  <2> QED BY <2>1, <2>2
<1>5. ASSUME NEW v \in rs PROVE Before(v)
  BY DEF Chain
<1>6. Before(u)
  <2>1. PICK w \in rs : w.pos = n /\ head = EntryHash(w)
    BY DEF Chain
  <2> QED BY <1>1, <2>1
<1>7. \A v \in rs \cup {u} : Before(v)
  BY <1>5, <1>6
<1>8. n + 1 > 0 /\ \E v \in rs \cup {u} : v.pos = n + 1 /\ e = EntryHash(v)
  BY <1>1
<1> QED BY <1>2, <1>3, <1>4, <1>7, <1>8 DEF Chain

\* Deleting the report of an entry leaves the chain as it is.
LEMMA ChainForgets ==
  ASSUME NEW rs, NEW n \in Nat, NEW head, Chain(rs, n, head), NEW ts,
         NEW f, f \in [rs -> ts], \A t \in ts : \E u \in rs : t = f[u],
         \A u \in rs : f[u].pos = u.pos /\ f[u].prev = u.prev /\ f[u].ops = u.ops
  PROVE  Chain(ts, n, head)
<1>1. \A u \in rs : EntryHash(f[u]) = EntryHash(u)
  BY DEF EntryHash
<1> DEFINE Before(v, qs) == IF v.pos = 1 THEN v.prev = <<>>
                            ELSE \E w \in qs : w.pos = v.pos - 1 /\ v.prev = EntryHash(w)
<1>2. ASSUME NEW t \in ts PROVE Before(t, ts)
  <2>1. PICK u \in rs : t = f[u]
    OBVIOUS
  <2>2. Before(u, rs)
    BY DEF Chain
  <2>3. CASE u.pos = 1
    BY <2>1, <2>2, <2>3
  <2>4. CASE u.pos # 1
    <3>1. PICK w \in rs : w.pos = u.pos - 1 /\ u.prev = EntryHash(w)
      BY <2>2, <2>4
    <3>2. f[w] \in ts /\ f[w].pos = u.pos - 1 /\ u.prev = EntryHash(f[w])
      BY <3>1, <1>1
    <3> QED BY <2>1, <2>4, <3>2
  <2> QED BY <2>3, <2>4
<1>3. \A t \in ts : t.pos \in 1..n
  BY DEF Chain
<1>4. ASSUME NEW t \in ts, NEW v \in ts, t.pos = v.pos PROVE t = v
  <2>1. PICK u \in rs : t = f[u]
    OBVIOUS
  <2>2. PICK w \in rs : v = f[w]
    OBVIOUS
  <2>3. u.pos = w.pos
    BY <1>4, <2>1, <2>2
  <2>4. u = w
    BY <2>3 DEF Chain
  <2> QED BY <2>1, <2>2, <2>4
<1>5. \A i \in 1..n : \E t \in ts : t.pos = i
  <2> TAKE i \in 1..n
  <2>1. PICK u \in rs : u.pos = i
    BY DEF Chain
  <2> QED BY <2>1
<1>6. n > 0 /\ \E t \in ts : t.pos = n /\ head = EntryHash(t)
  <2>1. PICK u \in rs : u.pos = n /\ head = EntryHash(u)
    BY DEF Chain
  <2>2. n > 0
    BY DEF Chain
  <2> QED BY <1>1, <2>1, <2>2
<1> QED BY <1>2, <1>3, <1>4, <1>5, <1>6 DEF Chain

------------------------------------------------------------------------------
(* Steps of the requests.                                                   *)

LEMMA IdleWatched == Watched(Idle)
<1>1. Idle = [act |-> "none", pc |-> "", who |-> None, report |-> None, seals |-> {},
              keys |-> {}, ends |-> {}, count |-> 0, pos |-> 0, head |-> <<>>, ops |-> 0]
  BY DEF Idle
<1>2. <<>> \in Hash
  BY DEF Hash
<1>3. ReqOK(Idle)
  BY <1>1, <1>2 DEF ReqOK, ReqState, Acts
<1>4. Opened(Idle) /\ Reads(Idle) /\ Publishing(Idle) /\ Named(Idle)
  BY <1>1 DEF Opened, Reads, Publishing, Named
<1> QED BY <1>3, <1>4 DEF Watched

LEMMA WatchedStays ==
  ASSUME NEW r, Watched(r), UNCHANGED <<db, raced, late>>
  PROVE  Watched(r)'
<1>1. /\ seal' = seal /\ uploads' = uploads /\ quota' = quota /\ reports' = reports
      /\ accounts' = accounts /\ raced' = raced /\ late' = late
  BY DEF db
<1>2. ReqOK(r)'
  BY DEF Watched, ReqOK, ReqState
<1>3. Opened(r)'
  BY <1>1 DEF Watched, Opened
<1>4. Reads(r)'
  BY <1>1 DEF Watched, Reads, Transacts, Reading, Rereading, Lives, Rows, Key
<1>5. Publishing(r)'
  BY <1>1 DEF Watched, Publishing
<1>6. Named(r)'
  BY <1>1 DEF Watched, Named, Lives, Key
<1> QED BY <1>2, <1>3, <1>4, <1>5, <1>6 DEF Watched

LEMMA TablesStay ==
  ASSUME Tables, UNCHANGED <<db, raced, late>>
  PROVE  Tables'
<1>1. /\ seal' = seal /\ uploads' = uploads /\ quota' = quota /\ reports' = reports
      /\ accounts' = accounts /\ raced' = raced /\ late' = late
  BY DEF db
<1>2. DbShape'
  BY <1>1 DEF Tables, DbShape
<1>3. Fresh'
  BY <1>1 DEF Tables, Fresh, Rows
<1>4. Records'
  BY <1>1 DEF Tables, Records, RecordOK, Lives, Rows
<1>5. Counted'
  BY <1>1 DEF Tables, Counted
<1>6. Public'
  BY <1>1 DEF Tables, Public
<1>7. NothingOrphaned'
  BY <1>1 DEF Tables, NothingOrphaned, Rows
<1> QED BY <1>2, <1>3, <1>4, <1>5, <1>6, <1>7 DEF Tables

\* A step that changes a request only.
LEMMA MoveStep ==
  ASSUME SealInv, NEW q \in Procs, NEW new, Watched(new),
         req' = [req EXCEPT ![q] = new], UNCHANGED <<db, raced, late>>
  PROVE  SealInv' /\ Evolution
<1>1. Tables'
  BY TablesStay DEF SealInv
<1>2. req' = [p \in Procs |-> req'[p]] /\ \A p \in Procs : req'[p] = new \/ req'[p] = req[p]
  BY DEF SealInv
<1>3. ASSUME NEW r \in AtWork' PROVE Watched(r)'
  <2>1. r = new \/ r \in AtWork
    BY <1>2 DEF AtWork
  <2>2. Watched(r)
    BY <2>1 DEF SealInv
  <2> QED BY <2>2, WatchedStays
<1>4. Evolution
  <2>1. seal' = seal
    BY DEF db
  <2> QED BY <2>1 DEF Evolution, Evolves
<1> QED BY <1>1, <1>2, <1>3, <1>4 DEF SealInv

\* Of a record that q has not to do with, or that p only reads again, p knows what it knew.
LEMMA ReadsStay ==
  ASSUME SealInv, NEW q \in Procs, NEW p \in Procs \ {q}, Commits(q), Tables',
         NEW r, r = req[p]
  PROVE  Reads(r)'
<1> SUFFICES ASSUME NEW s \in r.seals, s \notin raced'
             PROVE  (IF Transacts(r) THEN Reading(r, s) ELSE Rereading(r, s))'
  BY DEF Reads, Transacts
<1>1. Watched(r) /\ r \in ReqState
  <2>1. Watched(r)
    BY DEF SealInv, AtWork
  <2> QED BY <2>1 DEF Watched, ReqOK
<1>2. s \in Seals /\ s \notin raced /\ seal[s].status # "none"
  BY <1>1 DEF Watched, Opened, Commits, ReqState
<1>3. DbShape
  BY DEF SealInv, Tables
<1>4. CASE Transacts(r)
  <2>1. Reading(r, s)
    BY <1>1, <1>2, <1>4 DEF Watched, Reads
  <2>2. s \notin req[q].seals
    BY <1>4 DEF Transacts, Commits, Beside, InTransaction
  <2>3. seal'[s] = seal[s] /\ Rows(s)' = Rows(s)
    BY <1>2, <2>2 DEF Commits, Kept
  <2>4. Reading(r, s)'
    BY <2>1, <2>3 DEF Reading, Lives, Key
  <2> QED BY <1>4, <2>4 DEF Transacts
<1>5. CASE ~Transacts(r)
  <2>1. Rereading(r, s)
    BY <1>1, <1>2, <1>5 DEF Watched, Reads
  <2>2. Evolves(s)
    BY <1>2 DEF Commits, Evolution
  <2>3. seal[s].count \in Nat /\ r.count \in Nat
    BY <1>1, <1>2, <1>3 DEF DbShape, SealRow, ReqState
  <2>4. seal'[s].count \in Nat
    BY <1>2 DEF Tables, DbShape, SealRow
  <2>5. Rereading(r, s)'
    BY <2>1, <2>2, <2>3, <2>4 DEF Rereading, Evolves
  <2> QED BY <1>5, <2>5 DEF Transacts
<1> QED BY <1>4, <1>5

LEMMA PublishingStays ==
  ASSUME SealInv, NEW q \in Procs, NEW p \in Procs \ {q}, Commits(q), NEW r, r = req[p]
  PROVE  Publishing(r)'
<1> SUFFICES ASSUME r.act = "publish", NEW s \in r.seals, s \notin raced',
                    NEW t \in Seals, t \notin raced', s # t,
                    seal'[t].published, seal'[t].hash = r.ops
             PROVE  FALSE
  BY DEF Publishing
<1>1. Watched(r) /\ ReqOK(r)
  BY DEF SealInv, AtWork, Watched
<1>2. s \notin raced /\ t \notin raced
  BY DEF Commits
<1>3. CASE seal[t].published /\ seal'[t].hash = seal[t].hash
  BY <1>1, <1>2, <1>3 DEF Watched, Publishing
<1>4. CASE req[q].act = "publish" /\ t \in req[q].seals /\ seal'[t].hash = req[q].ops
  <2>1. InTransaction(p)
    BY <1>1 DEF ReqOK, InTransaction
  <2>2. req[p].act = "publish" /\ req[q].act = "publish" /\ req[p].ops = req[q].ops
    BY <1>4
  <2>3. t \in req[q].seals \cup req[p].seals
    BY <1>4
  <2>4. t \in Beside(q, req[q].seals)
    BY <2>1, <2>2, <2>3 DEF Beside
  <2> QED BY <2>4 DEF Commits
<1> QED BY <1>3, <1>4 DEF Commits, Published

LEMMA NamedStays ==
  ASSUME SealInv, NEW q \in Procs, NEW p \in Procs \ {q}, Commits(q), NEW r, r = req[p]
  PROVE  Named(r)'
<1>1. Watched(r) /\ Named(r)
  BY DEF SealInv, AtWork, Watched
<1>2. /\ late \subseteq late' /\ raced \subseteq raced'
      /\ r.act = "open" /\ r.who \in accounts => r.who \in accounts' \cup late'
      /\ r.report \in reports => r.report \in reports' \cup late'
      /\ r.act = "leave" => \A s \in Seals \ raced' :
            Lives(s)' /\ seal'[s].account = r.who =>
                \/ Lives(s) /\ seal[s].account = r.who
                \/ r.who \in late'
      /\ r.act = "forget" => \A u \in uploads' :
            u.report = r.report => u \in uploads \/ r.report \in late'
  BY DEF Commits, Noted
<1>3. /\ r.act = "open" => r.who \in accounts' \cup late'
      /\ r.act = "open" \/ (r.act = "add" /\ r.pc \in {"check", "write"}) =>
            r.report \in reports' \cup late'
  BY <1>1, <1>2 DEF Named
<1>4. ASSUME r.act = "leave", NEW s \in Seals, s \notin raced', Lives(s)', seal'[s].account = r.who
      PROVE  s \in r.seals \/ r.who \in late'
  BY <1>1, <1>2, <1>4 DEF Named
<1>5. ASSUME r.act = "forget", NEW u \in uploads', u.report = r.report
      PROVE  Key(u) \in r.keys \/ r.report \in late' \/ u.seal \in raced'
  BY <1>1, <1>2, <1>5 DEF Named
<1> QED BY <1>3, <1>4, <1>5 DEF Named, Key

\* A transaction that keeps to this, and leaves the tables in order.
LEMMA CommitStep ==
  ASSUME SealInv, NEW q \in Procs, Commits(q), Tables'
  PROVE  SealInv'
<1>1. req' = [p \in Procs |-> req'[p]] /\ \A p \in Procs : req'[p] = IF p = q THEN Idle ELSE req[p]
  BY DEF SealInv, Commits
<1>2. Watched(Idle)'
  <2>1. Watched(Idle)
    BY IdleWatched
  <2>2. Reads(Idle)' /\ Opened(Idle)' /\ Publishing(Idle)' /\ Named(Idle)'
    BY DEF Idle, Opened, Reads, Publishing, Named
  <2>3. ReqOK(Idle)'
    BY <2>1 DEF Watched, ReqOK, ReqState
  <2> QED BY <2>2, <2>3 DEF Watched
<1>3. ASSUME NEW r \in AtWork' PROVE Watched(r)'
  <2>1. PICK p \in Procs : r = req'[p]
    BY <1>3 DEF AtWork
  <2>2. CASE p = q
    BY <1>1, <1>2, <2>1, <2>2
  <2>3. CASE p # q
    <3>1. p \in Procs \ {q} /\ r = req[p]
      BY <1>1, <2>1, <2>3
    <3>2. Watched(r)
      BY <3>1 DEF SealInv, AtWork
    <3>3. ReqOK(r)'
      BY <3>2 DEF Watched, ReqOK, ReqState
    <3>4. Opened(r)'
      BY <3>2 DEF Watched, Opened, Commits, Lasting, ReqOK, ReqState
    <3>5. Reads(r)' /\ Publishing(r)' /\ Named(r)'
      BY <3>1, ReadsStay, PublishingStays, NamedStays
    <3> QED BY <3>3, <3>4, <3>5 DEF Watched
  <2> QED BY <2>2, <2>3
<1> QED BY <1>1, <1>3 DEF SealInv

------------------------------------------------------------------------------
(* The steps that only read.                                                *)

LEMMA OpenLookStep ==
  ASSUME SealInv, NEW q \in Procs, NEW r \in Reports, OpenLook(q, r)
  PROVE  SealInv' /\ Evolution
<1>0. PICK n : n = [Idle EXCEPT !.act = "open", !.pc = "check", !.who = OwnerOf[r],
                                !.report = r]
  OBVIOUS
<1>1. n =
         [act |-> "open", pc |-> "check", who |-> OwnerOf[r], report |-> r, seals |-> {},
          keys |-> {},
          ends |-> {}, count |-> 0, pos |-> 0, head |-> <<>>, ops |-> 0]
  BY <1>0 DEF Idle
<1>2. Start(q, n)
  BY <1>0 DEF OpenLook
<1>3. DbShape /\ Fresh /\ Records
  BY DEF SealInv, Tables
<1>4. ReqOK(n)
  BY <1>1, <1>3, SealConstants DEF OpenLook, ReqOK, ReqState, Acts, Hash, DbShape
<1>5. Opened(n)
  BY <1>1 DEF OpenLook, Opened, Mine, Exists
<1>6. Reads(n)
  BY <1>1 DEF Reads
<1>7. Publishing(n)
  BY <1>1 DEF Publishing
<1>8. Named(n)
  BY <1>1 DEF OpenLook, Named
<1>9. Watched(n)
  BY <1>4, <1>5, <1>6, <1>7, <1>8 DEF Watched
<1> QED BY <1>2, <1>9, MoveStep DEF Start

LEMMA AddLookStep ==
  ASSUME SealInv, NEW q \in Procs, NEW s \in Seals, NEW r \in Reports, AddLook(q, s, r)
  PROVE  SealInv' /\ Evolution
<1>0. PICK n : n = [Idle EXCEPT !.act = "add", !.pc = "rows", !.seals = {s}, !.report = r,
                                !.head = seal[s].head]
  OBVIOUS
<1>1. n =
         [act |-> "add", pc |-> "rows", who |-> None, report |-> r, seals |-> {s}, keys |-> {},
          ends |-> {}, count |-> 0, pos |-> 0, head |-> seal[s].head, ops |-> 0]
  BY <1>0 DEF Idle
<1>2. Start(q, n)
  BY <1>0 DEF AddLook
<1>3. DbShape /\ Fresh /\ Records
  BY DEF SealInv, Tables
<1>4. ReqOK(n)
  <2>1. seal[s].head \in Hash
    BY <1>3 DEF DbShape, SealRow
  <2> QED BY <1>1, <2>1 DEF ReqOK, ReqState, Acts
<1>5. Opened(n)
  BY <1>1 DEF AddLook, Opened, Mine, Exists
<1>6. Reads(n)
  BY <1>1, <1>3 DEF AddLook, Reads, Transacts, Reading, Lives
<1>7. Publishing(n)
  BY <1>1 DEF Publishing
<1>8. Named(n)
  BY <1>1 DEF Named
<1>9. Watched(n)
  BY <1>4, <1>5, <1>6, <1>7, <1>8 DEF Watched
<1> QED BY <1>2, <1>9, MoveStep DEF Start

LEMMA EndLookStep ==
  ASSUME SealInv, NEW q \in Procs, NEW s \in Seals, EndLook(q, s)
  PROVE  SealInv' /\ Evolution
<1>0. PICK n : n = [Idle EXCEPT !.act = "end", !.pc = "write", !.seals = {s}, !.ends = {s}]
  OBVIOUS
<1>1. n =
         [act |-> "end", pc |-> "write", who |-> None, report |-> None, seals |-> {s},
          keys |-> {},
          ends |-> {s}, count |-> 0, pos |-> 0, head |-> <<>>, ops |-> 0]
  BY <1>0 DEF Idle
<1>2. Start(q, n)
  BY <1>0 DEF EndLook
<1>3. DbShape /\ Fresh /\ Records
  BY DEF SealInv, Tables
<1>4. ReqOK(n)
  BY <1>1, <1>3, SealConstants DEF EndLook, ReqOK, ReqState, Acts, Hash, DbShape
<1>5. Opened(n)
  BY <1>1 DEF EndLook, Opened, Mine, Exists
<1>6. Reads(n)
  BY <1>1, <1>3 DEF EndLook, Reads, Transacts, Reading, Lives
<1>7. Publishing(n)
  BY <1>1 DEF Publishing
<1>8. Named(n)
  BY <1>1 DEF Named
<1>9. Watched(n)
  BY <1>4, <1>5, <1>6, <1>7, <1>8 DEF Watched
<1> QED BY <1>2, <1>9, MoveStep DEF Start

LEMMA HideLookStep ==
  ASSUME SealInv, NEW q \in Procs, NEW s \in Seals,
         NEW act \in {"hide", "unhide"}, HideLook(q, s, act)
  PROVE  SealInv' /\ Evolution
<1>0. PICK n : n = [Idle EXCEPT !.act = act, !.pc = "write", !.seals = {s}]
  OBVIOUS
<1>1. n =
         [act |-> act, pc |-> "write", who |-> None, report |-> None, seals |-> {s},
          keys |-> {},
          ends |-> {}, count |-> 0, pos |-> 0, head |-> <<>>, ops |-> 0]
  BY <1>0 DEF Idle
<1>2. Start(q, n)
  BY <1>0 DEF HideLook
<1>3. DbShape /\ Fresh /\ Records
  BY DEF SealInv, Tables
<1>4. ReqOK(n)
  BY <1>1, <1>3, SealConstants DEF HideLook, ReqOK, ReqState, Acts, Hash, DbShape
<1>5. Opened(n)
  BY <1>1 DEF HideLook, Opened, Mine, Exists
<1>6. Reads(n)
  BY <1>1, <1>3 DEF HideLook, Exists, Reads, Transacts, Reading, Lives, DbShape, SealRow
<1>7. Publishing(n)
  BY <1>1 DEF Publishing
<1>8. Named(n)
  BY <1>1 DEF Named
<1>9. Watched(n)
  BY <1>4, <1>5, <1>6, <1>7, <1>8 DEF Watched
<1> QED BY <1>2, <1>9, MoveStep DEF Start

LEMMA UnpublishLookStep ==
  ASSUME SealInv, NEW q \in Procs, NEW s \in Seals, UnpublishLook(q, s)
  PROVE  SealInv' /\ Evolution
<1>0. PICK n : n = [Idle EXCEPT !.act = "unpublish", !.pc = "write", !.seals = {s}]
  OBVIOUS
<1>1. n =
         [act |-> "unpublish", pc |-> "write", who |-> None, report |-> None, seals |-> {s},
          keys |-> {},
          ends |-> {}, count |-> 0, pos |-> 0, head |-> <<>>, ops |-> 0]
  BY <1>0 DEF Idle
<1>2. Start(q, n)
  BY <1>0 DEF UnpublishLook
<1>3. DbShape /\ Fresh /\ Records
  BY DEF SealInv, Tables
<1>4. ReqOK(n)
  BY <1>1, <1>3, SealConstants DEF UnpublishLook, ReqOK, ReqState, Acts, Hash, DbShape
<1>5. Opened(n)
  BY <1>1 DEF UnpublishLook, Opened, Mine, Exists
<1>6. Reads(n)
  <2>1. seal[s].published /\ (s \notin raced => RecordOK(s))
    BY <1>3 DEF UnpublishLook, Records
  <2> QED BY <1>1, <2>1 DEF Reads, Transacts, Reading, RecordOK
<1>7. Publishing(n)
  BY <1>1 DEF Publishing
<1>8. Named(n)
  BY <1>1 DEF Named
<1>9. Watched(n)
  BY <1>4, <1>5, <1>6, <1>7, <1>8 DEF Watched
<1> QED BY <1>2, <1>9, MoveStep DEF Start

LEMMA PublishLookStep ==
  ASSUME SealInv, NEW q \in Procs, NEW s \in Seals, PublishLook(q, s)
  PROVE  SealInv' /\ Evolution
<1>0. PICK n : n = [Idle EXCEPT !.act = "publish", !.pc = "write", !.seals = {s},
                                !.ops = LastRow(s).ops]
  OBVIOUS
<1>1. n =
         [act |-> "publish", pc |-> "write", who |-> None, report |-> None, seals |-> {s},
          keys |-> {},
          ends |-> {}, count |-> 0, pos |-> 0, head |-> <<>>, ops |-> LastRow(s).ops]
  BY <1>0 DEF Idle
<1>2. Start(q, n)
  BY <1>0 DEF PublishLook
<1>3. DbShape /\ Fresh /\ Records
  BY DEF SealInv, Tables
<1>4. ReqOK(n)
  <2>1. LastRow(s) \in Rows(s)
    BY <1>3, LastRowIsOne DEF PublishLook
  <2>2. LastRow(s).ops \in Nat
    BY <1>3, <2>1 DEF Rows, DbShape, Upload
  <2>3. <<>> \in Hash
    BY DEF Hash
  <2> QED BY <1>1, <2>2, <2>3 DEF ReqOK, ReqState, Acts
<1>5. Opened(n)
  BY <1>1 DEF PublishLook, Opened, Mine, Exists
<1>6. Reads(n)
  <2>1. seal[s].status # "withdrawn" /\ Exists(s)
    BY DEF PublishLook, Mine
  <2> QED BY <1>1, <1>3, <2>1 DEF Exists, Reads, Transacts, Reading, Lives, DbShape, SealRow
<1>7. Publishing(n)
  BY <1>1 DEF PublishLook, AlreadyPublic, Publishing
<1>8. Named(n)
  BY <1>1 DEF Named
<1>9. Watched(n)
  BY <1>4, <1>5, <1>6, <1>7, <1>8 DEF Watched
<1> QED BY <1>2, <1>9, MoveStep DEF Start

LEMMA ForgetLookStep ==
  ASSUME SealInv, NEW q \in Procs, NEW r \in Reports, ForgetLook(q, r)
  PROVE  SealInv' /\ Evolution
<1>0. PICK n : n = [Idle EXCEPT !.act = "forget", !.pc = "write", !.report = r,
                                !.seals = {u.seal : u \in LinkedTo(r)},
                                !.keys = {Key(u) : u \in LinkedTo(r)},
                                !.ends = {t \in {u.seal : u \in LinkedTo(r)} : seal[t].status = "open"}]
  OBVIOUS
<1>1. n =
         [act |-> "forget", pc |-> "write", who |-> None, report |-> r,
          seals |-> {u.seal : u \in LinkedTo(r)}, keys |-> {Key(u) : u \in LinkedTo(r)},
          ends |-> {t \in {u.seal : u \in LinkedTo(r)} : seal[t].status = "open"}, count |-> 0,
          pos |-> 0, head |-> <<>>, ops |-> 0]
  BY <1>0 DEF Idle
<1>2. Start(q, n)
  BY <1>0 DEF ForgetLook
<1>3. DbShape /\ Fresh /\ Records
  BY DEF SealInv, Tables
<1>4. ReqOK(n)
  <2>1. \A v \in uploads : v.seal \in Seals /\ Key(v) \in Seals \X Nat /\ Key(v)[1] = v.seal
    BY <1>3 DEF Key, DbShape, Upload
  <2>2. \A k \in n.keys : k \in Seals \X Nat /\ k[1] \in n.seals
    BY <1>1, <2>1 DEF LinkedTo
  <2>3. n.seals \subseteq Seals /\ n.ends \subseteq n.seals
    BY <1>1, <2>1 DEF LinkedTo
  <2>4. <<>> \in Hash
    BY DEF Hash
  <2>5. \A k \in n.keys : k[1] \in n.seals
    BY <2>2
  <2>6. n.keys \in SUBSET (Seals \X Nat) /\ n.ends \in SUBSET Seals /\ n.seals \in SUBSET Seals
    BY <2>2, <2>3
  <2> QED BY <1>1, <2>3, <2>4, <2>5, <2>6 DEF ReqOK, ReqState, Acts
<1>5. Opened(n)
  <2>1. \A s \in n.seals : s \in Seals /\ Rows(s) # {}
    BY <1>1, <1>3 DEF LinkedTo, Rows, DbShape, Upload
  <2> QED BY <1>3, <2>1 DEF Opened, Fresh
<1>6. Reads(n)
  <2> SUFFICES ASSUME NEW s \in n.seals, s \notin raced PROVE Reading(n, s)
    BY <1>1 DEF Reads, Transacts
  <2>1. s \in Seals /\ Rows(s) # {}
    BY <1>1, <1>3 DEF LinkedTo, Rows, DbShape, Upload
  <2>2. Lives(s)
    BY <1>3, <2>1 DEF Records, RecordOK, Fresh, Lives, DbShape, SealRow
  <2> QED BY <1>1, <2>2 DEF Reading
<1>7. Publishing(n)
  BY <1>1 DEF Publishing
<1>8. Named(n)
  <2>1. \A u \in uploads : u.report = n.report => Key(u) \in n.keys
    BY <1>1 DEF LinkedTo
  <2> QED BY <1>1, <2>1 DEF Named
<1>9. Watched(n)
  BY <1>4, <1>5, <1>6, <1>7, <1>8 DEF Watched
<1> QED BY <1>2, <1>9, MoveStep DEF Start

LEMMA DeleteLookStep ==
  ASSUME SealInv, NEW q \in Procs, NEW s \in Seals, DeleteLook(q, s)
  PROVE  SealInv' /\ Evolution
<1>a. PICK a \in Accounts : Mine(a, s) /\ Start(q, Withdrawing("delete", a, {s}))
  BY DEF DeleteLook
<1>0. PICK n : n = [Idle EXCEPT !.act = "delete", !.pc = "tomb", !.who = a, !.seals = {s},
                                !.keys = KeysOf({s})]
  OBVIOUS
<1>1. n =
         [act |-> "delete", pc |-> "tomb", who |-> a, report |-> None, seals |-> {s},
          keys |-> KeysOf({s}),
          ends |-> {}, count |-> 0, pos |-> 0, head |-> <<>>, ops |-> 0]
  BY <1>0 DEF Idle
<1>2. Start(q, n)
  BY <1>0, <1>a DEF Withdrawing
<1>3. DbShape /\ Fresh /\ Records
  BY DEF SealInv, Tables
<1>4. ReqOK(n)
  <2>1. \A v \in uploads : Key(v) \in Seals \X Nat /\ Key(v)[1] = v.seal
    BY <1>3 DEF Key, DbShape, Upload
  <2>2. n.seals \in SUBSET Seals
    BY <1>1
  <2>3. \A k \in n.keys : k \in Seals \X Nat /\ k[1] \in n.seals
    BY <1>1, <2>1 DEF KeysOf
  <2>4. <<>> \in Hash
    BY DEF Hash
  <2>5. n.keys \in SUBSET (Seals \X Nat) /\ \A k \in n.keys : k[1] \in n.seals
    BY <2>3
  <2> QED BY <1>1, <2>2, <2>4, <2>5 DEF ReqOK, ReqState, Acts
<1>5. Opened(n)
  BY <1>a, <1>1 DEF Opened, Mine, Exists
<1>6. Reads(n)
  <2> SUFFICES ASSUME NEW x \in n.seals, x \notin raced PROVE Reading(n, x)
    BY <1>1 DEF Reads, Transacts
  <2>1. Exists(x) /\ seal[x].account # None /\ x \in Seals
    BY <1>1, <1>a, SealConstants DEF Mine
  <2>2. RecordOK(x)
    BY <1>3, <2>1 DEF Records
  <2>3. Lives(x)
    BY <1>3, <2>1, <2>2 DEF RecordOK, Exists, Lives, DbShape, SealRow
  <2>4. \A u \in Rows(x) : Key(u) \in n.keys
    BY <1>1 DEF KeysOf, Rows
  <2> QED BY <1>1, <2>3, <2>4 DEF Reading
<1>7. Publishing(n)
  BY <1>1 DEF Publishing
<1>8. Named(n)
  BY <1>1 DEF Named
<1>9. Watched(n)
  BY <1>4, <1>5, <1>6, <1>7, <1>8 DEF Watched
<1> QED BY <1>2, <1>9, MoveStep DEF Start

LEMMA LeaveLookStep ==
  ASSUME SealInv, NEW q \in Procs, NEW a \in Accounts, LeaveLook(q, a)
  PROVE  SealInv' /\ Evolution
<1>0. PICK n : n = [Idle EXCEPT !.act = "leave", !.pc = "tomb", !.who = a,
                                !.seals = {t \in Seals : Exists(t) /\ seal[t].account = a},
                                !.keys = KeysOf({t \in Seals : Exists(t) /\ seal[t].account = a})]
  OBVIOUS
<1>1. n =
         [act |-> "leave", pc |-> "tomb", who |-> a, report |-> None,
          seals |-> {t \in Seals : Exists(t) /\ seal[t].account = a},
          keys |-> KeysOf({t \in Seals : Exists(t) /\ seal[t].account = a}),
          ends |-> {}, count |-> 0, pos |-> 0, head |-> <<>>, ops |-> 0]
  BY <1>0 DEF Idle
<1>2. Start(q, n)
  BY <1>0 DEF LeaveLook, Withdrawing
<1>3. DbShape /\ Fresh /\ Records
  BY DEF SealInv, Tables
<1>4. ReqOK(n)
  <2>1. \A v \in uploads : Key(v) \in Seals \X Nat /\ Key(v)[1] = v.seal
    BY <1>3 DEF Key, DbShape, Upload
  <2>2. n.seals \in SUBSET Seals
    BY <1>1
  <2>3. \A k \in n.keys : k \in Seals \X Nat /\ k[1] \in n.seals
    BY <1>1, <2>1 DEF KeysOf
  <2>4. <<>> \in Hash
    BY DEF Hash
  <2>5. n.keys \in SUBSET (Seals \X Nat) /\ \A k \in n.keys : k[1] \in n.seals
    BY <2>3
  <2> QED BY <1>1, <2>2, <2>4, <2>5 DEF ReqOK, ReqState, Acts
<1>5. Opened(n)
  BY <1>1 DEF Opened, Mine, Exists
<1>6. Reads(n)
  <2> SUFFICES ASSUME NEW x \in n.seals, x \notin raced PROVE Reading(n, x)
    BY <1>1 DEF Reads, Transacts
  <2>1. Exists(x) /\ seal[x].account # None /\ x \in Seals
    BY <1>1, SealConstants DEF Mine
  <2>2. RecordOK(x)
    BY <1>3, <2>1 DEF Records
  <2>3. Lives(x)
    BY <1>3, <2>1, <2>2 DEF RecordOK, Exists, Lives, DbShape, SealRow
  <2>4. \A u \in Rows(x) : Key(u) \in n.keys
    BY <1>1 DEF KeysOf, Rows
  <2> QED BY <1>1, <2>3, <2>4 DEF Reading
<1>7. Publishing(n)
  BY <1>1 DEF Publishing
<1>8. Named(n)
  BY <1>1 DEF Named, Lives, Exists
<1>9. Watched(n)
  BY <1>4, <1>5, <1>6, <1>7, <1>8 DEF Watched
<1> QED BY <1>2, <1>9, MoveStep DEF Start

LEMMA PurgeLookStep ==
  ASSUME SealInv, NEW q \in Procs, PurgeLook(q)
  PROVE  SealInv' /\ Evolution
<1>a. PICK ss \in SUBSET Purgeable :
         Start(q, [Idle EXCEPT !.act = "purge", !.pc = "write", !.seals = ss,
                               !.keys = KeysOf(ss)])
  BY DEF PurgeLook
<1>0. PICK n : n = [Idle EXCEPT !.act = "purge", !.pc = "write", !.seals = ss,
                                !.keys = KeysOf(ss)]
  OBVIOUS
<1>1. n =
         [act |-> "purge", pc |-> "write", who |-> None, report |-> None, seals |-> ss,
          keys |-> KeysOf(ss),
          ends |-> {}, count |-> 0, pos |-> 0, head |-> <<>>, ops |-> 0]
  BY <1>0 DEF Idle
<1>2. Start(q, n)
  BY <1>0, <1>a
<1>3. DbShape /\ Fresh /\ Records
  BY DEF SealInv, Tables
<1>4. ReqOK(n)
  <2>1. \A v \in uploads : Key(v) \in Seals \X Nat /\ Key(v)[1] = v.seal
    BY <1>3 DEF Key, DbShape, Upload
  <2>2. n.seals \in SUBSET Seals
    BY <1>1 DEF Purgeable
  <2>3. \A k \in n.keys : k \in Seals \X Nat /\ k[1] \in n.seals
    BY <1>1, <2>1 DEF KeysOf
  <2>4. <<>> \in Hash
    BY DEF Hash
  <2>5. n.keys \in SUBSET (Seals \X Nat) /\ \A k \in n.keys : k[1] \in n.seals
    BY <2>3
  <2> QED BY <1>1, <2>2, <2>4, <2>5 DEF ReqOK, ReqState, Acts
<1>5. Opened(n)
  BY <1>1 DEF Opened, Purgeable
<1>6. Reads(n)
  <2> SUFFICES ASSUME NEW s \in n.seals, s \notin raced PROVE Reading(n, s)
    BY <1>1 DEF Reads, Transacts
  <2>1. seal[s].status = "ended" /\ ~seal[s].since
    BY <1>1 DEF Purgeable
  <2>2. \A u \in Rows(s) : Key(u) \in n.keys
    BY <1>1 DEF KeysOf, Rows
  <2> QED BY <1>1, <2>1, <2>2 DEF Reading, Lives
<1>7. Publishing(n) /\ Named(n)
  BY <1>1 DEF Publishing, Named
<1>8. Watched(n)
  BY <1>4, <1>5, <1>6, <1>7 DEF Watched
<1> QED BY <1>2, <1>8, MoveStep DEF Start

LEMMA DiesStep ==
  ASSUME SealInv, NEW q \in Procs, Dies(q)
  PROVE  SealInv' /\ Evolution
BY IdleWatched, MoveStep DEF Dies, Goes

\* The rows that were read, and the record, are those of the record that is open.
LEMMA AddRowsStep ==
  ASSUME SealInv, NEW q \in Procs, AddRows(q)
  PROVE  SealInv' /\ Evolution
<1>1. PICK r : r = req[q]
  OBVIOUS
<1>2. PICK s \in r.seals :
        /\ r.act = "add" /\ r.pc = "rows"
        /\ IF /\ Rows(s) # {} /\ r.report \in reports
              /\ \A u \in Rows(s) : u.report # r.report
              /\ LastRow(s).ops < Ops[r.report]
           THEN Goes(q, [r EXCEPT !.pc = "check", !.pos = LastRow(s).pos + 1,
                                  !.count = Cardinality(Rows(s))])
           ELSE Goes(q, Idle)
        /\ UNCHANGED <<db, raced>>
  BY <1>1 DEF AddRows
<1>3. Watched(r) /\ DbShape /\ Records
  BY <1>1 DEF SealInv, AtWork, Tables
<1>4. CASE Goes(q, Idle)
  BY <1>2, <1>4, IdleWatched, MoveStep DEF Goes
<1>5. CASE /\ Rows(s) # {} /\ r.report \in reports
           /\ Goes(q, [r EXCEPT !.pc = "check", !.pos = LastRow(s).pos + 1,
                                !.count = Cardinality(Rows(s))])
  <2>1. r \in ReqState /\ ReqOK(r)
    BY <1>3 DEF Watched, ReqOK
  <2>2. s \in Seals /\ r.seals = {s}
    BY <2>1, <1>2 DEF ReqOK, ReqState
  <2>3. PICK n : n = [r EXCEPT !.pc = "check", !.pos = LastRow(s).pos + 1,
                               !.count = Cardinality(Rows(s))]
    OBVIOUS
  <2>4. LastRow(s).pos \in Nat /\ Cardinality(Rows(s)) \in Nat
    <3>1. Rows(s) \in SUBSET uploads /\ IsFiniteSet(uploads)
      BY <1>3 DEF Rows, DbShape
    <3>2. IsFiniteSet(Rows(s))
      BY <3>1, FS_Subset
    <3>3. LastRow(s) \in Rows(s)
      BY <1>3, <1>5, LastRowIsOne
    <3>4. LastRow(s).pos \in Nat
      BY <1>3, <3>3 DEF Rows, DbShape, Upload
    <3> QED BY <3>2, <3>4, FS_CardinalityType
  <2>5. /\ n.act = "add" /\ n.pc = "check" /\ n.report = r.report /\ n.seals = {s}
        /\ n.head = r.head /\ n.pos = LastRow(s).pos + 1 /\ n.count = Cardinality(Rows(s))
        /\ n.ends = r.ends /\ n.keys = r.keys
    BY <1>2, <2>1, <2>2, <2>3 DEF ReqState
  <2>6. ReqOK(n)
    <3>1. PICK i \in Nat : i = LastRow(s).pos + 1
      BY <2>4
    <3>2. n \in ReqState
      BY <2>1, <2>3, <2>4, <3>1 DEF ReqState
    <3> QED BY <1>2, <2>1, <2>2, <2>5, <3>2 DEF ReqOK
  <2>7. Opened(n)
    BY <1>3, <2>2, <2>5 DEF Watched, Opened
  <2>8. Reads(n)
    <3> SUFFICES ASSUME s \notin raced PROVE Rereading(n, s)
      BY <2>5 DEF Reads, Transacts
    <3>1. Reading(r, s)
      BY <1>2, <1>3 DEF Watched, Reads, Transacts
    <3>2. seal[s].status = "open" /\ r.head = seal[s].head
      BY <1>2, <3>1 DEF Reading
    <3>3. Chain(Rows(s), seal[s].count, seal[s].head)
      BY <1>3, <2>2, <3>2 DEF Records, RecordOK, Lives
    <3>4. seal[s].count \in Nat
      BY <1>3, <2>2 DEF DbShape, SealRow
    <3>5. Cardinality(Rows(s)) = seal[s].count /\ LastRow(s).pos = seal[s].count
      BY <1>3, <3>3, <3>4, ChainEnds
    <3> QED BY <2>5, <3>2, <3>4, <3>5 DEF Rereading
  <2>9. Publishing(n) /\ Named(n)
    BY <1>5, <2>5 DEF Publishing, Named
  <2>10. Watched(n)
    BY <2>6, <2>7, <2>8, <2>9 DEF Watched
  <2> QED BY <1>2, <1>5, <2>3, <2>10, MoveStep DEF Goes
<1> QED BY <1>2, <1>4, <1>5

LEMMA AddRecheckStep ==
  ASSUME SealInv, NEW q \in Procs, AddRecheck(q)
  PROVE  SealInv' /\ Evolution
<1>1. PICK r : r = req[q]
  OBVIOUS
<1>2. PICK s \in r.seals :
        /\ r.act = "add" /\ r.pc = "check"
        /\ Goes(q, IF AddGoesOn(q, s) THEN [r EXCEPT !.pc = "write"] ELSE Idle)
        /\ UNCHANGED <<db, raced>>
  BY <1>1 DEF AddRecheck
<1>3. Watched(r)
  BY <1>1 DEF SealInv, AtWork
<1>4. CASE ~AddGoesOn(q, s)
  BY <1>2, <1>4, IdleWatched, MoveStep DEF Goes
<1>5. CASE AddGoesOn(q, s)
  <2>1. r \in ReqState /\ ReqOK(r)
    BY <1>3 DEF Watched, ReqOK
  <2>2. s \in Seals /\ r.seals = {s}
    BY <2>1, <1>2 DEF ReqOK, ReqState
  <2>3. PICK n : n = [r EXCEPT !.pc = "write"]
    OBVIOUS
  <2>4. /\ n.act = "add" /\ n.pc = "write" /\ n.report = r.report /\ n.seals = {s}
        /\ n.head = r.head /\ n.pos = r.pos /\ n.ends = r.ends /\ n.keys = r.keys
    BY <1>2, <2>1, <2>2, <2>3 DEF ReqState
  <2>5. ReqOK(n)
    <3>1. n \in ReqState
      BY <2>1, <2>3 DEF ReqState
    <3> QED BY <1>2, <2>1, <2>2, <2>4, <3>1 DEF ReqOK
  <2>6. Opened(n)
    BY <1>3, <2>2, <2>4 DEF Watched, Opened
  <2>7. Reads(n)
    <3> SUFFICES ASSUME s \notin raced PROVE Reading(n, s)
      BY <2>4 DEF Reads, Transacts
    <3>1. Rereading(r, s)
      BY <1>2, <1>3 DEF Watched, Reads, Transacts
    <3>2. seal[s].status = "open" /\ seal[s].count = r.count
      BY <1>1, <1>5 DEF AddGoesOn
    <3> QED BY <2>4, <3>1, <3>2 DEF Reading, Rereading, Lives
  <2>8. Publishing(n) /\ Named(n)
    BY <1>2, <1>3, <2>4 DEF Watched, Publishing, Named
  <2>9. Watched(n)
    BY <2>5, <2>6, <2>7, <2>8 DEF Watched
  <2> QED BY <1>2, <1>5, <2>3, <2>9, MoveStep DEF Goes
<1> QED BY <1>4, <1>5

LEMMA TombStep ==
  ASSUME SealInv, NEW q \in Procs, Tomb(q)
  PROVE  SealInv' /\ Evolution
<1>1. PICK r : r = req[q]
  OBVIOUS
<1>2. PICK n : n = [r EXCEPT !.pc = "delete",
                             !.ends = {s \in r.seals : Exists(s) /\ seal[s].since}]
  OBVIOUS
<1>3. r.pc = "tomb" /\ Goes(q, n) /\ UNCHANGED <<db, raced>>
  BY <1>1, <1>2 DEF Tomb
<1>4. Watched(r)
  BY <1>1 DEF SealInv, AtWork
<1>5. r \in ReqState /\ ReqOK(r) /\ r.act \in {"delete", "leave"}
  BY <1>3, <1>4 DEF Watched, ReqOK, ReqState, Acts
<1>6. /\ n.act = r.act /\ n.pc = "delete" /\ n.who = r.who /\ n.seals = r.seals
      /\ n.keys = r.keys /\ n.ends = {s \in r.seals : Exists(s) /\ seal[s].since}
  BY <1>2, <1>5 DEF ReqState
<1>7. ReqOK(n)
  <2>1. n \in ReqState
    BY <1>2, <1>5 DEF ReqState
  <2> QED BY <1>5, <1>6, <2>1 DEF ReqOK
<1>8. Opened(n)
  BY <1>4, <1>6 DEF Watched, Opened
<1>9. Reads(n)
  <2> SUFFICES ASSUME NEW s \in n.seals, s \notin raced PROVE Reading(n, s)
    BY <1>5, <1>6 DEF Reads, Transacts
  <2>1. Reading(r, s)
    BY <1>3, <1>4, <1>5, <1>6 DEF Watched, Reads, Transacts
  <2> QED BY <1>5, <1>6, <2>1 DEF Reading, Lives, Exists
<1>10. Publishing(n) /\ Named(n)
  BY <1>4, <1>5, <1>6 DEF Watched, Publishing, Named
<1>11. Watched(n)
  BY <1>7, <1>8, <1>9, <1>10 DEF Watched
<1> QED BY <1>3, <1>11, MoveStep, <1>1 DEF Goes

------------------------------------------------------------------------------
(* What a commit leaves in order.                                           *)

LEMMA WatchedOne ==
  ASSUME SealInv, NEW q \in Procs, NEW r, r = req[q]
  PROVE  Watched(r) /\ ReqOK(r) /\ r \in ReqState
<1>1. Watched(r)
  BY DEF SealInv, AtWork
<1> QED BY <1>1 DEF Watched, ReqOK

LEMMA BesideShape ==
  ASSUME SealInv, NEW q \in Procs
  PROVE  Beside(q, req[q].seals) \subseteq Seals
<1>1. ASSUME NEW p \in Procs PROVE req[p].seals \subseteq Seals
  <2>1. PICK r : r = req[p]
    OBVIOUS
  <2>2. r \in ReqState
    BY <2>1, WatchedOne
  <2> QED BY <2>1, <2>2 DEF ReqState
<1> QED BY <1>1 DEF Beside

\* What a transaction commits on it has read, or that is noted.
LEMMA ReadStands ==
  ASSUME SealInv, NEW q \in Procs, NEW r, r = req[q], Transacts(r),
         raced \subseteq raced', NEW s \in r.seals, s \notin raced'
  PROVE  s \in Seals /\ Reading(r, s) /\ RecordOK(s) /\ seal[s].status # "none"
<1>1. Watched(r) /\ r \in ReqState
  BY WatchedOne
<1>2. s \in Seals /\ s \notin raced
  BY <1>1 DEF ReqState
<1> QED BY <1>1, <1>2 DEF Watched, Reads, Opened, SealInv, Tables, Records

LEMMA FreshStays ==
  ASSUME Fresh, Lasting,
         \A s \in Seals : seal[s].status = "none" /\ seal'[s].status = "none" => seal'[s] = seal[s],
         \A u \in uploads' : (\E v \in uploads : u.seal = v.seal) \/ seal'[u.seal].status # "none"
  PROVE  Fresh'
<1> SUFFICES ASSUME NEW s \in Seals, seal'[s].status = "none"
             PROVE  seal'[s] = NoSeal /\ Rows(s)' = {}
  BY DEF Fresh
<1>1. seal[s].status = "none"
  BY DEF Lasting
<1>2. seal[s] = NoSeal /\ Rows(s) = {}
  BY <1>1 DEF Fresh
<1> QED BY <1>1, <1>2 DEF Rows

LEMMA CountedStays ==
  ASSUME Counted, accounts' \subseteq accounts, \A a \in accounts' : quota'[a] = quota[a],
         \A s \in Seals : seal'[s].by = seal[s].by
  PROVE  Counted'
<1> SUFFICES ASSUME NEW a \in accounts'
             PROVE  /\ quota'[a] = Cardinality({s \in Seals : seal'[s].by = a})
                    /\ quota'[a] <= MaxRecords
  BY DEF Counted
<1>1. {s \in Seals : seal'[s].by = a} = {s \in Seals : seal[s].by = a}
  OBVIOUS
<1> QED BY <1>1 DEF Counted

\* Who publishes has not seen another record public on the same operations, and if another
\* has published on them meanwhile, that is noted.
LEMMA PublicStays ==
  ASSUME SealInv, NEW q \in Procs, raced \subseteq raced', Published(q)
  PROVE  Public'
<1>1. PICK r : r = req[q]
  OBVIOUS
<1>2. Watched(r) /\ ReqOK(r)
  BY <1>1, WatchedOne
<1> SUFFICES ASSUME NEW s \in Seals, NEW t \in Seals, s \notin raced', t \notin raced', s # t,
                    seal'[s].published, seal'[t].published, seal'[s].hash = seal'[t].hash
             PROVE  FALSE
  BY DEF Public
<1> DEFINE Was(x) == seal[x].published /\ seal'[x].hash = seal[x].hash
           Now(x) == r.act = "publish" /\ x \in r.seals /\ seal'[x].hash = r.ops
<1>3. (Was(s) \/ Now(s)) /\ (Was(t) \/ Now(t))
  BY <1>1 DEF Published
<1>4. s \notin raced /\ t \notin raced
  OBVIOUS
<1>5. CASE Was(s) /\ Was(t)
  BY <1>4, <1>5 DEF SealInv, Tables, Public
<1>6. CASE Was(s) /\ Now(t)
  BY <1>2, <1>4, <1>6 DEF Watched, Publishing
<1>7. CASE Now(s) /\ Was(t)
  BY <1>2, <1>4, <1>7 DEF Watched, Publishing
<1>8. CASE Now(s) /\ Now(t)
  BY <1>2, <1>8 DEF ReqOK
<1> QED BY <1>3, <1>5, <1>6, <1>7, <1>8

\* No row and no account is touched.
LEMMA NotedStays ==
  ASSUME NEW q, late \subseteq late', accounts' = accounts, reports' = reports,
         uploads' \subseteq uploads,
         \A s \in Seals \ raced' : Lives(s)' => Lives(s) /\ seal'[s].account = seal[s].account
  PROVE  Noted(q)
BY DEF Noted, Lives

------------------------------------------------------------------------------
(* Ending, publishing, hiding.                                              *)

LEMMA EndedRecords ==
  ASSUME SealInv, NEW q \in Procs, NEW s \in Seals
  PROVE  /\ s \in req[q].ends /\ Exists(s) =>
               Ended(q)[s] = [status |-> "ended", account |-> seal[s].account,
               by |-> seal[s].by,
                  count |-> seal[s].count, head |-> seal[s].head,
                  published |-> seal[s].published,
                  since |-> seal[s].since, hash |-> seal[s].hash, hidden |-> seal[s].hidden]
         /\ ~(s \in req[q].ends /\ Exists(s)) => Ended(q)[s] = seal[s]
         /\ Ended(q)[s] \in SealRow
<1>1. seal[s] \in SealRow
  BY DEF SealInv, Tables, DbShape
<1> QED BY <1>1 DEF Ended, SealRow

LEMMA EndStep ==
  ASSUME SealInv, NEW q \in Procs, EndWrite(q)
  PROVE  SealInv' /\ Evolution
<1>1. PICK r : r = req[q]
  OBVIOUS
<1>2. Watched(r) /\ ReqOK(r) /\ r \in ReqState
  BY <1>1, WatchedOne
<1>3. /\ r.act = "end" /\ Transacts(r) /\ r.ends \subseteq r.seals /\ r.seals \subseteq Seals
      /\ seal' = Ended(q) /\ uploads' = uploads /\ quota' = quota /\ reports' = reports
      /\ accounts' = accounts /\ late' = late /\ raced \subseteq raced'
      /\ req' = [req EXCEPT ![q] = Idle] /\ raced' = raced \cup Beside(q, req[q].seals)
  BY <1>1, <1>2 DEF EndWrite, Commit, ReqOK, Transacts, ReqState
<1>4. seal' \in [Seals -> SealRow]
  <2>1. seal' = [s \in Seals |-> Ended(q)[s]]
    BY <1>3 DEF Ended
  <2> QED BY <2>1, EndedRecords
<1>5. \A s \in Seals :
        /\ s \in r.ends /\ Exists(s) => seal'[s].status = "ended"
        /\ ~(s \in r.ends /\ Exists(s)) => seal'[s] = seal[s]
        /\ seal'[s].by = seal[s].by /\ seal'[s].account = seal[s].account
        /\ seal'[s].count = seal[s].count /\ seal'[s].head = seal[s].head
        /\ seal'[s].published = seal[s].published /\ seal'[s].since = seal[s].since
        /\ seal'[s].hash = seal[s].hash
  <2> TAKE s \in Seals
  <2>1. CASE s \in r.ends /\ Exists(s)
    <3>1. seal'[s] = [status |-> "ended", account |-> seal[s].account, by |-> seal[s].by,
             count |-> seal[s].count, head |-> seal[s].head, published |-> seal[s].published,
             since |-> seal[s].since, hash |-> seal[s].hash, hidden |-> seal[s].hidden]
      BY <1>1, <1>3, <2>1, EndedRecords
    <3> QED BY <2>1, <3>1
  <2>2. CASE ~(s \in r.ends /\ Exists(s))
    BY <1>1, <1>3, <2>2, EndedRecords
  <2> QED BY <2>1, <2>2
<1>6. \A s \in Seals \ raced' : s \in r.ends => seal[s].status = "open" /\ Lives(s)
  BY <1>1, <1>3, ReadStands DEF Reading
<1>7. Tables /\ DbShape
  BY DEF SealInv, Tables
<1>8. Lasting
  BY <1>5 DEF Lasting, Exists
<1>9. Commits(q)
  <2>1. Evolution
    BY <1>5, <1>6 DEF Evolution, Evolves, Exists
  <2>2. Kept(q)
    BY <1>1, <1>3, <1>5 DEF Kept, Rows
  <2>3. Published(q)
    BY <1>5 DEF Published
  <2>4. Noted(q)
    BY <1>3, <1>5, <1>6, NotedStays DEF Lives
  <2> QED BY <1>3, <1>8, <2>1, <2>2, <2>3, <2>4 DEF Commits
<1>10. Tables'
  <2>1. DbShape'
    <3>1. raced' \subseteq Seals
      BY <1>3, <1>7, BesideShape DEF DbShape
    <3> QED BY <1>3, <1>4, <1>7, <3>1 DEF DbShape
  <2>2. Fresh'
    BY <1>3, <1>5, <1>7, <1>8, FreshStays DEF Tables, Exists
  <2>3. Records'
    BY <1>3, <1>5, <1>6, <1>7 DEF Tables, Records, RecordOK, Lives, Rows
  <2>4. Counted'
    BY <1>3, <1>5, <1>7, CountedStays DEF Tables
  <2>5. Public'
    BY <1>3, <1>9, PublicStays DEF Commits
  <2>6. NothingOrphaned'
    BY <1>3, <1>5, <1>6, <1>7 DEF Tables, NothingOrphaned, Rows
  <2> QED BY <2>1, <2>2, <2>3, <2>4, <2>5, <2>6 DEF Tables
<1> QED BY <1>9, <1>10, CommitStep DEF Commits

LEMMA ShownRecord ==
  ASSUME NEW s, seal[s] \in SealRow, NEW q, req[q].ops \in Nat,
         req[q].act \in {"publish", "unpublish", "hide", "unhide"}
  PROVE  /\ Shown(q, s) \in SealRow
         /\ Shown(q, s).status = seal[s].status /\ Shown(q, s).account = seal[s].account
         /\ Shown(q, s).by = seal[s].by /\ Shown(q, s).count = seal[s].count
         /\ Shown(q, s).head = seal[s].head /\ (seal[s].since => Shown(q, s).since)
         /\ Shown(q, s).published =>
               \/ seal[s].published /\ Shown(q, s).hash = seal[s].hash
               \/ req[q].act = "publish" /\ Shown(q, s).hash = req[q].ops
<1>1. PICK t : t = seal[s]
  OBVIOUS
<1>2. PICK ops : ops = req[q].ops
  OBVIOUS
<1>3. CASE req[q].act = "publish"
  <2>1. Shown(q, s) = [t EXCEPT !.published = TRUE, !.since = TRUE, !.hash = ops]
    BY <1>1, <1>2, <1>3 DEF Shown
  <2> QED BY <1>1, <1>2, <1>3, <2>1 DEF SealRow
<1>4. CASE req[q].act = "unpublish"
  <2>1. Shown(q, s) = [t EXCEPT !.published = FALSE]
    BY <1>1, <1>4 DEF Shown
  <2> QED BY <1>1, <1>4, <2>1 DEF SealRow
<1>5. CASE req[q].act \in {"hide", "unhide"}
  <2>1. PICK b \in BOOLEAN : b = (req[q].act = "hide")
    OBVIOUS
  <2>2. Shown(q, s) = [t EXCEPT !.hidden = b]
    BY <1>1, <1>5, <2>1 DEF Shown
  <2> QED BY <1>1, <1>5, <2>2 DEF SealRow
<1> QED BY <1>3, <1>4, <1>5

LEMMA ShowStep ==
  ASSUME SealInv, NEW q \in Procs, ShowWrite(q)
  PROVE  SealInv' /\ Evolution
<1>1. PICK r : r = req[q]
  OBVIOUS
<1>2. Watched(r) /\ ReqOK(r) /\ r \in ReqState
  BY <1>1, WatchedOne
<1>3. PICK x \in r.seals :
        /\ r.act \in {"publish", "unpublish", "hide", "unhide"}
        /\ seal' = [seal EXCEPT ![x] = IF Exists(x) THEN Shown(q, x) ELSE @]
        /\ uploads' = uploads /\ quota' = quota /\ reports' = reports /\ accounts' = accounts
        /\ late' = late /\ raced \subseteq raced'
        /\ req' = [req EXCEPT ![q] = Idle] /\ raced' = raced \cup Beside(q, req[q].seals)
  BY <1>1 DEF ShowWrite, Commit
<1>4. Transacts(r) /\ x \in Seals /\ r.ops \in Nat
  BY <1>2, <1>3 DEF ReqOK, ReqState, Transacts
<1>5. Tables /\ DbShape
  BY DEF SealInv, Tables
<1>6. /\ seal' \in [Seals -> SealRow]
      /\ \A s \in Seals :
            /\ s # x => seal'[s] = seal[s]
            /\ seal'[s].status = seal[s].status /\ seal'[s].by = seal[s].by
            /\ seal'[s].account = seal[s].account
            /\ seal'[s].count = seal[s].count /\ seal'[s].head = seal[s].head
            /\ seal[s].since => seal'[s].since
            /\ ~Exists(s) => seal'[s] = seal[s]
            /\ seal'[s].published =>
                  \/ seal[s].published /\ seal'[s].hash = seal[s].hash
                  \/ r.act = "publish" /\ s = x /\ seal'[s].hash = r.ops
  <2>1. seal \in [Seals -> SealRow]
    BY <1>5 DEF DbShape
  <2>2. CASE Exists(x)
    <3>1. PICK new : new = Shown(q, x)
      OBVIOUS
    <3>2. /\ new \in SealRow
          /\ new.status = seal[x].status /\ new.account = seal[x].account
          /\ new.by = seal[x].by /\ new.count = seal[x].count
          /\ new.head = seal[x].head /\ (seal[x].since => new.since)
          /\ new.published => \/ seal[x].published /\ new.hash = seal[x].hash
                              \/ r.act = "publish" /\ new.hash = r.ops
      BY <1>1, <1>3, <1>4, <2>1, <3>1, ShownRecord
    <3>3. seal' = [seal EXCEPT ![x] = new]
      BY <1>3, <2>2, <3>1
    <3> QED BY <1>4, <2>1, <2>2, <3>2, <3>3
  <2>3. CASE ~Exists(x)
    <3>1. seal' = seal
      BY <1>3, <2>1, <2>3
    <3> QED BY <2>1, <3>1
  <2> QED BY <2>2, <2>3
<1>7. x \notin raced' => Lives(x)
  BY <1>1, <1>3, <1>4, ReadStands DEF Reading
<1>8. Lasting
  BY <1>6 DEF Lasting
<1>9. Commits(q)
  <2>1. Evolution
    <3> SUFFICES ASSUME NEW s \in Seals, s \notin raced' PROVE Evolves(s)
      BY DEF Evolution
    <3>1. CASE s # x
      BY <1>6, <3>1 DEF Evolves
    <3>2. CASE s = x
      BY <1>6, <1>7, <3>2 DEF Evolves, Lives
    <3> QED BY <3>1, <3>2
  <2>2. Kept(q)
    BY <1>1, <1>3, <1>6 DEF Kept, Rows
  <2>3. Published(q)
    BY <1>1, <1>3, <1>6 DEF Published
  <2>4. Noted(q)
    BY <1>3, <1>6, NotedStays DEF Lives
  <2> QED BY <1>3, <1>8, <2>1, <2>2, <2>3, <2>4 DEF Commits
<1>10. Tables'
  <2>1. DbShape'
    <3>1. raced' \subseteq Seals
      BY <1>3, <1>5, BesideShape DEF DbShape
    <3> QED BY <1>3, <1>5, <1>6, <3>1 DEF DbShape
  <2>2. Fresh'
    BY <1>3, <1>5, <1>6, <1>8, FreshStays DEF Tables, Exists
  <2>3. Records'
    <3> SUFFICES ASSUME NEW s \in Seals, s \notin raced' PROVE RecordOK(s)'
      BY DEF Records
    <3>1. RecordOK(s) /\ Rows(s)' = Rows(s)
      BY <1>3, <1>5 DEF Tables, Records, Rows
    <3>2. Lives(s)' <=> Lives(s)
      BY <1>6 DEF Lives
    <3>3. seal'[s].published => Lives(s)
      BY <1>6, <1>7, <3>1 DEF RecordOK
    <3> QED BY <1>6, <3>1, <3>2, <3>3 DEF RecordOK
  <2>4. Counted'
    BY <1>3, <1>5, <1>6, CountedStays DEF Tables
  <2>5. Public'
    BY <1>3, <1>9, PublicStays DEF Commits
  <2>6. NothingOrphaned'
    BY <1>3, <1>5, <1>6 DEF Tables, NothingOrphaned, Rows
  <2> QED BY <2>1, <2>2, <2>3, <2>4, <2>5, <2>6 DEF Tables
<1> QED BY <1>9, <1>10, CommitStep DEF Commits

------------------------------------------------------------------------------
(* Opening a record and adding to it.                                       *)

LEMMA DoomedShape ==
  ASSUME SealInv, NEW q \in Procs
  PROVE  Doomed(q) \subseteq Reports \cup Accounts
<1>1. ASSUME NEW p \in Procs
      PROVE  /\ req[p].act = "forget" => req[p].report \in Reports
             /\ req[p].act = "leave" => req[p].who \in Accounts
  <2>1. PICK r : r = req[p]
    OBVIOUS
  <2>2. ReqOK(r)
    BY <2>1, WatchedOne
  <2> QED BY <2>1, <2>2 DEF ReqOK
<1> QED BY <1>1 DEF Doomed

LEMMA TablesRelax ==
  ASSUME Tables, UNCHANGED db, raced \subseteq raced', late \subseteq late',
         raced' \subseteq Seals, late' \subseteq Reports \cup Accounts
  PROVE  Tables'
<1>1. /\ seal' = seal /\ uploads' = uploads /\ quota' = quota /\ reports' = reports
      /\ accounts' = accounts
  BY DEF db
<1>2. DbShape'
  BY <1>1 DEF Tables, DbShape
<1>3. Fresh'
  BY <1>1 DEF Tables, Fresh, Rows
<1>4. Records'
  BY <1>1 DEF Tables, Records, RecordOK, Lives, Rows
<1>5. Counted'
  BY <1>1 DEF Tables, Counted
<1>6. Public'
  BY <1>1 DEF Tables, Public
<1>7. NothingOrphaned'
  BY <1>1 DEF Tables, NothingOrphaned, Rows
<1> QED BY <1>2, <1>3, <1>4, <1>5, <1>6, <1>7 DEF Tables

LEMMA OpenRefused ==
  ASSUME SealInv, NEW q \in Procs, OpenWrite(q), UNCHANGED <<seal, uploads, quota>>
  PROVE  SealInv' /\ Evolution
<1>1. /\ seal' = seal /\ uploads' = uploads /\ quota' = quota /\ reports' = reports
      /\ accounts' = accounts /\ req' = [req EXCEPT ![q] = Idle]
      /\ raced' = raced \cup Beside(q, req[q].seals) /\ late' = late \cup Doomed(q)
  BY DEF OpenWrite, Commit
<1>2. Tables'
  <2>1. Tables /\ raced \subseteq Seals /\ late \subseteq Reports \cup Accounts
    BY DEF SealInv, Tables, DbShape
  <2>2. raced' \subseteq Seals /\ late' \subseteq Reports \cup Accounts
    BY <1>1, <2>1, BesideShape, DoomedShape
  <2>3. UNCHANGED db
    BY <1>1 DEF db
  <2> QED BY <1>1, <2>1, <2>2, <2>3, TablesRelax
<1>3. Evolution /\ Kept(q) /\ Lasting /\ Published(q)
  BY <1>1 DEF Evolution, Evolves, Kept, Rows, Lasting, Published
<1>4. Noted(q)
  BY <1>1, NotedStays DEF Lives
<1>5. Commits(q)
  BY <1>1, <1>3, <1>4 DEF Commits
<1> QED BY <1>2, <1>3, <1>5, CommitStep

LEMMA OpenGranted ==
  ASSUME SealInv, NEW q \in Procs, OpenWrite(q), TakeQuota(req[q].who), NEW s \in Seals,
         seal[s].status = "none",
         seal' = [seal EXCEPT ![s] =
            [NoSeal EXCEPT !.status = "open", !.account = req[q].who, !.by = req[q].who,
                           !.count = 1, !.head = <<Ops[req[q].report]>>]],
         uploads' = uploads \cup {Entry(s, 1, req[q].report, <<>>)}
  PROVE  SealInv' /\ Evolution
<1>1. PICK x : x = req[q]
  OBVIOUS
<1>2. Watched(x) /\ ReqOK(x) /\ x \in ReqState
  BY <1>1, WatchedOne
<1>3. PICK a : a = x.who
  OBVIOUS
<1>4. PICK r : r = x.report
  OBVIOUS
<1>5. /\ quota[a] < MaxRecords /\ quota' = [quota EXCEPT ![a] = @ + 1]
      /\ reports' = reports /\ accounts' = accounts /\ req' = [req EXCEPT ![q] = Idle]
      /\ raced' = raced \cup Beside(q, req[q].seals) /\ late' = late \cup Doomed(q)
      /\ x.act = "open"
  BY <1>1, <1>3 DEF OpenWrite, Commit, TakeQuota
<1>6. /\ a \in Accounts /\ r \in Reports /\ a # None
      /\ a \in accounts \cup late /\ r \in reports \cup late
  BY <1>2, <1>3, <1>4, <1>5, SealConstants DEF ReqOK, Watched, Named
<1>7. Tables /\ DbShape /\ Fresh
  BY DEF SealInv, Tables
<1>8. seal[s] = NoSeal /\ Rows(s) = {} /\ Ops[r] \in Nat /\ <<Ops[r]>> \in Hash /\ <<>> \in Hash
  BY <1>6, <1>7, SealConstants DEF Fresh, Hash
<1>9. PICK new : new = [NoSeal EXCEPT !.status = "open", !.account = a, !.by = a,
                                      !.count = 1, !.head = <<Ops[r]>>]
  OBVIOUS
<1>10. new = [status |-> "open", account |-> a, by |-> a, count |-> 1, head |-> <<Ops[r]>>,
              published |-> FALSE, since |-> FALSE, hash |-> 0, hidden |-> FALSE]
  BY <1>9 DEF NoSeal
<1>11. seal' = [seal EXCEPT ![s] = new]
  BY <1>1, <1>3, <1>4, <1>9
<1>12. /\ seal' \in [Seals -> SealRow]
       /\ \A t \in Seals : t # s => seal'[t] = seal[t]
       /\ seal'[s].status = "open" /\ seal'[s].account = a /\ seal'[s].by = a
       /\ seal'[s].count = 1 /\ seal'[s].head = <<Ops[r]>> /\ ~seal'[s].published
  <2>1. new \in SealRow
    BY <1>6, <1>8, <1>10 DEF SealRow
  <2>2. /\ new.status = "open" /\ new.account = a /\ new.by = a
        /\ new.count = 1 /\ new.head = <<Ops[r]>> /\ ~new.published
    BY <1>10
  <2>3. /\ seal' \in [Seals -> SealRow]
        /\ seal'[s] = new /\ \A t \in Seals : t # s => seal'[t] = seal[t]
    BY <1>7, <1>11, <2>1 DEF DbShape
  <2> QED BY <2>2, <2>3
<1>13. PICK e, none : none = <<>> /\ e = Entry(s, 1, r, none)
  OBVIOUS
<1>14. /\ e \in Upload /\ e.seal = s /\ e.pos = 1 /\ e.report = r /\ e.prev = <<>>
       /\ EntryHash(e) = <<Ops[r]>>
  <2>1. 1 \in Nat /\ none \in Hash
    BY <1>8, <1>13
  <2>2. Append(none, Ops[r]) = <<Ops[r]>>
    BY <1>13
  <2>3. PICK i \in Nat : i = 1
    BY <2>1
  <2>4. /\ Entry(s, i, r, none) \in Upload
        /\ Entry(s, i, r, none).seal = s /\ Entry(s, i, r, none).pos = i
        /\ Entry(s, i, r, none).report = r /\ Entry(s, i, r, none).prev = none
        /\ EntryHash(Entry(s, i, r, none)) = Append(none, Ops[r])
    BY <1>6, <1>7, <2>1, EntryIsRow
  <2>5. e = Entry(s, i, r, none)
    BY <1>13, <2>3
  <2> QED BY <1>13, <2>2, <2>3, <2>4, <2>5
<1>15. uploads' = uploads \cup {e}
  BY <1>1, <1>4, <1>13
<1>16. Rows(s)' = {e} /\ \A t \in Seals : t # s => Rows(t)' = Rows(t)
  BY <1>8, <1>14, <1>15 DEF Rows
<1>17. Lasting
  BY <1>12 DEF Lasting
<1>18. Evolution
  <2> SUFFICES ASSUME NEW t \in Seals, t \notin raced', seal[t].status # "none" PROVE Evolves(t)
    BY DEF Evolution
  <2>1. seal'[t] = seal[t]
    BY <1>12
  <2> QED BY <2>1 DEF Evolves
<1>19. Published(q)
  BY <1>12 DEF Published
<1>20. Noted(q)
  <2> SUFFICES ASSUME NEW p \in Procs, p # q
               PROVE  /\ req[p].act = "leave" => \A t \in Seals \ raced' :
                            Lives(t)' /\ seal'[t].account = req[p].who =>
                                \/ Lives(t) /\ seal[t].account = req[p].who
                                \/ req[p].who \in late'
                      /\ req[p].act = "forget" => \A u \in uploads' :
                            u.report = req[p].report => u \in uploads \/ req[p].report \in late'
    BY <1>5 DEF Noted
  <2>1. ASSUME req[p].act = "leave", NEW t \in Seals, Lives(t)', seal'[t].account = req[p].who
        PROVE  (Lives(t) /\ seal[t].account = req[p].who) \/ req[p].who \in late'
    <3>1. CASE t # s
      BY <1>12, <2>1, <3>1 DEF Lives
    <3>2. CASE t = s
      <4>1. req[p].who = a
        BY <1>12, <2>1, <3>2
      <4>2. a \in Doomed(q)
        BY <1>1, <1>3, <2>1, <4>1 DEF Doomed
      <4> QED BY <1>5, <4>1, <4>2
    <3> QED BY <3>1, <3>2
  <2>2. ASSUME req[p].act = "forget", NEW u \in uploads', u.report = req[p].report
        PROVE  u \in uploads \/ req[p].report \in late'
    <3>1. CASE u = e
      <4>1. r \in Doomed(q)
        BY <1>1, <1>4, <1>14, <2>2, <3>1 DEF Doomed
      <4> QED BY <1>5, <1>14, <2>2, <3>1, <4>1
    <3> QED BY <1>15, <3>1
  <2> QED BY <2>1, <2>2
<1>21. Commits(q)
  <2>1. Kept(q)
    BY <1>12, <1>16 DEF Kept
  <2> QED BY <1>5, <1>17, <1>18, <1>19, <1>20, <2>1 DEF Commits
<1>22. Tables'
  <2>1. DbShape'
    <3>1. raced' \subseteq Seals /\ late' \subseteq Reports \cup Accounts
      BY <1>5, <1>7, BesideShape, DoomedShape DEF DbShape
    <3>2. IsFiniteSet(uploads') /\ uploads' \subseteq Upload
      BY <1>7, <1>14, <1>15, FS_AddElement DEF DbShape
    <3>3. quota' \in [Accounts -> Nat]
      BY <1>5, <1>6, <1>7 DEF DbShape
    <3> QED BY <1>5, <1>7, <1>12, <3>1, <3>2, <3>3 DEF DbShape
  <2>2. Fresh'
    <3>1. \A u \in uploads' : (\E v \in uploads : u.seal = v.seal) \/ seal'[u.seal].status # "none"
      BY <1>12, <1>14, <1>15
    <3>2. \A t \in Seals : seal[t].status = "none" /\ seal'[t].status = "none" => seal'[t] = seal[t]
      BY <1>12
    <3> QED BY <1>7, <1>17, <3>1, <3>2, FreshStays
  <2>3. Records'
    <3> SUFFICES ASSUME NEW t \in Seals, t \notin raced' PROVE RecordOK(t)'
      BY DEF Records
    <3>1. CASE t # s
      <4>1. RecordOK(t) /\ seal'[t] = seal[t] /\ Rows(t)' = Rows(t)
        BY <1>5, <1>7, <1>12, <1>16, <3>1 DEF Tables, Records
      <4> QED BY <4>1 DEF RecordOK, Lives
    <3>2. CASE t = s
      <4>1. Chain({e}, 1, <<Ops[r]>>)
        BY <1>14, ChainStarts
      <4> QED BY <1>12, <1>16, <3>2, <4>1 DEF RecordOK, Lives
    <3> QED BY <3>1, <3>2
  <2>4. Counted'
    <3> SUFFICES ASSUME NEW b \in accounts
                 PROVE  /\ quota'[b] = Cardinality({t \in Seals : seal'[t].by = b})
                        /\ quota'[b] <= MaxRecords
      BY <1>5 DEF Counted
    <3>1. b \in Accounts /\ quota[b] \in Nat
          /\ quota[b] = Cardinality({t \in Seals : seal[t].by = b}) /\ quota[b] <= MaxRecords
      BY <1>7 DEF DbShape, Tables, Counted
    <3>2. CASE b # a
      <4>1. {t \in Seals : seal'[t].by = b} = {t \in Seals : seal[t].by = b}
        <5>1. seal'[s].by # b /\ seal[s].by # b
          <6>1. seal[s].by = None
            BY <1>8 DEF NoSeal
          <6> QED BY <1>12, <3>1, <3>2, <6>1, SealConstants
        <5> QED BY <1>12, <5>1
      <4>2. quota'[b] = quota[b]
        BY <1>5, <1>6, <1>7, <3>1, <3>2 DEF DbShape
      <4> QED BY <3>1, <4>1, <4>2
    <3>3. CASE b = a
      <4> DEFINE of == {t \in Seals : seal[t].by = a}
      <4>1. {t \in Seals : seal'[t].by = b} = of \cup {s}
        <5>1. \A t \in Seals : seal'[t].by = b <=> t \in of \/ t = s
          BY <1>12, <3>3
        <5> QED BY <5>1
      <4>2. s \notin of
        BY <1>6, <1>8 DEF NoSeal
      <4>3. IsFiniteSet(of)
        <5>1. LastSeal \in Nat
          BY SealConstants
        <5>2. 1 \in Int /\ LastSeal \in Int
          BY <5>1
        <5>3. IsFiniteSet(Seals)
          BY <5>2, FS_Interval DEF Seals
        <5>4. of \in SUBSET Seals
          OBVIOUS
        <5> HIDE DEF of
        <5> QED BY <5>3, <5>4, FS_Subset
      <4>4. Cardinality(of \cup {s}) = Cardinality(of) + 1
        <5> HIDE DEF of
        <5> QED BY <4>2, <4>3, FS_AddElement
      <4>5. quota'[b] = quota[b] + 1
        BY <1>5, <1>6, <1>7, <3>3 DEF DbShape
      <4>6. MaxRecords \in Nat
        BY SealConstants
      <4>7. quota[a] = Cardinality(of)
        BY <3>1, <3>3
      <4> HIDE DEF of
      <4>8. quota'[b] = Cardinality({t \in Seals : seal'[t].by = b})
        BY <3>3, <4>1, <4>4, <4>5, <4>7
      <4> QED BY <1>5, <3>1, <3>3, <4>5, <4>6, <4>8
    <3> QED BY <3>2, <3>3
  <2>5. Public'
    BY <1>5, <1>19, PublicStays
  <2>6. NothingOrphaned'
    <3> SUFFICES ASSUME NEW t \in Seals, t \notin raced'
                 PROVE  /\ seal'[t].status \in {"open", "ended"} =>
                             seal'[t].account \in accounts \cup late'
                        /\ \A u \in Rows(t)' : \/ u.report \in reports \cup late'
                                               \/ u.report = None /\ seal'[t].status = "ended"
      BY <1>5 DEF NothingOrphaned
    <3>1. CASE t # s
      <4>1. seal'[t] = seal[t] /\ Rows(t)' = Rows(t) /\ t \notin raced /\ late \subseteq late'
        BY <1>5, <1>12, <1>16, <3>1
      <4> QED BY <1>7, <4>1 DEF Tables, NothingOrphaned
    <3>2. CASE t = s
      BY <1>5, <1>6, <1>12, <1>14, <1>16, <3>2
    <3> QED BY <3>1, <3>2
  <2> QED BY <2>1, <2>2, <2>3, <2>4, <2>5, <2>6 DEF Tables
<1> QED BY <1>18, <1>21, <1>22, CommitStep

LEMMA OpenStep ==
  ASSUME SealInv, NEW q \in Procs, OpenWrite(q)
  PROVE  SealInv' /\ Evolution
<1>1. \/ UNCHANGED <<seal, uploads, quota>>
      \/ /\ TakeQuota(req[q].who)
         /\ \E s \in Seals :
              /\ seal[s].status = "none"
              /\ seal' = [seal EXCEPT ![s] =
                   [NoSeal EXCEPT !.status = "open", !.account = req[q].who, !.by = req[q].who,
                                  !.count = 1, !.head = <<Ops[req[q].report]>>]]
              /\ uploads' = uploads \cup {Entry(s, 1, req[q].report, <<>>)}
  BY DEF OpenWrite
<1> QED BY <1>1, OpenRefused, OpenGranted

LEMMA AddStep ==
  ASSUME SealInv, NEW q \in Procs, AddWrite(q)
  PROVE  SealInv' /\ Evolution
<1>1. PICK x : x = req[q]
  OBVIOUS
<1>2. Watched(x) /\ ReqOK(x) /\ x \in ReqState
  BY <1>1, WatchedOne
<1>3. PICK s \in x.seals :
        LET row == Entry(s, x.pos, x.report, x.head) IN
        /\ x.act = "add" /\ x.pc = "write"
        /\ uploads' = uploads \cup {row}
        /\ seal' = [seal EXCEPT ![s] =
             IF Exists(s) THEN [@ EXCEPT !.head = EntryHash(row), !.count = row.pos] ELSE @]
        /\ Commit(q) /\ late' = late \cup Doomed(q)
        /\ UNCHANGED <<quota, reports, accounts>>
  BY <1>1 DEF AddWrite
<1>4. PICK e : e = Entry(s, x.pos, x.report, x.head)
  OBVIOUS
<1>5. PICK h : h = EntryHash(e)
  OBVIOUS
<1>6. /\ x.act = "add" /\ x.pc = "write"
      /\ uploads' = uploads \cup {e}
      /\ seal' = [seal EXCEPT ![s] =
             IF Exists(s) THEN [@ EXCEPT !.head = h, !.count = e.pos] ELSE @]
      /\ quota' = quota /\ reports' = reports /\ accounts' = accounts
      /\ req' = [req EXCEPT ![q] = Idle]
      /\ raced' = raced \cup Beside(q, req[q].seals) /\ late' = late \cup Doomed(q)
  BY <1>3, <1>4, <1>5 DEF Commit
<1>7. /\ Transacts(x) /\ s \in Seals /\ x.pos \in Nat /\ x.head \in Hash /\ x.report \in Reports
      /\ x.report \in reports \cup late /\ seal[s].status # "none"
  BY <1>2, <1>6 DEF Transacts, ReqOK, ReqState, Watched, Named, Opened
<1>8. Tables /\ DbShape /\ Fresh
  BY DEF SealInv, Tables
<1>9. /\ e \in Upload /\ e.seal = s /\ e.pos = x.pos /\ e.report = x.report /\ e.prev = x.head
      /\ h \in Hash
  BY <1>4, <1>5, <1>7, <1>8, EntryIsRow
<1>10. /\ seal' \in [Seals -> SealRow]
       /\ \A t \in Seals : t # s => seal'[t] = seal[t]
       /\ seal'[s].status = seal[s].status /\ seal'[s].by = seal[s].by
       /\ seal'[s].account = seal[s].account /\ seal'[s].since = seal[s].since
       /\ seal'[s].published = seal[s].published /\ seal'[s].hash = seal[s].hash
       /\ Exists(s) => seal'[s].head = h /\ seal'[s].count = x.pos
  <2>1. seal \in [Seals -> SealRow] /\ seal[s] \in SealRow
    BY <1>7, <1>8 DEF DbShape
  <2>2. CASE Exists(s)
    <3>1. PICK new : new = [seal[s] EXCEPT !.head = h, !.count = e.pos]
      OBVIOUS
    <3>2. new = [status |-> seal[s].status, account |-> seal[s].account, by |-> seal[s].by,
                 count |-> x.pos, head |-> h, published |-> seal[s].published,
                 since |-> seal[s].since, hash |-> seal[s].hash, hidden |-> seal[s].hidden]
      BY <1>9, <2>1, <3>1 DEF SealRow
    <3>3. new \in SealRow
      BY <1>7, <1>9, <2>1, <3>2 DEF SealRow
    <3>4. seal' = [seal EXCEPT ![s] = new]
      BY <1>6, <2>2, <3>1
    <3> QED BY <1>7, <2>1, <3>2, <3>3, <3>4
  <2>3. CASE ~Exists(s)
    <3>1. seal' = seal
      BY <1>6, <2>1, <2>3
    <3> QED BY <2>1, <2>3, <3>1
  <2> QED BY <2>2, <2>3
<1>11. \A t \in Seals : t # s => Rows(t)' = Rows(t)
  BY <1>6, <1>9 DEF Rows
<1>12. Rows(s)' = Rows(s) \cup {e}
  BY <1>6, <1>9 DEF Rows
<1>13. s \notin raced' =>
         /\ seal[s].status = "open" /\ x.head = seal[s].head /\ x.pos = seal[s].count + 1
         /\ Exists(s) /\ RecordOK(s)
  BY <1>1, <1>6, <1>7, ReadStands DEF Reading, Exists
<1>14. seal[s].count \in Nat
  BY <1>7, <1>8 DEF DbShape, SealRow
<1>15. Lasting
  BY <1>10 DEF Lasting
<1>16. Evolution
  <2> SUFFICES ASSUME NEW t \in Seals, t \notin raced' PROVE Evolves(t)
    BY DEF Evolution
  <2>1. CASE t # s
    <3>1. seal'[t] = seal[t]
      BY <1>10, <2>1
    <3> QED BY <3>1 DEF Evolves
  <2>2. CASE t = s
    BY <1>10, <1>13, <1>14, <2>2 DEF Evolves
  <2> QED BY <2>1, <2>2
<1>17. Published(q)
  BY <1>10 DEF Published
<1>18. Noted(q)
  <2> SUFFICES ASSUME NEW p \in Procs, p # q, req[p].act = "forget",
                      NEW u \in uploads', u.report = req[p].report, u \notin uploads
               PROVE  req[p].report \in late'
    BY <1>6, <1>10 DEF Noted, Lives
  <2>1. u = e
    BY <1>6
  <2>2. x.report \in Doomed(q)
    BY <1>1, <1>9, <2>1 DEF Doomed
  <2> QED BY <1>6, <1>9, <2>1, <2>2
<1>19. Commits(q)
  <2>1. Kept(q)
    BY <1>1, <1>3, <1>10, <1>11 DEF Kept
  <2> QED BY <1>6, <1>15, <1>16, <1>17, <1>18, <2>1 DEF Commits
<1>20. Tables'
  <2>1. DbShape'
    <3>1. raced' \subseteq Seals /\ late' \subseteq Reports \cup Accounts
      BY <1>6, <1>8, BesideShape, DoomedShape DEF DbShape
    <3>2. IsFiniteSet(uploads') /\ uploads' \subseteq Upload
      BY <1>6, <1>8, <1>9, FS_AddElement DEF DbShape
    <3> QED BY <1>6, <1>8, <1>10, <3>1, <3>2 DEF DbShape
  <2>2. Fresh'
    <3>1. \A u \in uploads' : (\E v \in uploads : u.seal = v.seal) \/ seal'[u.seal].status # "none"
      BY <1>6, <1>7, <1>9, <1>10
    <3>2. \A t \in Seals : seal[t].status = "none" /\ seal'[t].status = "none" => seal'[t] = seal[t]
      BY <1>7, <1>10
    <3> QED BY <1>8, <1>15, <3>1, <3>2, FreshStays
  <2>3. Records'
    <3> SUFFICES ASSUME NEW t \in Seals, t \notin raced' PROVE RecordOK(t)'
      BY DEF Records
    <3>1. CASE t # s
      <4>1. RecordOK(t) /\ seal'[t] = seal[t] /\ Rows(t)' = Rows(t)
        BY <1>6, <1>8, <1>10, <1>11, <3>1 DEF Tables, Records
      <4> QED BY <4>1 DEF RecordOK, Lives
    <3>2. CASE t = s
      <4>1. Chain(Rows(s), seal[s].count, seal[s].head)
        BY <1>13, <3>2 DEF RecordOK, Lives
      <4>2. PICK n \in Nat : n = seal[s].count
        BY <1>14
      <4>3. Chain(Rows(s) \cup {e}, n + 1, h)
        BY <1>5, <1>9, <1>13, <3>2, <4>1, <4>2, ChainGrows
      <4>4. Chain(Rows(s)', seal'[s].count, seal'[s].head)
        BY <1>10, <1>12, <1>13, <3>2, <4>2, <4>3
      <4> QED BY <1>10, <1>13, <3>2, <4>4 DEF RecordOK, Lives
    <3> QED BY <3>1, <3>2
  <2>4. Counted'
    BY <1>6, <1>8, <1>10, CountedStays DEF Tables
  <2>5. Public'
    BY <1>6, <1>17, PublicStays
  <2>6. NothingOrphaned'
    <3> SUFFICES ASSUME NEW t \in Seals, t \notin raced'
                 PROVE  /\ seal'[t].status \in {"open", "ended"} =>
                             seal'[t].account \in accounts \cup late'
                        /\ \A u \in Rows(t)' : \/ u.report \in reports \cup late'
                                               \/ u.report = None /\ seal'[t].status = "ended"
      BY <1>6 DEF NothingOrphaned
    <3>0. t \notin raced /\ late \subseteq late'
      BY <1>6
    <3>1. CASE t # s
      <4>1. seal'[t] = seal[t] /\ Rows(t)' = Rows(t)
        BY <1>10, <1>11, <3>1
      <4> QED BY <1>8, <3>0, <4>1 DEF Tables, NothingOrphaned
    <3>2. CASE t = s
      BY <1>7, <1>8, <1>9, <1>10, <1>12, <1>13, <3>0, <3>2 DEF Tables, NothingOrphaned
    <3> QED BY <3>1, <3>2
  <2> QED BY <2>1, <2>2, <2>3, <2>4, <2>5, <2>6 DEF Tables
<1> QED BY <1>16, <1>19, <1>20, CommitStep

------------------------------------------------------------------------------
(* Deleting: a record, an account, a report, and the purge.                 *)

LEMMA GoneRecord ==
  ASSUME NEW s, seal[s] \in SealRow
  PROVE  /\ Gone(s) \in SealRow /\ Gone(s).status = "gone" /\ Gone(s).by = seal[s].by
         /\ ~Gone(s).published
<1>0. PICK b : b = seal[s].by
  OBVIOUS
<1>1. PICK g : g = [NoSeal EXCEPT !.status = "gone", !.by = b]
  OBVIOUS
<1>2. g = [status |-> "gone", account |-> None, by |-> b, count |-> 0, head |-> <<>>,
           published |-> FALSE, since |-> FALSE, hash |-> 0, hidden |-> FALSE]
  BY <1>1 DEF NoSeal
<1>3. <<>> \in Hash
  BY DEF Hash
<1>4. g \in SealRow /\ g.status = "gone" /\ g.by = seal[s].by /\ ~g.published
  BY <1>0, <1>2, <1>3 DEF SealRow
<1> QED BY <1>0, <1>1, <1>4 DEF Gone

LEMMA TombstoneRecord ==
  ASSUME NEW s, seal[s] \in SealRow
  PROVE  /\ Tombstone(s) \in SealRow /\ Tombstone(s).status = "withdrawn"
         /\ Tombstone(s).account = None /\ Tombstone(s).by = seal[s].by
         /\ ~Tombstone(s).published /\ Tombstone(s).since = seal[s].since
<1>0. PICK t : t = seal[s]
  OBVIOUS
<1>1. PICK g : g = [t EXCEPT !.account = None, !.status = "withdrawn", !.published = FALSE,
                             !.hidden = FALSE, !.head = <<>>, !.hash = 0]
  OBVIOUS
<1>2. g = [status |-> "withdrawn", account |-> None, by |-> t.by, count |-> t.count,
           head |-> <<>>, published |-> FALSE, since |-> t.since, hash |-> 0, hidden |-> FALSE]
  BY <1>0, <1>1 DEF SealRow
<1>3. <<>> \in Hash
  BY DEF Hash
<1>4. /\ g \in SealRow /\ g.status = "withdrawn" /\ g.account = None /\ g.by = t.by
      /\ ~g.published /\ g.since = t.since
  BY <1>0, <1>2, <1>3 DEF SealRow
<1> QED BY <1>0, <1>1, <1>4 DEF Tombstone

\* Rows are only taken away, and the records they are taken of are not live any more.
LEMMA Withdrawal ==
  ASSUME SealInv, NEW q \in Procs, NEW x, x = req[q], Transacts(x),
         x.act \in {"delete", "leave", "purge"},
         seal' \in [Seals -> SealRow],
         \A s \in Seals :
             \/ seal'[s] = seal[s] /\ (s \notin x.seals \/ s \in raced' \/ ~Lives(s))
             \/ /\ s \in x.seals /\ seal'[s].status \in {"withdrawn", "gone"}
                /\ seal'[s].by = seal[s].by /\ ~seal'[s].published
                /\ seal'[s].status = "withdrawn" => seal'[s].account = None
                /\ seal[s].since /\ s \notin raced' => seal'[s].since,
         uploads' = {u \in uploads : Key(u) \notin x.keys},
         reports' = reports, accounts' \subseteq accounts,
         \A a \in accounts' : quota'[a] = quota[a], quota' \in [Accounts -> Nat],
         x.act # "leave" => accounts' = accounts, x.act = "leave" => accounts' = accounts \ {x.who},
         late \subseteq late', late' \subseteq Reports \cup Accounts,
         \A p \in Procs \ {q} : req[p].act = "open" /\ req[p].who \in accounts =>
                                    req[p].who \in accounts' \cup late',
         Commit(q)
  PROVE  SealInv' /\ Evolution
<1>1. Watched(x) /\ ReqOK(x) /\ x \in ReqState
  BY WatchedOne
<1>2. /\ req' = [req EXCEPT ![q] = Idle] /\ raced' = raced \cup Beside(q, req[q].seals)
      /\ raced \subseteq raced'
  BY DEF Commit
<1>3. Tables /\ DbShape /\ Fresh
  BY DEF SealInv, Tables
<1>4. \A s \in x.seals : s \in Seals /\ seal[s].status # "none"
  BY <1>1 DEF Watched, Opened, ReqState
<1>5. ASSUME NEW s \in Seals, s \notin raced', s \in x.seals
      PROVE  Lives(s) /\ Rows(s)' = {} /\ seal'[s].status \in {"withdrawn", "gone"}
  <2>1. Reading(x, s)
    BY <1>2, <1>5, ReadStands
  <2>2. Lives(s) /\ \A u \in Rows(s) : Key(u) \in x.keys
    BY <2>1 DEF Reading
  <2>3. Rows(s)' = {}
    BY <2>2 DEF Rows
  <2> QED BY <1>5, <2>2, <2>3
<1>6. ASSUME NEW s \in Seals, s \notin x.seals
      PROVE  seal'[s] = seal[s] /\ Rows(s)' = Rows(s)
  <2>1. \A u \in Rows(s) : Key(u) \notin x.keys
    <3>1. \A u \in Rows(s) : Key(u)[1] = s
      BY DEF Rows, Key
    <3>2. \A k \in x.keys : k[1] \in x.seals
      BY <1>1 DEF ReqOK
    <3> QED BY <1>6, <3>1, <3>2
  <2>2. Rows(s)' = Rows(s)
    BY <2>1 DEF Rows
  <2> QED BY <1>6, <2>2
<1>7. Lasting
  BY <1>4, <1>6 DEF Lasting
<1>8. Evolution
  <2> SUFFICES ASSUME NEW s \in Seals, s \notin raced' PROVE Evolves(s)
    BY DEF Evolution
  <2>1. CASE s \in x.seals
    BY <1>5, <2>1 DEF Evolves, Lives
  <2>2. CASE s \notin x.seals
    BY <1>6, <2>2 DEF Evolves
  <2> QED BY <2>1, <2>2
<1>9. Published(q)
  BY <1>6 DEF Published
<1>10. Noted(q)
  <2> SUFFICES ASSUME NEW p \in Procs, p # q, req[p].act = "leave",
                      NEW s \in Seals, s \notin raced', Lives(s)'
               PROVE  Lives(s) /\ seal[s].account = seal'[s].account
    BY DEF Noted
  <2>1. s \notin x.seals
    BY <1>5 DEF Lives
  <2> QED BY <1>6, <2>1 DEF Lives
<1>11. Commits(q)
  <2>1. Kept(q)
    BY <1>6 DEF Kept
  <2> QED BY <1>2, <1>7, <1>8, <1>9, <1>10, <2>1 DEF Commits
<1>12. Tables'
  <2>1. DbShape'
    <3>1. raced' \subseteq Seals
      BY <1>2, <1>3, BesideShape DEF DbShape
    <3>2. IsFiniteSet(uploads') /\ uploads' \subseteq Upload
      <4>1. uploads' \in SUBSET uploads
        OBVIOUS
      <4> QED BY <1>3, <4>1, FS_Subset DEF DbShape
    <3> QED BY <1>3, <3>1, <3>2 DEF DbShape
  <2>2. Fresh'
    <3>1. \A u \in uploads' : (\E v \in uploads : u.seal = v.seal) \/ seal'[u.seal].status # "none"
      OBVIOUS
    <3>2. \A t \in Seals : seal[t].status = "none" /\ seal'[t].status = "none" => seal'[t] = seal[t]
      BY <1>4, <1>6
    <3> QED BY <1>3, <1>7, <3>1, <3>2, FreshStays
  <2>3. Records'
    <3> SUFFICES ASSUME NEW s \in Seals, s \notin raced' PROVE RecordOK(s)'
      BY DEF Records
    <3>1. CASE s \in x.seals
      <4>1. ~seal'[s].published /\ (seal'[s].status = "withdrawn" => seal'[s].account = None)
        BY <1>5, <3>1
      <4> QED BY <1>5, <3>1, <4>1 DEF RecordOK, Lives
    <3>2. CASE s \notin x.seals
      <4>1. RecordOK(s)
        BY <1>2, <1>3 DEF Tables, Records
      <4> QED BY <1>6, <3>2, <4>1 DEF RecordOK, Lives
    <3> QED BY <3>1, <3>2
  <2>4. Counted'
    <3>1. \A s \in Seals : seal'[s].by = seal[s].by
      OBVIOUS
    <3> QED BY <1>3, <3>1, CountedStays DEF Tables
  <2>5. Public'
    BY <1>2, <1>9, PublicStays
  <2>6. NothingOrphaned'
    <3> SUFFICES ASSUME NEW s \in Seals, s \notin raced'
                 PROVE  /\ seal'[s].status \in {"open", "ended"} =>
                             seal'[s].account \in accounts' \cup late'
                        /\ \A u \in Rows(s)' : \/ u.report \in reports \cup late'
                                               \/ u.report = None /\ seal'[s].status = "ended"
      BY DEF NothingOrphaned
    <3>0. s \notin raced
      BY <1>2
    <3>1. CASE s \in x.seals
      BY <1>5, <3>1
    <3>2. CASE s \notin x.seals
      <4>1. seal'[s] = seal[s] /\ Rows(s)' = Rows(s)
        BY <1>6, <3>2
      <4>2. /\ seal[s].status \in {"open", "ended"} => seal[s].account \in accounts \cup late
            /\ \A u \in Rows(s) : \/ u.report \in reports \cup late
                                  \/ u.report = None /\ seal[s].status = "ended"
        BY <1>3, <3>0 DEF Tables, NothingOrphaned
      <4>3. x.act = "leave" /\ Lives(s) /\ seal[s].account = x.who => x.who \in late
        BY <1>1, <3>0, <3>2 DEF Watched, Named
      <4>4. Lives(s) => seal[s].account \in accounts' \cup late'
        BY <4>2, <4>3 DEF Lives
      <4> QED BY <4>1, <4>2, <4>4 DEF Lives
    <3> QED BY <3>1, <3>2
  <2> QED BY <2>1, <2>2, <2>3, <2>4, <2>5, <2>6 DEF Tables
<1> QED BY <1>8, <1>11, <1>12, CommitStep

LEMMA DeleteStep ==
  ASSUME SealInv, NEW q \in Procs, DeleteWrite(q)
  PROVE  SealInv' /\ Evolution
<1>1. PICK x : x = req[q]
  OBVIOUS
<1>2. Watched(x) /\ ReqOK(x) /\ x \in ReqState
  BY <1>1, WatchedOne
<1>3. PICK a : a = x.who
  OBVIOUS
<1>4. /\ x.pc = "delete" /\ x.act \in {"delete", "leave"} /\ Transacts(x) /\ a \in Accounts
      /\ x.ends \subseteq x.seals /\ x.seals \subseteq Seals
  BY <1>1, <1>2, <1>3 DEF DeleteWrite, ReqOK, ReqState, Acts, Transacts
<1>5. /\ seal' = [s \in Seals |->
           IF s \in x.ends THEN Tombstone(s)
           ELSE IF s \in x.seals /\ Exists(s) /\ ~seal[s].since THEN Gone(s) ELSE seal[s]]
      /\ uploads' = {u \in uploads : Key(u) \notin x.keys}
      /\ quota' = IF x.act = "leave" THEN [quota EXCEPT ![a] = 0] ELSE quota
      /\ accounts' = IF x.act = "leave" THEN accounts \ {a} ELSE accounts
      /\ late' = late \cup {y \in {a} :
                     x.act = "leave" /\ \E p \in Procs : req[p].act = "open" /\ req[p].who = a}
      /\ Commit(q) /\ reports' = reports
  BY <1>1, <1>3 DEF DeleteWrite
<1>6. DbShape /\ raced \subseteq raced'
  BY <1>5 DEF SealInv, Tables, Commit
<1>7. \A s \in Seals : seal[s] \in SealRow
  BY <1>6 DEF DbShape
<1>8. seal' \in [Seals -> SealRow]
  BY <1>5, <1>7, GoneRecord, TombstoneRecord
<1>9. \A s \in Seals :
         \/ seal'[s] = seal[s] /\ (s \notin x.seals \/ s \in raced' \/ ~Lives(s))
         \/ /\ s \in x.seals /\ seal'[s].status \in {"withdrawn", "gone"}
            /\ seal'[s].by = seal[s].by /\ ~seal'[s].published
            /\ seal'[s].status = "withdrawn" => seal'[s].account = None
            /\ seal[s].since /\ s \notin raced' => seal'[s].since
  <2> TAKE s \in Seals
  <2>1. CASE s \in x.ends
    <3>1. PICK t : t = Tombstone(s)
      OBVIOUS
    <3>2. t.status = "withdrawn" /\ t.account = None /\ t.by = seal[s].by /\ ~t.published
          /\ t.since = seal[s].since
      BY <1>7, <3>1, TombstoneRecord
    <3>3. seal'[s] = t
      BY <1>5, <2>1, <3>1
    <3> QED BY <1>4, <2>1, <3>2, <3>3
  <2>2. CASE s \notin x.ends /\ s \in x.seals /\ Exists(s) /\ ~seal[s].since
    <3>1. PICK t : t = Gone(s)
      OBVIOUS
    <3>2. t.status = "gone" /\ t.by = seal[s].by /\ ~t.published
      BY <1>7, <3>1, GoneRecord
    <3>3. seal'[s] = t
      BY <1>5, <2>2, <3>1
    <3> QED BY <2>2, <3>2, <3>3
  <2>3. CASE s \notin x.ends /\ ~(s \in x.seals /\ Exists(s) /\ ~seal[s].since)
    <3>1. seal'[s] = seal[s]
      BY <1>5, <2>3
    <3>2. s \in x.seals /\ s \notin raced' => s \in x.ends \/ ~seal[s].since
      BY <1>1, <1>4, <1>6, ReadStands DEF Reading
    <3>3. s \in x.seals /\ s \notin raced' => ~Lives(s)
      BY <2>3, <3>2 DEF Exists, Lives
    <3> QED BY <3>1, <3>3
  <2> QED BY <2>1, <2>2, <2>3
<1>10. /\ quota' \in [Accounts -> Nat] /\ accounts' \subseteq accounts
       /\ \A b \in accounts' : quota'[b] = quota[b]
       /\ x.act # "leave" => accounts' = accounts
       /\ x.act = "leave" => accounts' = accounts \ {x.who}
       /\ late \subseteq late' /\ late' \subseteq Reports \cup Accounts
  BY <1>3, <1>4, <1>5, <1>6 DEF DbShape
<1>11. \A p \in Procs \ {q} : req[p].act = "open" /\ req[p].who \in accounts =>
                                  req[p].who \in accounts' \cup late'
  BY <1>4, <1>5
<1> QED BY <1>1, <1>4, <1>5, <1>8, <1>9, <1>10, <1>11, Withdrawal

LEMMA PurgeStep ==
  ASSUME SealInv, NEW q \in Procs, PurgeWrite(q)
  PROVE  SealInv' /\ Evolution
<1>1. PICK x : x = req[q]
  OBVIOUS
<1>2. Watched(x) /\ ReqOK(x) /\ x \in ReqState
  BY <1>1, WatchedOne
<1>3. /\ x.act = "purge" /\ Transacts(x) /\ x.seals \subseteq Seals
      /\ seal' = [s \in Seals |-> IF s \in x.seals /\ Exists(s) THEN Gone(s) ELSE seal[s]]
      /\ uploads' = {u \in uploads : Key(u) \notin x.keys}
      /\ Commit(q) /\ quota' = quota /\ reports' = reports /\ accounts' = accounts /\ late' = late
  BY <1>1, <1>2 DEF PurgeWrite, ReqOK, ReqState, Transacts
<1>4. DbShape /\ raced \subseteq raced'
  BY <1>3 DEF SealInv, Tables, Commit
<1>5. \A s \in Seals : seal[s] \in SealRow
  BY <1>4 DEF DbShape
<1>6. seal' \in [Seals -> SealRow]
  BY <1>3, <1>5, GoneRecord
<1>7. \A s \in Seals :
         \/ seal'[s] = seal[s] /\ (s \notin x.seals \/ s \in raced' \/ ~Lives(s))
         \/ /\ s \in x.seals /\ seal'[s].status \in {"withdrawn", "gone"}
            /\ seal'[s].by = seal[s].by /\ ~seal'[s].published
            /\ seal'[s].status = "withdrawn" => seal'[s].account = None
            /\ seal[s].since /\ s \notin raced' => seal'[s].since
  <2> TAKE s \in Seals
  <2>1. CASE s \in x.seals /\ Exists(s)
    <3>1. PICK t : t = Gone(s)
      OBVIOUS
    <3>2. t.status = "gone" /\ t.by = seal[s].by /\ ~t.published
      BY <1>5, <3>1, GoneRecord
    <3>3. seal'[s] = t
      BY <1>3, <2>1, <3>1
    <3>4. s \notin raced' => ~seal[s].since
      BY <1>1, <1>3, <1>4, <2>1, ReadStands DEF Reading
    <3> QED BY <2>1, <3>2, <3>3, <3>4
  <2>2. CASE ~(s \in x.seals /\ Exists(s))
    <3>1. seal'[s] = seal[s]
      BY <1>3, <2>2
    <3> QED BY <2>2, <3>1 DEF Exists, Lives
  <2> QED BY <2>1, <2>2
<1>8. quota' \in [Accounts -> Nat] /\ late' \subseteq Reports \cup Accounts
  BY <1>3, <1>4 DEF DbShape
<1> QED BY <1>1, <1>3, <1>6, <1>7, <1>8, Withdrawal

LEMMA ForgetStep ==
  ASSUME SealInv, NEW q \in Procs, ForgetWrite(q)
  PROVE  SealInv' /\ Evolution
<1>1. PICK x : x = req[q]
  OBVIOUS
<1>2. Watched(x) /\ ReqOK(x) /\ x \in ReqState
  BY <1>1, WatchedOne
<1>3. PICK r : r = x.report
  OBVIOUS
<1>4. PICK keys \in IF x.keys = {} THEN {{}} ELSE {x.keys, {Key(u) : u \in LinkedTo(r)}} :
        /\ uploads' = {IF Key(u) \in keys THEN [u EXCEPT !.report = None] ELSE u : u \in uploads}
        /\ raced' = raced \cup Beside(q, req[q].seals)
                          \cup {k[1] : k \in {k \in keys : k[1] \notin x.seals}}
  BY <1>1, <1>3 DEF ForgetWrite
<1>5. /\ x.act = "forget" /\ Transacts(x) /\ r \in Reports /\ r # None
      /\ x.ends \subseteq x.seals /\ x.seals \subseteq Seals
      /\ seal' = Ended(q) /\ quota' = quota /\ reports' = reports \ {r} /\ accounts' = accounts
      /\ late' = late \cup {y \in {r} : \E p \in Procs \ {q} : req[p].report = r}
      /\ req' = [req EXCEPT ![q] = Idle]
  BY <1>1, <1>2, <1>3, SealConstants DEF ForgetWrite, ReqOK, ReqState, Transacts
<1>6. Tables /\ DbShape /\ Fresh
  BY DEF SealInv, Tables
<1>7. raced \subseteq raced' /\ raced' \subseteq Seals
  <2>1. \A k \in keys : k[1] \in Seals
    <3>1. \A u \in uploads : Key(u)[1] \in Seals
      BY <1>6 DEF DbShape, Upload, Key
    <3>2. \A k \in x.keys : k[1] \in Seals
      BY <1>2, <1>5 DEF ReqOK
    <3> QED BY <1>4, <3>1, <3>2 DEF LinkedTo
  <2> QED BY <1>4, <1>6, <2>1, BesideShape DEF DbShape
<1>8. \A s \in Seals :
        /\ s \in x.ends /\ Exists(s) => seal'[s].status = "ended"
        /\ ~(s \in x.ends /\ Exists(s)) => seal'[s] = seal[s]
        /\ seal'[s].by = seal[s].by /\ seal'[s].account = seal[s].account
        /\ seal'[s].count = seal[s].count /\ seal'[s].head = seal[s].head
        /\ seal'[s].published = seal[s].published /\ seal'[s].since = seal[s].since
        /\ seal'[s].hash = seal[s].hash
  <2> TAKE s \in Seals
  <2>1. CASE s \in x.ends /\ Exists(s)
    <3>1. seal'[s] = [status |-> "ended", account |-> seal[s].account, by |-> seal[s].by,
             count |-> seal[s].count, head |-> seal[s].head, published |-> seal[s].published,
             since |-> seal[s].since, hash |-> seal[s].hash, hidden |-> seal[s].hidden]
      BY <1>1, <1>5, <2>1, EndedRecords
    <3> QED BY <2>1, <3>1
  <2>2. CASE ~(s \in x.ends /\ Exists(s))
    BY <1>1, <1>5, <2>2, EndedRecords
  <2> QED BY <2>1, <2>2
<1>9. seal' \in [Seals -> SealRow]
  <2>1. seal' = [s \in Seals |-> Ended(q)[s]]
    BY <1>5 DEF Ended
  <2> QED BY <2>1, EndedRecords
<1>10. PICK f : f = [u \in uploads |-> IF Key(u) \in keys THEN [u EXCEPT !.report = None] ELSE u]
  OBVIOUS
<1>11. /\ \A u \in uploads : /\ f[u] \in Upload /\ f[u].seal = u.seal /\ f[u].pos = u.pos
                             /\ f[u].prev = u.prev /\ f[u].ops = u.ops
                             /\ Key(u) \in keys => f[u].report = None
                             /\ Key(u) \notin keys => f[u] = u
       /\ f \in [uploads -> uploads'] /\ \A t \in uploads' : \E u \in uploads : t = f[u]
  <2>1. ASSUME NEW u \in uploads
        PROVE  /\ f[u] \in Upload /\ f[u].seal = u.seal /\ f[u].pos = u.pos
               /\ f[u].prev = u.prev /\ f[u].ops = u.ops
               /\ Key(u) \in keys => f[u].report = None
               /\ Key(u) \notin keys => f[u] = u
    <3>1. u \in Upload
      BY <1>6 DEF DbShape
    <3>2. CASE Key(u) \in keys
      <4>1. f[u] = [u EXCEPT !.report = None]
        BY <1>10, <3>2
      <4> QED BY <3>1, <3>2, <4>1 DEF Upload
    <3>3. CASE Key(u) \notin keys
      BY <1>10, <3>1, <3>3
    <3> QED BY <3>2, <3>3
  <2>2. f \in [uploads -> uploads'] /\ \A t \in uploads' : \E u \in uploads : t = f[u]
    BY <1>4, <1>10
  <2> QED BY <2>1, <2>2
<1>12. \A s : /\ \A u \in Rows(s) : u \in uploads /\ f[u] \in Rows(s)'
              /\ \A t \in Rows(s)' : \E u \in Rows(s) : t = f[u]
  BY <1>11 DEF Rows
<1>13. ASSUME NEW s \in Seals, s \notin raced', s \notin x.seals
       PROVE  seal'[s] = seal[s] /\ Rows(s)' = Rows(s)
  <2>1. \A u \in Rows(s) : Key(u) \notin keys
    <3> SUFFICES ASSUME NEW u \in Rows(s), Key(u) \in keys PROVE FALSE
      OBVIOUS
    <3>1. Key(u)[1] = s
      BY DEF Key, Rows
    <3> QED BY <1>4, <1>13, <3>1
  <2>2. \A u \in Rows(s) : f[u] = u
    BY <1>11, <1>12, <2>1
  <2>3. Rows(s)' = Rows(s)
    BY <1>12, <2>2
  <2>4. s \notin x.ends
    BY <1>5, <1>13
  <2> QED BY <1>8, <2>3, <2>4
<1>14. ASSUME NEW s \in Seals, s \notin raced', s \in x.seals
       PROVE  Lives(s) /\ seal'[s].status = "ended"
  <2>1. Lives(s) /\ (s \in x.ends <=> seal[s].status = "open")
    BY <1>1, <1>5, <1>7, <1>14, ReadStands DEF Reading
  <2> QED BY <1>8, <2>1 DEF Lives, Exists
<1>15. Lasting
  BY <1>8 DEF Lasting, Exists
<1>16. Evolution
  <2> SUFFICES ASSUME NEW s \in Seals, s \notin raced' PROVE Evolves(s)
    BY DEF Evolution
  <2>1. CASE s \in x.seals
    BY <1>8, <1>14, <2>1 DEF Evolves, Lives
  <2>2. CASE s \notin x.seals
    BY <1>13, <2>2 DEF Evolves
  <2> QED BY <2>1, <2>2
<1>17. Published(q)
  BY <1>8 DEF Published
<1>18. Noted(q)
  <2> SUFFICES ASSUME NEW p \in Procs, p # q
               PROVE  /\ req[p].report \in reports => req[p].report \in reports' \cup late'
                      /\ req[p].act = "leave" => \A s \in Seals \ raced' :
                            Lives(s)' /\ seal'[s].account = req[p].who =>
                                \/ Lives(s) /\ seal[s].account = req[p].who
                                \/ req[p].who \in late'
                      /\ req[p].act = "forget" => \A u \in uploads' :
                            u.report = req[p].report => u \in uploads \/ req[p].report \in late'
    BY <1>5 DEF Noted
  <2>1. req[p].report \in reports => req[p].report \in reports' \cup late'
    BY <1>5
  <2>2. ASSUME NEW s \in Seals, s \notin raced', Lives(s)'
        PROVE  Lives(s) /\ seal'[s].account = seal[s].account
    BY <1>8, <1>13, <1>14, <2>2 DEF Lives
  <2>3. ASSUME req[p].act = "forget", NEW u \in uploads', u.report = req[p].report
        PROVE  u \in uploads
    <3>1. PICK y : y = req[p]
      OBVIOUS
    <3>2. y.report \in Reports
      BY <2>3, <3>1, WatchedOne DEF ReqOK
    <3>3. u.report # None
      BY <2>3, <3>1, <3>2, SealConstants
    <3>4. PICK v \in uploads : u = f[v]
      BY <1>11
    <3> QED BY <1>11, <3>3, <3>4
  <2> QED BY <2>1, <2>2, <2>3
<1>19. Commits(q)
  <2>1. Kept(q)
    BY <1>1, <1>13 DEF Kept
  <2>2. raced \cup Beside(q, req[q].seals) \subseteq raced'
    BY <1>4
  <2> QED BY <1>5, <1>15, <1>16, <1>17, <1>18, <2>1, <2>2 DEF Commits
<1>20. Tables'
  <2>1. DbShape'
    <3>1. IsFiniteSet(uploads')
      <4>1. f \in Surjection(uploads, uploads')
        BY <1>11 DEF Surjection
      <4> QED BY <1>6, <4>1, FS_Surjection DEF DbShape
    <3>2. uploads' \subseteq Upload
      BY <1>11
    <3>3. late' \subseteq Reports \cup Accounts
      BY <1>5, <1>6 DEF DbShape
    <3> QED BY <1>5, <1>6, <1>7, <1>9, <3>1, <3>2, <3>3 DEF DbShape
  <2>2. Fresh'
    <3>1. \A u \in uploads' : (\E v \in uploads : u.seal = v.seal) \/ seal'[u.seal].status # "none"
      BY <1>11
    <3>2. \A t \in Seals : seal[t].status = "none" /\ seal'[t].status = "none" => seal'[t] = seal[t]
      BY <1>8 DEF Exists
    <3> QED BY <1>6, <1>15, <3>1, <3>2, FreshStays
  <2>3. Records'
    <3> SUFFICES ASSUME NEW s \in Seals, s \notin raced' PROVE RecordOK(s)'
      BY DEF Records
    <3>0. RecordOK(s)
      BY <1>6, <1>7 DEF Tables, Records
    <3>1. CASE s \in x.seals
      <4>1. Lives(s) /\ seal'[s].status = "ended"
        BY <1>14, <3>1
      <4>2. Chain(Rows(s), seal[s].count, seal[s].head)
        BY <3>0, <4>1 DEF RecordOK
      <4>3. PICK n \in Nat : n = seal[s].count
        BY <1>6 DEF DbShape, SealRow
      <4>4. PICK rs, ts, g : rs = Rows(s) /\ ts = Rows(s)' /\ g = [u \in Rows(s) |-> f[u]]
        OBVIOUS
      <4>5. /\ g \in [rs -> ts] /\ \A t \in ts : \E u \in rs : t = g[u]
            /\ \A u \in rs : g[u].pos = u.pos /\ g[u].prev = u.prev /\ g[u].ops = u.ops
        BY <1>11, <1>12, <4>4
      <4>6. Chain(ts, n, seal[s].head)
        BY <4>2, <4>3, <4>4, <4>5, ChainForgets
      <4>7. Chain(Rows(s)', seal'[s].count, seal'[s].head)
        BY <1>8, <4>3, <4>4, <4>6
      <4> QED BY <4>1, <4>7 DEF RecordOK, Lives
    <3>2. CASE s \notin x.seals
      <4>1. seal'[s] = seal[s] /\ Rows(s)' = Rows(s)
        BY <1>13, <3>2
      <4> QED BY <3>0, <4>1 DEF RecordOK, Lives
    <3> QED BY <3>1, <3>2
  <2>4. Counted'
    BY <1>5, <1>6, <1>8, CountedStays DEF Tables
  <2>5. Public'
    BY <1>7, <1>17, PublicStays
  <2>6. NothingOrphaned'
    <3> SUFFICES ASSUME NEW s \in Seals, s \notin raced'
                 PROVE  /\ seal'[s].status \in {"open", "ended"} =>
                             seal'[s].account \in accounts \cup late'
                        /\ \A t \in Rows(s)' : \/ t.report \in reports' \cup late'
                                               \/ t.report = None /\ seal'[s].status = "ended"
      BY <1>5 DEF NothingOrphaned
    <3>0. s \notin raced /\ late \subseteq late'
      BY <1>5, <1>7
    <3>1. /\ seal[s].status \in {"open", "ended"} => seal[s].account \in accounts \cup late
          /\ \A u \in Rows(s) : \/ u.report \in reports \cup late
                                \/ u.report = None /\ seal[s].status = "ended"
      BY <1>6, <3>0 DEF Tables, NothingOrphaned
    <3>2. seal'[s].status \in {"open", "ended"} => seal'[s].account \in accounts \cup late'
      BY <1>8, <1>13, <1>14, <3>0, <3>1 DEF Lives
    <3>3. ASSUME NEW t \in Rows(s)'
          PROVE  t.report \in reports' \cup late' \/ (t.report = None /\ seal'[s].status = "ended")
      <4>1. PICK u \in Rows(s) : t = f[u]
        BY <1>12, <3>3
      <4>2. u \in uploads /\ u.seal = s
        BY DEF Rows
      <4>3. CASE Key(u) \in keys
        <5>1. t.report = None
          BY <1>11, <4>1, <4>2, <4>3
        <5>2. s \in x.seals
          <6>1. Key(u)[1] = s
            BY <4>2 DEF Key
          <6> QED BY <1>4, <4>3, <6>1
        <5> QED BY <1>14, <5>1, <5>2
      <4>4. CASE Key(u) \notin keys
        <5>1. t = u
          BY <1>11, <4>1, <4>2, <4>4
        <5>2. u.report = None /\ seal[s].status = "ended" => seal'[s].status = "ended"
          BY <1>8
        <5>3. u.report = r => r \in late
          <6> SUFFICES ASSUME u.report = r PROVE r \in late
            OBVIOUS
          <6>1. Key(u) \in x.keys \/ r \in late
            BY <1>2, <1>3, <1>5, <3>0, <4>2 DEF Watched, Named
          <6>2. Key(u) \notin x.keys
            BY <1>4, <4>2, <4>4 DEF LinkedTo
          <6> QED BY <6>1, <6>2
        <5> QED BY <1>5, <3>0, <3>1, <5>1, <5>2, <5>3
      <4> QED BY <4>3, <4>4
    <3> QED BY <3>2, <3>3
  <2> QED BY <2>1, <2>2, <2>3, <2>4, <2>5, <2>6 DEF Tables
<1> QED BY <1>16, <1>19, <1>20, CommitStep

------------------------------------------------------------------------------
(* The results.                                                             *)

LEMMA SealInit == Init => SealInv
<1> SUFFICES ASSUME Init PROVE SealInv
  OBVIOUS
<1>1. /\ seal = [s \in Seals |-> NoSeal] /\ uploads = {} /\ quota = [a \in Accounts |-> 0]
      /\ reports = Reports /\ accounts = Accounts /\ req = [q \in Procs |-> Idle]
      /\ raced = {} /\ late = {}
  BY DEF Init
<1>2. NoSeal \in SealRow /\ NoSeal.status = "none" /\ NoSeal.by = None /\ ~NoSeal.published
  BY DEF NoSeal, SealRow, Hash
<1>3. \A s \in Seals : seal[s] = NoSeal /\ Rows(s) = {}
  BY <1>1 DEF Rows
<1>4. DbShape
  BY <1>1, <1>2, FS_EmptySet DEF DbShape
<1>5. Fresh /\ Records /\ Public /\ NothingOrphaned
  BY <1>2, <1>3 DEF Fresh, Records, RecordOK, Lives, Public, NothingOrphaned
<1>6. Counted
  <2> SUFFICES ASSUME NEW a \in Accounts
               PROVE  /\ quota[a] = Cardinality({s \in Seals : seal[s].by = a})
                      /\ quota[a] <= MaxRecords
    BY <1>1 DEF Counted
  <2>1. {s \in Seals : seal[s].by = a} = {}
    BY <1>2, <1>3, SealConstants
  <2>2. quota[a] = 0 /\ MaxRecords \in Nat
    BY <1>1, SealConstants
  <2>3. Cardinality({}) = 0
    BY FS_EmptySet
  <2>4. Cardinality({s \in Seals : seal[s].by = a}) = 0
    BY <2>1, <2>3
  <2> QED BY <2>2, <2>4
<1>7. \A r \in AtWork : Watched(r)
  BY <1>1, IdleWatched DEF AtWork
<1> QED BY <1>1, <1>4, <1>5, <1>6, <1>7 DEF SealInv, Tables

LEMMA SealStep ==
  ASSUME SealInv, [Next]_vars
  PROVE  SealInv' /\ Evolution
<1>1. CASE UNCHANGED vars
  <2>1. /\ seal' = seal /\ req' = req /\ UNCHANGED <<db, raced, late>>
    BY <1>1 DEF vars, db
  <2>2. Evolution
    BY <2>1 DEF Evolution, Evolves
  <2>3. Tables'
    BY <2>1, TablesStay DEF SealInv
  <2>4. ASSUME NEW r \in AtWork' PROVE Watched(r)'
    <3>1. Watched(r)
      BY <2>1 DEF SealInv, AtWork
    <3> QED BY <2>1, <3>1, WatchedStays
  <2> QED BY <2>1, <2>2, <2>3, <2>4 DEF SealInv
<1>2. CASE Next
  <2>1. PICK q \in Procs :
        \/ \E r \in Reports : OpenLook(q, r) \/ ForgetLook(q, r)
        \/ \E s \in Seals, r \in Reports : AddLook(q, s, r)
        \/ \E s \in Seals :
              \/ EndLook(q, s) \/ DeleteLook(q, s)
              \/ PublishLook(q, s) \/ UnpublishLook(q, s)
              \/ HideLook(q, s, "hide") \/ HideLook(q, s, "unhide")
        \/ \E a \in Accounts : LeaveLook(q, a)
        \/ PurgeLook(q)
        \/ AddRows(q) \/ AddRecheck(q) \/ Tomb(q)
        \/ OpenWrite(q) \/ AddWrite(q) \/ EndWrite(q) \/ ForgetWrite(q)
        \/ DeleteWrite(q) \/ PurgeWrite(q) \/ ShowWrite(q)
        \/ Dies(q)
    BY <1>2 DEF Next
  <2>2. ASSUME NEW r \in Reports, OpenLook(q, r) PROVE SealInv' /\ Evolution
    BY <2>2, OpenLookStep
  <2>3. ASSUME NEW r \in Reports, ForgetLook(q, r) PROVE SealInv' /\ Evolution
    BY <2>3, ForgetLookStep
  <2>4. ASSUME NEW s \in Seals, NEW r \in Reports, AddLook(q, s, r) PROVE SealInv' /\ Evolution
    BY <2>4, AddLookStep
  <2>5. ASSUME NEW s \in Seals, EndLook(q, s) PROVE SealInv' /\ Evolution
    BY <2>5, EndLookStep
  <2>6. ASSUME NEW s \in Seals, DeleteLook(q, s) PROVE SealInv' /\ Evolution
    BY <2>6, DeleteLookStep
  <2>7. ASSUME NEW s \in Seals, PublishLook(q, s) PROVE SealInv' /\ Evolution
    BY <2>7, PublishLookStep
  <2>8. ASSUME NEW s \in Seals, UnpublishLook(q, s) PROVE SealInv' /\ Evolution
    BY <2>8, UnpublishLookStep
  <2>9. ASSUME NEW s \in Seals, NEW act \in {"hide", "unhide"}, HideLook(q, s, act)
        PROVE  SealInv' /\ Evolution
    BY <2>9, HideLookStep
  <2>10. ASSUME NEW a \in Accounts, LeaveLook(q, a) PROVE SealInv' /\ Evolution
    BY <2>10, LeaveLookStep
  <2>11. CASE PurgeLook(q)
    BY <2>11, PurgeLookStep
  <2>12. CASE AddRows(q) \/ AddRecheck(q) \/ Tomb(q) \/ Dies(q)
    BY <2>12, AddRowsStep, AddRecheckStep, TombStep, DiesStep
  <2>13. CASE OpenWrite(q) \/ AddWrite(q) \/ EndWrite(q) \/ ForgetWrite(q)
    BY <2>13, OpenStep, AddStep, EndStep, ForgetStep
  <2>14. CASE DeleteWrite(q) \/ PurgeWrite(q) \/ ShowWrite(q)
    BY <2>14, DeleteStep, PurgeStep, ShowStep
  <2> QED BY <2>1, <2>2, <2>3, <2>4, <2>5, <2>6, <2>7, <2>8, <2>9, <2>10, <2>11, <2>12,
             <2>13, <2>14
<1> QED BY <1>1, <1>2

\* The tables and the requests at work are in order, for any number of records, accounts,
\* reports and requests: the inductive invariant behind the results below.
THEOREM SealAlways == Spec => []SealInv
<1>1. SealInv /\ [Next]_vars => SealInv'
  BY SealStep
<1> QED BY <1>1, SealInit, PTL DEF Spec

\* The chain of a record verifies and its head and count are those of its last entry, unless
\* two transactions were at work on the record at once.
THEOREM ChainHoldsAlways == Spec => []ChainHolds
<1>1. SealInv => ChainHolds
  <2> SUFFICES ASSUME SealInv PROVE ChainHolds
    OBVIOUS
  <2>1. DbShape /\ Records
    BY DEF SealInv, Tables
  <2>2. TypeOK
    BY <2>1 DEF DbShape, TypeOK
  <2>3. ASSUME NEW s \in Seals, s \notin raced, seal[s].status \in {"open", "ended"}
        PROVE  Rows(s) # {} /\ Chained(s)
    <3>1. Chain(Rows(s), seal[s].count, seal[s].head)
      BY <2>1, <2>3 DEF Records, RecordOK, Lives
    <3>2. PICK n \in Nat : n = seal[s].count
      BY <2>1 DEF DbShape, SealRow
    <3>3. PICK h : h = seal[s].head
      OBVIOUS
    <3>4. Chain(Rows(s), n, h)
      BY <3>1, <3>2, <3>3
    <3>5. Rows(s) # {} /\ Cardinality(Rows(s)) = n /\ h = EntryHash(LastRow(s))
      BY <2>1, <3>4, ChainEnds
    <3>6. /\ \A u \in Rows(s) : u.pos \in 1..n
          /\ \A u, v \in Rows(s) : u.pos = v.pos => u = v
          /\ \A u \in Rows(s) : IF u.pos = 1 THEN u.prev = <<>>
                                ELSE \E v \in Rows(s) : v.pos = u.pos - 1 /\ u.prev = EntryHash(v)
      BY <3>4 DEF Chain
    <3> QED BY <3>2, <3>3, <3>5, <3>6 DEF Chained
  <2>4. \A s \in Seals \ raced : seal[s].status \in {"withdrawn", "gone"} => Rows(s) = {}
    BY <2>1 DEF Records, RecordOK
  <2> QED BY <2>2, <2>3, <2>4 DEF ChainHolds
<1> QED BY <1>1, SealAlways, PTL

\* An account opens no more records than it may, and no two records are public that were
\* published on the same operations.
THEOREM SealLimitsHold == Spec => []SealLimits
<1>1. SealInv => SealLimits
  BY DEF SealInv, Tables, Counted, Public, SealLimits
<1> QED BY <1>1, SealAlways, PTL

\* A record that goes on belongs to an account that exists and links reports that do, unless
\* a request that had read them commits after their deletion.
THEOREM NothingOrphanedHolds == Spec => []NothingOrphaned
<1>1. SealInv => NothingOrphaned
  BY DEF SealInv, Tables
<1> QED BY <1>1, SealAlways, PTL

\* An ended record is frozen, a tombstone stays what it is and what was ever published leaves
\* one, unless two transactions were at work on the record at once.
THEOREM FrozenStaysHolds == Spec => FrozenStays
<1>1. SealInv /\ [Next]_vars =>
        [\A s \in Seals \ raced' :
          /\ seal[s].status = "ended" =>
                /\ seal'[s].status # "open"
                /\ seal'[s].status = "ended" =>
                      seal'[s].head = seal[s].head /\ seal'[s].count = seal[s].count
          /\ seal[s].status \in {"withdrawn", "gone"} => seal'[s] = seal[s]
          /\ seal[s].since => seal'[s].since]_vars
  <2> SUFFICES ASSUME SealInv, [Next]_vars, NEW s \in Seals, s \notin raced'
               PROVE  /\ seal[s].status = "ended" =>
                            /\ seal'[s].status # "open"
                            /\ seal'[s].status = "ended" =>
                                  seal'[s].head = seal[s].head /\ seal'[s].count = seal[s].count
                      /\ seal[s].status \in {"withdrawn", "gone"} => seal'[s] = seal[s]
                      /\ seal[s].since => seal'[s].since
    OBVIOUS
  <2>1. Evolution
    BY SealStep
  <2>2. CASE seal[s].status # "none"
    BY <2>1, <2>2 DEF Evolution, Evolves
  <2>3. CASE seal[s].status = "none"
    <3>1. ~seal[s].since
      BY <2>3 DEF SealInv, Tables, Fresh, NoSeal
    <3> QED BY <2>3, <3>1
  <2> QED BY <2>2, <2>3
<1> QED BY <1>1, SealAlways, PTL DEF Spec, FrozenStays
=============================================================================
