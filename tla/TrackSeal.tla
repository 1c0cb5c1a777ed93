------------------------------- MODULE TrackSeal -------------------------------
(***************************************************************************)
(* The continuous track record (audit/track_seal_service.py,               *)
(* audit/store_hooks.py): a record opened on a paid report of one's own,   *)
(* continued with later ones as a chain of hashes, ended, published, hidden*)
(* by the owner of the site, deleted to a tombstone, purged.               *)
(*                                                                         *)
(* The database is PostgreSQL at READ COMMITTED, and no statement locks    *)
(* what it only reads.  So what a request reads, which it may do long      *)
(* before it writes, and what it writes are steps of their own; the writes *)
(* of a transaction that nothing can come between are one.  No row of the  *)
(* records has a unique key or a foreign key that a race could run into.   *)
(***************************************************************************)
EXTENDS Integers, Sequences, FiniteSets

CONSTANTS
    Accounts,     \* accounts.id
    Reports,      \* audits.id: paid reports with a supported statement
    OwnerOf,      \* the account that uploaded a report
    Ops,          \* the operations in its statement, numbered by their cut-off
    LastSeal,     \* bound: the records, numbered as they are opened
    MaxRecords,   \* MAX_RECORDS_PER_ACCOUNT: 5
    Procs,        \* requests at work at once
    MaxRequests,  \* bound: requests started
    None

ASSUME SealConstants ==
    /\ OwnerOf \in [Reports -> Accounts] /\ Ops \in [Reports -> Nat \ {0}]
    /\ {LastSeal, MaxRecords, MaxRequests} \subseteq Nat
    /\ None \notin Accounts \cup Reports

VARIABLES
    seal,      \* track_seals
    uploads,   \* track_seal_uploads: the entries of the chains
    quota,     \* track_seal_quota: records an account has opened, ever
    reports,   \* audits that are not deleted
    accounts,  \* accounts that are not deleted
    req,       \* the requests at work
    started,   \* how many were started
    raced,     \* records that two transactions were at work on at once
    late       \* reports and accounts deleted under a request that had read them

db == <<seal, uploads, quota, reports, accounts>>
vars == <<db, req, started, raced, late>>

Seals == 1..LastSeal

\* The hash of an entry stands for all it was made from: the operations of the
\* entry and of those before it.
Hash == Seq({Ops[r] : r \in Reports})
SealRow == [status : {"none", "open", "ended", "withdrawn", "gone"},
            account : Accounts \cup {None}, by : Accounts \cup {None},
            count : Nat, head : Hash, published : BOOLEAN, since : BOOLEAN,
            hash : Nat, hidden : BOOLEAN]
Upload == [seal : Seals, id : Nat, pos : Nat, report : Reports \cup {None},
           ops : Nat, prev : Hash]

NoSeal == [status |-> "none", account |-> None, by |-> None, count |-> 0, head |-> <<>>,
           published |-> FALSE, since |-> FALSE, hash |-> 0, hidden |-> FALSE]
Idle == [act |-> "none", pc |-> "", who |-> None, report |-> None, seals |-> {}, keys |-> {},
         ends |-> {}, count |-> 0, pos |-> 0, head |-> <<>>, ops |-> 0]

Init ==
    /\ seal = [s \in Seals |-> NoSeal]
    /\ uploads = {}
    /\ quota = [a \in Accounts |-> 0]
    /\ reports = Reports /\ accounts = Accounts
    /\ req = [q \in Procs |-> Idle]
    /\ started = 0 /\ raced = {} /\ late = {}

------------------------------------------------------------------------------
(* Rows.                                                                    *)

Exists(s) == seal[s].status \notin {"none", "gone"}
Rows(s) == {u \in uploads : u.seal = s}
Key(u) == <<u.seal, u.id>>
KeysOf(ss) == {Key(u) : u \in {v \in uploads : v.seal \in ss}}
LastRow(s) == CHOOSE u \in Rows(s) : \A v \in Rows(s) : v.pos <= u.pos
EntryHash(u) == Append(u.prev, u.ops)

\* An inserted row: its id is one no row of the record has.
Entry(s, pos, r, prev) ==
    [seal |-> s, pos |-> pos, report |-> r, ops |-> Ops[r], prev |-> prev,
     id |-> CHOOSE n \in 1..(Cardinality(Rows(s)) + 1) : \A u \in Rows(s) : u.id # n]

\* A deleted row; `by` remembers who opened it.
Gone(s) == [NoSeal EXCEPT !.status = "gone", !.by = seal[s].by]

\* What withdraw_seals leaves of a record that was ever published.
Tombstone(s) ==
    [seal[s] EXCEPT !.account = None, !.status = "withdrawn", !.published = FALSE,
                    !.hidden = FALSE, !.head = <<>>, !.hash = 0]

\* Mine(a, s): the record is of the account that asks, which is signed in.
Mine(a, s) == a \in accounts /\ Exists(s) /\ seal[s].account = a

------------------------------------------------------------------------------
(* Requests.                                                                *)

Start(q, new) ==
    /\ req[q] = Idle /\ started < MaxRequests
    /\ req' = [req EXCEPT ![q] = new]
    /\ started' = started + 1
    /\ UNCHANGED <<db, raced, late>>

Goes(q, new) == req' = [req EXCEPT ![q] = new] /\ UNCHANGED <<started, late>>

\* A transaction has read and not committed; add_upload reads its record in two
\* statements, and again when its transaction begins.
InTransaction(q) == req[q].act # "none" /\ req[q].pc # "check"

\* The records of ss another transaction is at work on, and those whose publication
\* the other is deciding on at once.
Beside(q, ss) ==
    LET others == {p \in Procs \ {q} : InTransaction(p)} IN
    {s \in ss : \E p \in others : s \in req[p].seals}
        \cup UNION {ss \cup req[p].seals : p \in
                {p \in others : req[p].act = "publish" /\ req[q].act = "publish"
                                /\ req[p].ops = req[q].ops}}

Commit(q) ==
    /\ req' = [req EXCEPT ![q] = Idle]
    /\ raced' = raced \cup Beside(q, req[q].seals)
    /\ UNCHANGED started

\* What q commits on is being deleted by another request.
Doomed(q) ==
    {r \in {req[q].report} : \E p \in Procs : req[p].act = "forget" /\ req[p].report = r}
        \cup {a \in {req[q].who} : \E p \in Procs : req[p].act = "leave" /\ req[p].who = a}

\* withdraw_seals has updated the row and not committed.
Locked(q) == \E p \in Procs \ {q} : req[p].pc = "delete" /\ req[p].ends \cap req[q].seals # {}

\* A request that ends before it commits: the process stops, the database refuses.
Dies(q) ==
    /\ req[q] # Idle
    /\ Goes(q, Idle)
    /\ UNCHANGED <<db, raced>>

------------------------------------------------------------------------------
(* open_record.                                                             *)

OpenLook(q, r) ==
    LET a == OwnerOf[r] IN
    /\ a \in accounts /\ r \in reports /\ quota[a] < MaxRecords
    /\ Start(q, [Idle EXCEPT !.act = "open", !.pc = "check", !.who = a, !.report = r])

\* Mutant of TakeQuota: what the first look saw is trusted.
TakeQuotaUnchecked(a) == quota' = [quota EXCEPT ![a] = @ + 1]

\* _take_quota: a conditional UPDATE, or the first row.
TakeQuota(a) == quota[a] < MaxRecords /\ quota' = [quota EXCEPT ![a] = @ + 1]

OpenWrite(q) ==
    LET a == req[q].who
        r == req[q].report IN
    /\ req[q].act = "open"
    /\ \/ /\ TakeQuota(a)
          /\ \E s \in Seals :
                /\ seal[s].status = "none" /\ \A t \in Seals : t < s => seal[t].status # "none"
                /\ seal' = [seal EXCEPT ![s] =
                     [NoSeal EXCEPT !.status = "open", !.account = a, !.by = a, !.count = 1,
                                    !.head = <<Ops[r]>>]]
                /\ uploads' = uploads \cup {Entry(s, 1, r, <<>>)}
       \/ ~(quota[a] < MaxRecords) /\ UNCHANGED <<seal, uploads, quota>>
    /\ Commit(q)
    /\ late' = late \cup Doomed(q)
    /\ UNCHANGED <<reports, accounts>>

------------------------------------------------------------------------------
(* add_upload.                                                              *)

\* Its first SELECT: the record.
AddLook(q, s, r) ==
    /\ Mine(OwnerOf[r], s) /\ seal[s].status = "open"
    /\ Start(q, [Idle EXCEPT !.act = "add", !.pc = "rows", !.seals = {s}, !.report = r,
                             !.head = seal[s].head])

\* Its second: the chain.  A report already linked, one that is gone, or a statement
\* that does not go on from the last one is refused.
AddRows(q) ==
    \E s \in req[q].seals :
        /\ req[q].act = "add" /\ req[q].pc = "rows"
        /\ IF /\ Rows(s) # {} /\ req[q].report \in reports
              /\ \A u \in Rows(s) : u.report # req[q].report
              /\ LastRow(s).ops < Ops[req[q].report]
           THEN Goes(q, [req[q] EXCEPT !.pc = "check", !.pos = LastRow(s).pos + 1,
                                       !.count = Cardinality(Rows(s))])
           ELSE Goes(q, Idle)
        /\ UNCHANGED <<db, raced>>

\* Mutant of AddGoesOn: the number of uploads is not compared again.
AddGoesOnWhileOpen(q, s) == seal[s].status = "open"

AddGoesOn(q, s) == seal[s].status = "open" /\ seal[s].count = req[q].count

\* After the re-audit: the transaction looks at the record again.
AddRecheck(q) ==
    \E s \in req[q].seals :
        /\ req[q].act = "add" /\ req[q].pc = "check"
        /\ Goes(q, IF AddGoesOn(q, s) THEN [req[q] EXCEPT !.pc = "write"] ELSE Idle)
        /\ UNCHANGED <<db, raced>>

AddWrite(q) ==
    \E s \in req[q].seals :
        LET row == Entry(s, req[q].pos, req[q].report, req[q].head) IN
        /\ req[q].act = "add" /\ req[q].pc = "write" /\ ~Locked(q)
        /\ uploads' = uploads \cup {row}
        /\ seal' = [seal EXCEPT ![s] =
             IF Exists(s) THEN [@ EXCEPT !.head = EntryHash(row), !.count = row.pos] ELSE @]
        /\ Commit(q)
        /\ late' = late \cup Doomed(q)
        /\ UNCHANGED <<quota, reports, accounts>>

------------------------------------------------------------------------------
(* end_record, and delete_audit of a linked report.                         *)

EndLook(q, s) ==
    \E a \in Accounts :
        /\ Mine(a, s) /\ seal[s].status = "open"
        /\ Start(q, [Idle EXCEPT !.act = "end", !.pc = "write", !.seals = {s}, !.ends = {s}])

\* end_seals, for the records that were open when it looked.
Ended(q) ==
    [s \in Seals |-> IF s \in req[q].ends /\ Exists(s)
                     THEN [seal[s] EXCEPT !.status = "ended"] ELSE seal[s]]

EndWrite(q) ==
    /\ req[q].act = "end" /\ ~Locked(q)
    /\ seal' = Ended(q)
    /\ Commit(q)
    /\ UNCHANGED <<uploads, quota, reports, accounts, late>>

\* Mutant of LinkedTo: only the newest link counts.
LinkedToLast(r) == {u \in uploads : u.report = r /\ u = LastRow(u.seal)}

LinkedTo(r) == {u \in uploads : u.report = r}

ForgetLook(q, r) ==
    LET ss == {u.seal : u \in LinkedTo(r)} IN
    /\ r \in reports
    /\ Start(q, [Idle EXCEPT !.act = "forget", !.pc = "write", !.report = r, !.seals = ss,
                             !.keys = {Key(u) : u \in LinkedTo(r)},
                             !.ends = {s \in ss : seal[s].status = "open"}])

\* The UPDATE clears the links it finds, maybe one committed since the records were
\* looked up, in a record that is then not ended; with no record found it does not run.
ForgetWrite(q) ==
    LET r == req[q].report
        found == {Key(u) : u \in LinkedTo(r)} IN
    /\ req[q].act = "forget" /\ ~Locked(q)
    /\ \E keys \in IF req[q].keys = {} THEN {{}} ELSE {req[q].keys, found} :
          /\ uploads' = {IF Key(u) \in keys THEN [u EXCEPT !.report = None] ELSE u : u \in uploads}
          /\ raced' = raced \cup Beside(q, req[q].seals)
                            \cup {k[1] : k \in {k \in keys : k[1] \notin req[q].seals}}
    /\ seal' = Ended(q)
    /\ reports' = reports \ {r}
    /\ late' = late \cup {x \in {r} : \E p \in Procs \ {q} : req[p].report = r}
    /\ req' = [req EXCEPT ![q] = Idle]
    /\ UNCHANGED <<quota, accounts, started>>

------------------------------------------------------------------------------
(* delete_record and delete_account: withdraw_seals; and on_purge.          *)

Withdrawing(act, a, ss) ==
    [Idle EXCEPT !.act = act, !.pc = "tomb", !.who = a, !.seals = ss, !.keys = KeysOf(ss)]

DeleteLook(q, s) ==
    \E a \in Accounts : Mine(a, s) /\ Start(q, Withdrawing("delete", a, {s}))

LeaveLook(q, a) ==
    /\ a \in accounts
    /\ Start(q, Withdrawing("leave", a, {s \in Seals : Exists(s) /\ seal[s].account = a}))

\* The UPDATE keeps a lock on the rows of published records, and finds no others.
Tomb(q) ==
    /\ req[q].pc = "tomb" /\ ~Locked(q)
    /\ Goes(q, [req[q] EXCEPT !.pc = "delete",
                              !.ends = {s \in req[q].seals : Exists(s) /\ seal[s].since}])
    /\ UNCHANGED <<db, raced>>

\* The DELETE takes those not published by now.  The account goes in the same commit.
DeleteWrite(q) ==
    LET a == req[q].who
        leaves == req[q].act = "leave" IN
    /\ req[q].pc = "delete"
    /\ ~\E p \in Procs \ {q} : req[p].pc = "delete" /\ req[p].ends \cap (req[q].seals \ req[q].ends) # {}
    /\ seal' = [s \in Seals |->
          IF s \in req[q].ends THEN Tombstone(s)
          ELSE IF s \in req[q].seals /\ Exists(s) /\ ~seal[s].since THEN Gone(s) ELSE seal[s]]
    /\ uploads' = {u \in uploads : Key(u) \notin req[q].keys}
    /\ quota' = IF leaves THEN [quota EXCEPT ![a] = 0] ELSE quota
    /\ accounts' = IF leaves THEN accounts \ {a} ELSE accounts
    /\ late' = late \cup {x \in {a} :
                             leaves /\ \E p \in Procs : req[p].act = "open" /\ req[p].who = a}
    /\ Commit(q)
    /\ UNCHANGED reports

\* Mutant of Purgeable: published records go too.
PurgeableAll == {s \in Seals : seal[s].status = "ended"}

Purgeable == {s \in Seals : seal[s].status = "ended" /\ ~seal[s].since}

PurgeLook(q) ==
    \E ss \in SUBSET Purgeable :   \* those that ended before the retention window
        /\ ss # {}
        /\ Start(q, [Idle EXCEPT !.act = "purge", !.pc = "write", !.seals = ss, !.keys = KeysOf(ss)])

PurgeWrite(q) ==
    /\ req[q].act = "purge" /\ ~Locked(q)
    /\ seal' = [s \in Seals |-> IF s \in req[q].seals /\ Exists(s) THEN Gone(s) ELSE seal[s]]
    /\ uploads' = {u \in uploads : Key(u) \notin req[q].keys}
    /\ Commit(q)
    /\ UNCHANGED <<quota, reports, accounts, late>>

------------------------------------------------------------------------------
(* publish, unpublish, hide and unhide.                                     *)

\* Another public record has these operations.
AlreadyPublic(s, ops) == \E t \in Seals \ {s} : seal[t].published /\ seal[t].hash = ops

PublishLook(q, s) ==
    \E a \in Accounts :
        /\ Mine(a, s) /\ seal[s].status # "withdrawn" /\ Rows(s) # {}
        /\ ~AlreadyPublic(s, LastRow(s).ops)
        /\ Start(q, [Idle EXCEPT !.act = "publish", !.pc = "write", !.seals = {s},
                                 !.ops = LastRow(s).ops])

UnpublishLook(q, s) ==
    \E a \in Accounts :
        /\ Mine(a, s) /\ seal[s].published
        /\ Start(q, [Idle EXCEPT !.act = "unpublish", !.pc = "write", !.seals = {s}])

\* _set_hidden, by the owner of the site.
HideLook(q, s, act) ==
    /\ Exists(s) /\ seal[s].status # "withdrawn" /\ seal[s].hidden # (act = "hide")
    /\ Start(q, [Idle EXCEPT !.act = act, !.pc = "write", !.seals = {s}])

Shown(q, s) ==
    CASE req[q].act = "publish" ->
            [seal[s] EXCEPT !.published = TRUE, !.since = TRUE, !.hash = req[q].ops]
      [] req[q].act = "unpublish" -> [seal[s] EXCEPT !.published = FALSE]
      [] OTHER -> [seal[s] EXCEPT !.hidden = (req[q].act = "hide")]

ShowWrite(q) ==
    \E s \in req[q].seals :
        /\ req[q].act \in {"publish", "unpublish", "hide", "unhide"} /\ ~Locked(q)
        /\ seal' = [seal EXCEPT ![s] = IF Exists(s) THEN Shown(q, s) ELSE @]
        /\ Commit(q)
        /\ UNCHANGED <<uploads, quota, reports, accounts, late>>

------------------------------------------------------------------------------
Next ==
    \E q \in Procs :
        \/ \E r \in Reports : OpenLook(q, r) \/ ForgetLook(q, r)
        \/ \E s \in Seals, r \in Reports : AddLook(q, s, r)
        \/ \E s \in Seals :
              \/ EndLook(q, s) \/ DeleteLook(q, s)
              \/ PublishLook(q, s) \/ UnpublishLook(q, s)
              \/ HideLook(q, s, "hide") \/ HideLook(q, s, "unhide")
        \/ \E a \in Accounts : LeaveLook(q, a)
        \/ PurgeLook(q)
        \/ AddRows(q) \/ AddRecheck(q) \/ Tomb(q)
        \/ OpenWrite(q) \/ AddWrite(q) \/ EndWrite(q) \/ ForgetWrite(q)
        \/ DeleteWrite(q) \/ PurgeWrite(q) \/ ShowWrite(q)
        \/ Dies(q)

Spec == Init /\ [][Next]_vars

------------------------------------------------------------------------------
TypeOK ==
    /\ \A s \in Seals : seal[s] \in SealRow
    /\ \A u \in uploads : u \in Upload
    /\ quota \in [Accounts -> Nat] /\ reports \subseteq Reports /\ accounts \subseteq Accounts
    /\ raced \subseteq Seals /\ late \subseteq Reports \cup Accounts

\* verify_chain, for the rows a page shows, and the record agrees with it.
Chained(s) ==
    /\ \A u \in Rows(s) : u.pos \in 1..Cardinality(Rows(s))
    /\ \A u, v \in Rows(s) : u.pos = v.pos => u = v
    /\ \A u \in Rows(s) : IF u.pos = 1 THEN u.prev = <<>>
                          ELSE \E v \in Rows(s) : v.pos = u.pos - 1 /\ u.prev = EntryHash(v)
    /\ seal[s].count = Cardinality(Rows(s)) /\ seal[s].head = EntryHash(LastRow(s))

\* However long a request re-audits what it has read, and whatever others commit
\* meanwhile, the chain of a record verifies and the record's head and count are those
\* of its last entry; of a deleted record no entry is left.  Unless two transactions were
\* at work on the record at once: nothing locks what they decide on.
ChainHolds ==
    /\ TypeOK
    /\ \A s \in Seals \ raced :
          /\ seal[s].status \in {"open", "ended"} => Rows(s) # {} /\ Chained(s)
          /\ seal[s].status \in {"withdrawn", "gone"} => Rows(s) = {}

\* An ended record is frozen, a tombstone stays what it is, and what was ever published
\* leaves a tombstone: no purge and no deletion takes it away.  Same exception.
FrozenStays ==
    [][\A s \in Seals \ raced' :
          /\ seal[s].status = "ended" =>
                /\ seal'[s].status # "open"
                /\ seal'[s].status = "ended" =>
                      seal'[s].head = seal[s].head /\ seal'[s].count = seal[s].count
          /\ seal[s].status \in {"withdrawn", "gone"} => seal'[s] = seal[s]
          /\ seal[s].since => seal'[s].since]_vars

\* An account opens no more records than it may, also by deleting some, and no two
\* records are public that were published on the same operations.
SealLimits ==
    /\ \A a \in accounts : Cardinality({s \in Seals : seal[s].by = a}) <= MaxRecords
    /\ \A s, t \in Seals \ raced :
          s # t /\ seal[s].published /\ seal[t].published => seal[s].hash # seal[t].hash

\* A record that goes on belongs to an account that exists, and its chain links reports
\* that do: deleting a report ends the records it is linked in, deleting an account takes
\* its records along.  Unless a request that had read the report or the account commits
\* after their deletion.
NothingOrphaned ==
    \A s \in Seals \ raced :
        /\ seal[s].status \in {"open", "ended"} => seal[s].account \in accounts \cup late
        /\ \A u \in Rows(s) :
              \/ u.report \in reports \cup late
              \/ u.report = None /\ seal[s].status = "ended"

------------------------------------------------------------------------------
(* What the documentation says and the code does not keep.                  *)

\* docs/AUDIT_TRACK_SEAL.md:109-110: the transaction that adds an upload "re-checks the record
\* is still open with the same number of uploads".
EveryChainHolds == \A s \in Seals : seal[s].status = "open" => Chained(s)

\* docs/AUDIT_TRACK_SEAL.md:150-151: "A published record, or its tombstone, is never purged."
NeverPurged == [][\A s \in Seals : seal[s].since => seal'[s].since]_vars

\* track_seal_service.py:1223: "one set of operations (the content hash of the latest
\* upload) admits one public record".
OnePublicRecord ==
    \A s, t \in Seals \ raced :
        s # t /\ seal[s].published /\ seal[t].published =>
            LastRow(s).ops # LastRow(t).ops

\* store_hooks.py:219: "A deleted report that is a link of a seal ends that seal".
DeletedReportsEnd ==
    \A s \in Seals, u \in uploads :
        seal[s].status = "open" /\ u.seal = s => u.report \in reports
================================================================================
