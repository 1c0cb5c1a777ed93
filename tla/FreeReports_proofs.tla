------------------------ MODULE FreeReports_proofs ------------------------
(***************************************************************************)
(* Proofs about FreeReports, for any number of accounts, inboxes, devices, *)
(* files, networks, cards and uploads, and any limits: the unique claims   *)
(* give one free full report and keep the month's limits, whatever runs at *)
(* once and whatever dies, and a failed upload gives back what it took.    *)
(***************************************************************************)
EXTENDS FreeReports, FiniteSetTheorems, WellFoundedInduction, TLAPS

------------------------------------------------------------------------------
(* Claims.                                                                  *)

\* free_claims.key is unique.
Unique == \A c, d \in claims : c.key = d.key => c = d

\* The reservation `by` has every one of the keys.
Holds(by, keys) == \A k \in keys : [key |-> k, by |-> by] \in claims

LEMMA Reservations ==
  ASSUME NEW x, NEW y
  PROVE  /\ ByUpload(x) = ByUpload(y) => x = y
         /\ ByOpening(x) = ByOpening(y) => x = y
         /\ ByUpload(x) # ByOpening(y)
         /\ ByUpload(x).act = "upload" /\ ByOpening(x).act = "open"
         /\ ByCard(x).act = "card"
<1>1. /\ ByUpload(x).of = x /\ ByUpload(y).of = y
      /\ ByOpening(x).of = x /\ ByOpening(y).of = y
  BY DEF ByUpload, ByOpening
<1> QED BY <1>1 DEF ByUpload, ByOpening, ByCard

LEMMA AttachReservations ==
  ASSUME NEW x, NEW z, NEW y
  PROVE  /\ ByAttach(x, z) # ByUpload(y) /\ ByAttach(x, z) # ByOpening(y)
         /\ ByAttach(x, z).act = "attach"
  BY DEF ByAttach, ByUpload, ByOpening

\* claim_free gets a slot that nobody has, if there is one.
LEMMA FirstFreeIsFree ==
  ASSUME NEW kind, NEW of, NEW cap \in Nat, ~Full(Slots(kind, of, cap))
  PROVE  /\ FirstFree(Slots(kind, of, cap)) \in Slots(kind, of, cap)
         /\ ~Taken(FirstFree(Slots(kind, of, cap)))
<1> DEFINE group == Slots(kind, of, cap)
           T == {n \in 1..cap : ~Taken(Key(kind, of, n))}
<1>1. T \subseteq Nat /\ T # {}
  BY DEF Full, Slots
<1>2. PICK n \in T : \A m \in T : ~(<<m, n>> \in OpToRel(<, Nat))
  BY <1>1, NatLessThanWellFounded, WFMin
<1>3. \A m \in T : ~(m < n)
  BY <1>1, <1>2 DEF OpToRel
<1>4. /\ Key(kind, of, n) \in group
      /\ ~Taken(Key(kind, of, n))
      /\ \A j \in group : j.n < Key(kind, of, n).n => Taken(j)
  BY <1>3 DEF Slots, Key
<1>5. \E k \in group : ~Taken(k) /\ \A j \in group : j.n < k.n => Taken(j)
  BY <1>4
<1> QED BY <1>5 DEF FirstFree

\* The groups that the code claims from are numbered slots of a limit.
Groups(gs) == \A g \in gs : \E kind \in Kinds : \E of : \E cap \in Nat : g = Slots(kind, of, cap)

\* Claiming adds keys that were free, all under one reservation.
LEMMA TakeAdds ==
  ASSUME Unique, NEW by, NEW keys, NEW gs, Groups(gs), CanTake(keys, gs), Take(by, keys, gs)
  PROVE  /\ Unique'
         /\ claims \subseteq claims'
         /\ Holds(by, keys)'
         /\ \A c \in claims' : \/ c \in claims
                              \/ /\ c.by = by
                                 /\ c.key \in keys \/ \E g \in gs : c.key \in g
<1> DEFINE new == keys \cup {FirstFree(g) : g \in gs}
<1>1. claims' = claims \cup {[key |-> k, by |-> by] : k \in new}
  BY DEF Take
<1>2. \A g \in gs : FirstFree(g) \in g /\ ~Taken(FirstFree(g))
  BY FirstFreeIsFree DEF Groups, CanTake
<1>3. \A k \in new : ~Taken(k) /\ (k \in keys \/ \E g \in gs : k \in g)
  BY <1>2 DEF CanTake
<1> HIDE DEF new
<1>4. Unique'
  BY <1>1, <1>3 DEF Unique, Taken
<1>5. Holds(by, keys)'
  <2>1. keys \subseteq new
    BY DEF new
  <2> QED BY <1>1, <2>1 DEF Holds
<1> QED BY <1>1, <1>3, <1>4, <1>5

------------------------------------------------------------------------------
(* The inductive invariant.                                                 *)

\* The tables, but for the claims and the requests.
Rows ==
    /\ open \subseteq Accounts /\ verified \subseteq Accounts
    /\ inbox \in [Accounts -> Inboxes] /\ checked \in [Accounts -> Cards \cup {Nobody}]
    /\ credits \in [Accounts -> Nat]
    /\ welcome \subseteq [account : Accounts, upload : Uploads, inbox : Inboxes, card : BOOLEAN]
    /\ previews \subseteq Uploads \X Accounts
    /\ pending \subseteq Uploads \X Owners /\ held \subseteq Uploads \X Accounts

ClaimOK(key, by) == key.kind \in Kinds /\ by.act \in {"upload", "open", "attach", "card"}

ClaimsOK ==
    /\ Unique
    /\ \A c \in claims : ClaimOK(c.key, c.by) /\ c = [key |-> c.key, by |-> c.by]

\* A request under way knows who it works for, and the report of an upload exists
\* once its audit has run.
UploadOK(me, rep) ==
    /\ me \in UploadState
    /\ rep \in {"none", "locked", "paid", "deleted"}
    /\ me.plan \in {"welcome", "preview", "credit"} => me.account \in Accounts /\ me.inbox \in Inboxes
    /\ me.pc \in {"check", "claim"} => me.plan = "welcome"
    /\ me.pc = "slots" => me.plan \in {"preview", "anon"}
    /\ me.pc \in {"run", "finish"} => me.plan # ""
    /\ me.pc = "release" /\ rep # "none" => me.account \in Accounts
    /\ me.pc \in {"reclaim", "drop", "note", "pend"} => me.account \in Accounts
    /\ me.pc \in {"new", "check", "claim", "slots", "run"} => rep = "none"

Uploading ==
    /\ upload = [u \in Uploads |-> upload[u]] /\ report = [u \in Uploads |-> report[u]]
    /\ \A u \in Uploads : UploadOK(upload[u], report[u])

Openings ==
    /\ opening \in [Accounts -> OpeningState]
    /\ \A a \in Accounts :
        /\ opening[a].pc \in {"claim", "grant", "giveBack"} => opening[a].upload \in Uploads
        /\ opening[a].pc = "grant" => opening[a].inbox \in Inboxes

Attaching ==
    /\ attach \in [Accounts -> AttachState]
    /\ \A a \in Accounts : attach[a].pc \notin {"none", "dead"} => attach[a].upload \in Uploads

Shape == Rows /\ ClaimsOK /\ Uploading /\ Openings /\ Attaching

\* What waits for an account, or is about to be opened, has been uploaded.
Known ==
    /\ \A p \in pending : upload[p[1]].pc # "new"
    /\ \A a \in Accounts :
        opening[a].pc \in {"claim", "grant"} => upload[opening[a].upload].pc # "new"

\* The keys of an upload's own claim, of an opening's and of a row of welcome_reports.
OwnKeys(me) == WelcomeKeys(me.account, me.inbox, me.device, me.file, me.card)
OpeningKeys(a) ==
    LET me == upload[opening[a].upload] IN
    WelcomeKeys(a, opening[a].inbox, me.device, me.file, opening[a].card)
RowKeys(w) == WelcomeKeys(w.account, w.inbox, upload[w.upload].device, upload[w.upload].file, w.card)

\* A request that is going to grant the free full report has claimed it.
UploadHolds ==
    \A u \in Uploads :
        upload[u].plan = "welcome" /\ upload[u].pc \in {"run", "finish"} =>
            Holds(ByUpload(u), OwnKeys(upload[u]))

OpeningHolds ==
    \A a \in Accounts : opening[a].pc = "grant" => Holds(ByOpening(a), OpeningKeys(a))

\* A free full report keeps its claims under the request that granted it, and no
\* release of that reservation is to come.
KeptBy(w) ==
    \/ upload[w.upload].pc \in {"done", "dead"} /\ Holds(ByUpload(w.upload), RowKeys(w))
    \/ opening[w.account].pc \notin {"grant", "release"} /\ Holds(ByOpening(w.account), RowKeys(w))

Granted ==
    /\ \A w \in welcome : report[w.upload] \in {"paid", "deleted"} /\ KeptBy(w)
    /\ \A v, w \in welcome : v # w => v.account # w.account /\ v.upload # w.upload

Promises == Known /\ UploadHolds /\ OpeningHolds /\ Granted

FreeInv == Shape /\ Promises

------------------------------------------------------------------------------
(* The claims of this code.                                                 *)

LEMMA CodeGroups ==
  ASSUME NEW a, NEW net
  PROVE  /\ \A card : Groups(WelcomeGroups(net, card))
         /\ Groups(PreviewGroups(a, net)) /\ Groups(AnonGroups(net))
         /\ Groups({})
<1> {WelcomeCap, Previews, NetPreviews, AnonCap} \subseteq Nat
  BY FreeConstants
<1> QED BY DEF Groups, WelcomeGroups, PreviewGroups, AnonGroups, Kinds

LEMMA WelcomeKeysKinds ==
  ASSUME NEW a, NEW m, NEW d, NEW f, NEW card, NEW k \in WelcomeKeys(a, m, d, f, card)
  PROVE  k.kind \in Kinds
  BY DEF WelcomeKeys, Key, Kinds

\* Keys of the code, and the reservation of a request.
Kinded(keys) == \A k \in keys : k.kind \in Kinds
Request(by) == by.act \in {"upload", "open", "attach"}

LEMMA Requests ==
  ASSUME NEW x, NEW z
  PROVE  Request(ByUpload(x)) /\ Request(ByOpening(x)) /\ Request(ByAttach(x, z)) /\ Kinded({})
<1>1. /\ ByUpload(x).act = "upload" /\ ByOpening(x).act = "open"
      /\ ByAttach(x, z).act = "attach"
  BY Reservations, AttachReservations
<1> QED BY <1>1 DEF Request, Kinded

LEMMA KeysKinded ==
  ASSUME NEW a, NEW m, NEW d, NEW f, NEW card
  PROVE  Kinded(WelcomeKeys(a, m, d, f, card))
  BY WelcomeKeysKinds DEF Kinded

LEMMA TakeShape ==
  ASSUME ClaimsOK, NEW by, Request(by), NEW keys, Kinded(keys),
         NEW gs, Groups(gs), CanTake(keys, gs), Take(by, keys, gs)
  PROVE  ClaimsOK' /\ claims \subseteq claims' /\ Holds(by, keys)'
<1>1. \A g \in gs : \A k \in g : k.kind \in Kinds
  BY DEF Groups, Slots, Key
<1>2. Unique' /\ claims \subseteq claims' /\ Holds(by, keys)'
  BY TakeAdds DEF ClaimsOK
<1>3. \A c \in claims' : ClaimOK(c.key, c.by)
  BY <1>1, TakeAdds DEF ClaimsOK, ClaimOK, Kinded, Request
<1>4. \A c \in claims' : c = [key |-> c.key, by |-> c.by]
  BY DEF ClaimsOK, Take
<1> QED BY <1>2, <1>3, <1>4 DEF ClaimsOK

LEMMA ReleaseShape ==
  ASSUME ClaimsOK, NEW by, Release(by)
  PROVE  /\ ClaimsOK'
         /\ \A c \in claims : c.by # by => c \in claims'
  BY DEF ClaimsOK, Unique, Release

------------------------------------------------------------------------------
(* Steps of one request.                                                    *)

\* One upload moves on.
LEMMA UploadMoves ==
  ASSUME Uploading, NEW u \in Uploads, NEW me, NEW rep, UploadOK(me, rep),
         upload' = [upload EXCEPT ![u] = me],
         report' = [report EXCEPT ![u] = rep]
  PROVE  Uploading'
<1>1. /\ upload' = [v \in Uploads |-> IF v = u THEN me ELSE upload[v]]
      /\ report' = [v \in Uploads |-> IF v = u THEN rep ELSE report[v]]
  BY DEF Uploading
<1>2. \A v \in Uploads : UploadOK(upload[v], report[v])
  BY DEF Uploading
<1> QED BY <1>1, <1>2 DEF Uploading

\* What Go and GoAs leave of the request.
Same(new, me) ==
    /\ new.account = me.account /\ new.inbox = me.inbox /\ new.card = me.card
    /\ new.device = me.device /\ new.file = me.file /\ new.net = me.net

Points == {"check", "claim", "slots", "run", "finish", "release", "reclaim",
           "drop", "note", "pend", "done", "dead"}

LEMMA GoMoves ==
  ASSUME Uploading, NEW u \in Uploads,
         NEW pc \in Points, Go(u, pc)
  PROVE  \E new \in UploadState :
           /\ upload' = [upload EXCEPT ![u] = new]
           /\ new.pc = pc /\ new.plan = upload[u].plan /\ Same(new, upload[u])
<1> DEFINE new == [upload[u] EXCEPT !.pc = pc]
<1>1. upload[u] \in UploadState /\ upload' = [upload EXCEPT ![u] = new]
  BY DEF Uploading, UploadOK, Go
<1>2. new \in UploadState /\ new.pc = pc /\ new.plan = upload[u].plan /\ Same(new, upload[u])
  BY <1>1 DEF Same, UploadState, Points
<1> QED BY <1>1, <1>2

LEMMA GoAsMoves ==
  ASSUME Uploading, NEW u \in Uploads, NEW pc \in {"slots", "run", "done"},
         NEW plan \in {"preview", "credit", ""}, GoAs(u, pc, plan)
  PROVE  \E new \in UploadState :
           /\ upload' = [upload EXCEPT ![u] = new]
           /\ new.pc = pc /\ new.plan = plan /\ Same(new, upload[u])
<1> DEFINE new == [upload[u] EXCEPT !.pc = pc, !.plan = plan]
<1>1. upload[u] \in UploadState /\ upload' = [upload EXCEPT ![u] = new]
  BY DEF Uploading, UploadOK, GoAs
<1>2. new \in UploadState /\ new.pc = pc /\ new.plan = plan /\ Same(new, upload[u])
  BY <1>1 DEF Same, UploadState
<1> QED BY <1>1, <1>2

\* What an upload that is not the free full report after all becomes.
LEMMA FallBackMoves ==
  ASSUME Uploading, NEW u \in Uploads, upload[u].pc \in {"check", "claim"}, FallBack(u)
  PROVE  \E new \in UploadState :
           /\ upload' = [upload EXCEPT ![u] = new]
           /\ \/ new.pc = "slots" /\ new.plan = "preview"
              \/ new.pc = "run" /\ new.plan = "credit"
              \/ new.pc = "done" /\ new.plan = ""
           /\ Same(new, upload[u])
<1> DEFINE plan == PreviewOrCredit(upload[u].account, upload[u].net)
<1>1. plan \in {"preview", "credit", ""}
  BY DEF PreviewOrCredit
<1>2. GoAs(u, CASE plan = "preview" -> "slots" [] plan = "credit" -> "run" [] plan = "" -> "done", plan)
  BY DEF FallBack
<1> HIDE DEF plan
<1>3. CASE plan = "preview"
  BY <1>1, <1>2, <1>3, GoAsMoves
<1>4. CASE plan = "credit"
  BY <1>1, <1>2, <1>4, GoAsMoves
<1>5. CASE plan = ""
  BY <1>1, <1>2, <1>5, GoAsMoves
<1> QED BY <1>1, <1>3, <1>4, <1>5

\* An upload that moves on keeps its marks; only its own claims may go, and then
\* nothing was granted under them.
LEMMA UploadKeeps ==
  ASSUME Shape, Promises, NEW u \in Uploads, NEW me, NEW rep, UploadOK(me, rep),
         upload' = [upload EXCEPT ![u] = me], report' = [report EXCEPT ![u] = rep],
         upload[u].pc \notin {"done", "dead"}, me.pc # "new",
         upload[u].pc # "new" => me.device = upload[u].device /\ me.file = upload[u].file,
         report[u] \in {"paid", "deleted"} => rep \in {"paid", "deleted"},
         \A c \in claims : c.by # ByUpload(u) => c \in claims',
         UNCHANGED <<welcome, opening>>,
         \A q \in pending' : q \in pending \/ q[1] = u,
         me.plan = "welcome" /\ me.pc \in {"run", "finish"} => Holds(ByUpload(u), OwnKeys(me))'
  PROVE  Uploading' /\ Promises'
<1>1. Uploading'
  BY UploadMoves DEF Shape
<1>2. /\ upload'[u] = me /\ report'[u] = rep
      /\ \A v \in Uploads \ {u} : upload'[v] = upload[v] /\ report'[v] = report[v]
  BY DEF Shape, Uploading
<1>3. \A w \in welcome : w.upload \in Uploads /\ w.account \in Accounts
  BY DEF Shape, Rows
<1>4. Known'
  BY <1>2 DEF Known, Promises, Shape, Openings, Rows
<1>5. UploadHolds'
  <2> SUFFICES ASSUME NEW v \in Uploads, upload'[v].plan = "welcome", upload'[v].pc \in {"run", "finish"}
               PROVE  Holds(ByUpload(v), OwnKeys(upload[v]))'
    BY DEF UploadHolds
  <2>1. CASE v = u
    BY <2>1, <1>2
  <2>2. CASE v # u
    <3>1. Holds(ByUpload(v), OwnKeys(upload[v])) /\ upload'[v] = upload[v]
      BY <2>2, <1>2 DEF Promises, UploadHolds
    <3> QED BY <3>1, <2>2, Reservations DEF Holds, OwnKeys
  <2> QED BY <2>1, <2>2
<1>6. OpeningHolds'
  <2> SUFFICES ASSUME NEW a \in Accounts, opening[a].pc = "grant"
               PROVE  Holds(ByOpening(a), OpeningKeys(a))'
    BY DEF OpeningHolds
  <2>1. /\ Holds(ByOpening(a), OpeningKeys(a))
        /\ opening[a].upload \in Uploads /\ upload[opening[a].upload].pc # "new"
    BY DEF Promises, OpeningHolds, Known, Shape, Openings
  <2>2. OpeningKeys(a)' = OpeningKeys(a)
    BY <2>1, <1>2 DEF OpeningKeys
  <2> QED BY <2>1, <2>2, Reservations DEF Holds
<1>7. Granted'
  <2> SUFFICES ASSUME NEW w \in welcome
               PROVE  report'[w.upload] \in {"paid", "deleted"} /\ KeptBy(w)'
    BY DEF Granted, Promises
  <2>1. /\ report[w.upload] \in {"paid", "deleted"} /\ KeptBy(w)
        /\ w.upload \in Uploads /\ upload[w.upload].pc # "new"
    BY <1>3 DEF Granted, Promises, Shape, Uploading, UploadOK
  <2>2. RowKeys(w)' = RowKeys(w)
    BY <2>1, <1>2 DEF RowKeys
  <2>3. CASE upload[w.upload].pc \in {"done", "dead"} /\ Holds(ByUpload(w.upload), RowKeys(w))
    BY <2>1, <2>2, <2>3, <1>2, Reservations DEF Holds, KeptBy
  <2>4. CASE opening[w.account].pc \notin {"grant", "release"} /\ Holds(ByOpening(w.account), RowKeys(w))
    BY <2>1, <2>2, <2>4, <1>2, Reservations DEF Holds, KeptBy
  <2> QED BY <2>1, <2>3, <2>4 DEF KeptBy
<1> QED BY <1>1, <1>4, <1>5, <1>6, <1>7 DEF Promises

LEMMA CheckKeeps ==
  ASSUME FreeInv, NEW u \in Uploads, Check(u)
  PROVE  FreeInv'
<1>0. Uploading /\ UploadOK(upload[u], report[u]) /\ upload[u].pc = "check" /\ upload[u].plan = "welcome"
  BY DEF FreeInv, Shape, Uploading, UploadOK, Check
<1>1. PICK new \in UploadState :
        /\ upload' = [upload EXCEPT ![u] = new] /\ Same(new, upload[u])
        /\ \/ new.pc = "claim" /\ new.plan = "welcome"
           \/ new.pc = "slots" /\ new.plan = "preview"
           \/ new.pc = "run" /\ new.plan = "credit"
           \/ new.pc = "done" /\ new.plan = ""
  <2>1. CASE Go(u, "claim")
    <3>1. PICK new \in UploadState :
            /\ upload' = [upload EXCEPT ![u] = new]
            /\ new.pc = "claim" /\ new.plan = upload[u].plan /\ Same(new, upload[u])
      BY <1>0, <2>1, GoMoves, Zenon DEF Points
    <3> QED BY <1>0, <3>1
  <2>2. CASE FallBack(u)
    BY <1>0, <2>2, FallBackMoves
  <2> QED BY <2>1, <2>2 DEF Check
<1>2. UploadOK(new, report[u])
  BY <1>0, <1>1 DEF UploadOK, Same
<1>3. UNCHANGED <<people, credits, claims, rows, opening, attach>> /\ report' = [report EXCEPT ![u] = report[u]]
  BY <1>0 DEF Check, rows, Uploading
<1>4. Uploading' /\ Promises'
  BY <1>0, <1>1, <1>2, <1>3, UploadKeeps DEF FreeInv, rows, Same
<1> QED BY <1>3, <1>4 DEF FreeInv, Shape, Rows, ClaimsOK, Unique, Openings, Attaching, rows, people

\* An upload past its claims goes on to another point of the handler.
LEMMA LaterMoves ==
  ASSUME FreeInv, NEW u \in Uploads,
         NEW pc \in {"finish", "release", "reclaim", "drop", "note", "pend", "done", "dead"},
         NEW rep \in {"none", "locked", "paid", "deleted"},
         Go(u, pc), report' = [report EXCEPT ![u] = rep],
         upload[u].pc \notin {"new", "done", "dead"},
         pc = "finish" => upload[u].pc = "run",
         pc = "release" /\ rep # "none" => upload[u].account \in Accounts,
         pc \in {"reclaim", "drop", "note", "pend"} => upload[u].account \in Accounts,
         report[u] \in {"paid", "deleted"} => rep \in {"paid", "deleted"},
         UNCHANGED <<welcome, opening, attach>>, Rows', ClaimsOK',
         \A c \in claims : c.by # ByUpload(u) => c \in claims',
         pc = "finish" => UNCHANGED claims,
         \A q \in pending' : q \in pending \/ q[1] = u
  PROVE  FreeInv'
<1>0. Uploading /\ UploadOK(upload[u], report[u])
  BY DEF FreeInv, Shape, Uploading
<1>1. PICK new \in UploadState :
        /\ upload' = [upload EXCEPT ![u] = new]
        /\ new.pc = pc /\ new.plan = upload[u].plan /\ Same(new, upload[u])
  <2>1. pc \in Points
    BY DEF Points
  <2> QED BY <1>0, <2>1, GoMoves, Zenon
<1>2. UploadOK(new, rep)
  BY <1>0, <1>1 DEF UploadOK, Same
<1>3. new.plan = "welcome" /\ new.pc \in {"run", "finish"} => Holds(ByUpload(u), OwnKeys(new))'
  <2> SUFFICES ASSUME upload[u].plan = "welcome", pc = "finish"
               PROVE  Holds(ByUpload(u), OwnKeys(new))'
    BY <1>1
  <2>1. Holds(ByUpload(u), OwnKeys(upload[u])) /\ UNCHANGED claims
    BY DEF FreeInv, Promises, UploadHolds
  <2> QED BY <1>1, <2>1 DEF Holds, OwnKeys, Same
<1>4. Uploading' /\ Promises'
  BY <1>0, <1>1, <1>2, <1>3, UploadKeeps DEF FreeInv, Same
<1> QED BY <1>4 DEF FreeInv, Shape, Openings, Attaching

LEMMA LaterKeeps ==
  ASSUME FreeInv, NEW u \in Uploads,
         Run(u) \/ Redeem(u) \/ Finish(u) \/ Drop(u) \/ Note(u) \/ Pend(u) \/ UploadDies(u)
  PROVE  FreeInv'
<1>0. /\ Rows /\ ClaimsOK /\ Uploading /\ UploadOK(upload[u], report[u])
      /\ report = [report EXCEPT ![u] = report[u]] /\ report[u] \in {"none", "locked", "paid", "deleted"}
      /\ UNCHANGED claims => ClaimsOK'
  BY DEF FreeInv, Shape, Uploading, UploadOK, ClaimsOK, Unique
<1>1. CASE Run(u)
  <2>0. /\ upload[u].pc = "run" /\ report[u] = "none" /\ Rows'
        /\ UNCHANGED <<claims, welcome, opening, attach, pending>>
    BY <1>0, <1>1 DEF Run, Rows, UploadOK, people
  <2>1. CASE report' = [report EXCEPT ![u] = "locked"] /\ Go(u, "finish")
    BY <1>0, <2>0, <2>1, LaterMoves
  <2>2. CASE UNCHANGED report /\ Go(u, "release")
    BY <1>0, <2>0, <2>2, LaterMoves
  <2> QED BY <1>1, <2>1, <2>2 DEF Run
<1>2. CASE Redeem(u)
  <2>0. /\ upload[u].pc = "finish" /\ upload[u].account \in Accounts /\ Rows'
        /\ UNCHANGED <<claims, welcome, opening, attach, pending>>
    BY <1>0, <1>2 DEF Redeem, Rows, UploadOK, people
  <2>1. CASE report' = [report EXCEPT ![u] = "paid"] /\ Go(u, "done")
    BY <1>0, <2>0, <2>1, LaterMoves
  <2>2. CASE UNCHANGED report /\ Go(u, "release")
    BY <1>0, <2>0, <2>2, LaterMoves
  <2> QED BY <1>2, <2>1, <2>2 DEF Redeem
<1>3. CASE Finish(u)
  <2>9. /\ upload[u].pc = "finish" /\ pending' \subseteq pending \cup {<<u, Nobody>>}
        /\ UNCHANGED <<people, credits, claims, report, welcome, previews, held, opening, attach>>
    BY <1>3 DEF Finish
  <2>0. /\ upload[u].pc = "finish" /\ Rows' /\ \A q \in pending' : q \in pending \/ q[1] = u
        /\ UNCHANGED <<claims, report, welcome, opening, attach>>
    BY <1>0, <2>9 DEF Rows, people, Owners
  <2>1. CASE upload[u].plan = "preview"
    <3>1. Go(u, "note") /\ upload[u].account \in Accounts
      BY <1>0, <1>3, <2>1 DEF Finish, UploadOK
    <3> QED BY <1>0, <2>0, <3>1, LaterMoves
  <2>2. CASE upload[u].plan # "preview"
    <3>1. Go(u, "done")
      BY <1>3, <2>2 DEF Finish
    <3> QED BY <1>0, <2>0, <3>1, LaterMoves
  <2> QED BY <2>1, <2>2
<1>4. CASE Drop(u)
  <2>0. /\ upload[u].pc = "drop" /\ Rows' /\ Go(u, "done") /\ report' = [report EXCEPT ![u] = "deleted"]
        /\ UNCHANGED <<claims, welcome, opening, attach, pending>>
    BY <1>0, <1>4 DEF Drop, Rows, people
  <2> QED BY <1>0, <2>0, LaterMoves
<1>5. CASE Note(u)
  <2>0. /\ upload[u].pc = "note" /\ upload[u].account \in Accounts /\ Rows'
        /\ UNCHANGED <<claims, report, welcome, opening, attach, pending>>
    BY <1>0, <1>5 DEF Note, Rows, UploadOK, people
  <2>1. Go(u, "pend") \/ Go(u, "done")
    BY <1>5 DEF Note
  <2> QED BY <1>0, <2>0, <2>1, LaterMoves
<1>6. CASE Pend(u)
  <2>0. /\ upload[u].pc = "pend" /\ Go(u, "done") /\ Rows'
        /\ \A q \in pending' : q \in pending \/ q[1] = u
        /\ UNCHANGED <<claims, report, welcome, opening, attach>>
    <3>1. upload[u].account \in Owners
      BY <1>0 DEF UploadOK, UploadState
    <3> QED BY <1>0, <1>6, <3>1 DEF Pend, Rows, people
  <2> QED BY <1>0, <2>0, LaterMoves
<1>7. CASE UploadDies(u)
  <2>0. /\ upload[u].pc \notin {"new", "done", "dead"} /\ Go(u, "dead") /\ Rows'
        /\ UNCHANGED <<claims, report, welcome, opening, attach, pending>>
    BY <1>0, <1>7 DEF UploadDies, Rows, people, rows
  <2> QED BY <1>0, <2>0, LaterMoves
<1> QED BY <1>1, <1>2, <1>3, <1>4, <1>5, <1>6, <1>7

\* Claims given back, and taken again for a preview.
LEMMA GiveBackKeeps ==
  ASSUME FreeInv, NEW u \in Uploads, GiveBack(u) \/ Reclaim(u)
  PROVE  FreeInv'
<1>0. /\ Rows /\ ClaimsOK /\ Uploading /\ UploadOK(upload[u], report[u])
      /\ report = [report EXCEPT ![u] = report[u]] /\ report[u] \in {"none", "locked", "paid", "deleted"}
  BY DEF FreeInv, Shape, Uploading, UploadOK
<1>1. Rows' /\ UNCHANGED <<welcome, report, opening, attach, pending>>
  BY <1>0 DEF GiveBack, Reclaim, Rows, people, rows
<1>2. CASE GiveBack(u)
  <2>1. ClaimsOK' /\ \A c \in claims : c.by # ByUpload(u) => c \in claims'
    BY <1>0, <1>2, ReleaseShape DEF GiveBack
  <2>2. CASE report[u] = "none"
    <3>1. upload[u].pc = "release" /\ Go(u, "done")
      BY <1>2, <2>2 DEF GiveBack
    <3> QED BY <1>0, <1>1, <2>1, <3>1, LaterMoves
  <2>3. CASE report[u] # "none"
    <3>1. upload[u].pc = "release" /\ Go(u, "reclaim") /\ upload[u].account \in Accounts
      BY <1>0, <1>2, <2>3 DEF GiveBack, UploadOK
    <3> QED BY <1>0, <1>1, <2>1, <3>1, LaterMoves
  <2> QED BY <2>2, <2>3
<1>3. CASE Reclaim(u)
  <2>4. PICK a, net : a = upload[u].account /\ net = upload[u].net
    OBVIOUS
  <2>5. PICK gs : gs = PreviewGroups(a, net)
    OBVIOUS
  <2>1. upload[u].pc = "reclaim" /\ upload[u].account \in Accounts
    BY <1>0, <1>3 DEF Reclaim, UploadOK
  <2>2. CASE CanTake({}, gs)
    <3>1. Take(ByUpload(u), {}, gs) /\ Go(u, "note")
      BY <1>3, <2>2, <2>4, <2>5 DEF Reclaim
    <3>2. /\ Groups(gs) /\ Request(ByUpload(u))
          /\ Kinded({})
      BY <2>5, CodeGroups, Requests
    <3>3. ClaimsOK' /\ claims \subseteq claims'
      BY <1>0, <2>2, <3>1, <3>2, TakeShape
    <3> QED BY <1>0, <1>1, <2>1, <3>1, <3>3, LaterMoves
  <2>3. CASE ~CanTake({}, gs)
    <3>1. UNCHANGED claims /\ Go(u, "drop")
      BY <1>3, <2>3, <2>4, <2>5 DEF Reclaim
    <3>2. ClaimsOK' /\ claims \subseteq claims'
      BY <1>0, <3>1 DEF ClaimsOK, Unique
    <3> QED BY <1>0, <1>1, <2>1, <3>1, <3>2, LaterMoves
  <2> QED BY <2>2, <2>3
<1> QED BY <1>2, <1>3

\* The claims of the free full report, or what the upload is instead.
LEMMA ClaimWelcomeKeeps ==
  ASSUME FreeInv, NEW u \in Uploads, ClaimWelcome(u)
  PROVE  FreeInv'
<1>0. /\ Rows /\ ClaimsOK /\ Uploading /\ UploadOK(upload[u], report[u])
      /\ upload[u].pc = "claim" /\ upload[u].plan = "welcome"
  BY DEF FreeInv, Shape, Uploading, UploadOK, ClaimWelcome
<1>1. /\ UNCHANGED <<welcome, report, opening, attach, pending>> /\ Rows'
      /\ report' = [report EXCEPT ![u] = report[u]]
  BY <1>0 DEF ClaimWelcome, Rows, Uploading, people, rows
<1>2. PICK net, card, keys, gs :
        /\ net = upload[u].net /\ card = upload[u].card
        /\ keys = OwnKeys(upload[u]) /\ gs = WelcomeGroups(net, card)
  OBVIOUS
<1>3. /\ Groups(gs) /\ Kinded(keys)
      /\ Request(ByUpload(u))
  BY <1>2, CodeGroups, KeysKinded, Requests DEF OwnKeys
<1>4. CASE CanTake(keys, gs)
  <2>1. Take(ByUpload(u), keys, gs) /\ Go(u, "run")
    BY <1>2, <1>4 DEF ClaimWelcome, OwnKeys
  <2>2. ClaimsOK' /\ claims \subseteq claims' /\ Holds(ByUpload(u), keys)'
    BY <1>0, <1>3, <1>4, <2>1, TakeShape
  <2>3. PICK new \in UploadState :
          /\ upload' = [upload EXCEPT ![u] = new]
          /\ new.pc = "run" /\ new.plan = upload[u].plan /\ Same(new, upload[u])
    BY <1>0, <2>1, GoMoves, Zenon DEF Points
  <2>4. UploadOK(new, report[u])
    BY <1>0, <2>3 DEF UploadOK, Same
  <2>5. Holds(ByUpload(u), OwnKeys(new))'
    BY <1>2, <2>2, <2>3 DEF OwnKeys, Same
  <2>6. Uploading' /\ Promises'
    BY <1>0, <1>1, <2>2, <2>3, <2>4, <2>5, UploadKeeps DEF FreeInv, Same
  <2> QED BY <1>1, <2>2, <2>6 DEF FreeInv, Shape, Openings, Attaching
<1>5. CASE ~CanTake(keys, gs)
  <2>1. FallBack(u) /\ UNCHANGED claims
    BY <1>2, <1>5 DEF ClaimWelcome, OwnKeys
  <2>2. PICK new \in UploadState :
           /\ upload' = [upload EXCEPT ![u] = new]
           /\ \/ new.pc = "slots" /\ new.plan = "preview"
              \/ new.pc = "run" /\ new.plan = "credit"
              \/ new.pc = "done" /\ new.plan = ""
           /\ Same(new, upload[u])
    BY <1>0, <2>1, FallBackMoves
  <2>3. UploadOK(new, report[u])
    BY <1>0, <2>2 DEF UploadOK, Same
  <2>4. Uploading' /\ Promises'
    BY <1>0, <1>1, <2>1, <2>2, <2>3, UploadKeeps DEF FreeInv, Same
  <2> QED BY <1>0, <1>1, <2>1, <2>4 DEF FreeInv, Shape, ClaimsOK, Unique, Openings, Attaching
<1> QED BY <1>4, <1>5

\* A slot of the month, of the day, or a credit instead.
LEMMA ClaimSlotsKeeps ==
  ASSUME FreeInv, NEW u \in Uploads, ClaimSlots(u)
  PROVE  FreeInv'
<1>0. /\ Rows /\ ClaimsOK /\ Uploading /\ UploadOK(upload[u], report[u])
      /\ upload[u].pc = "slots" /\ upload[u].plan \in {"preview", "anon"}
  BY DEF FreeInv, Shape, Uploading, UploadOK, ClaimSlots
<1>1. /\ UNCHANGED <<welcome, report, opening, attach, pending>> /\ Rows'
      /\ report' = [report EXCEPT ![u] = report[u]]
  BY <1>0 DEF ClaimSlots, Rows, Uploading, people, rows
<1>2. PICK a, net : a = upload[u].account /\ net = upload[u].net
  OBVIOUS
<1>3. PICK gs : gs = IF upload[u].plan = "anon" THEN AnonGroups(net) ELSE PreviewGroups(a, net)
  OBVIOUS
<1>4. /\ Groups(gs) /\ Kinded({})
      /\ Request(ByUpload(u))
  BY <1>3, CodeGroups, Requests
<1>5. ClaimsOK' /\ claims \subseteq claims'
  <2>1. CASE CanTake({}, gs)
    <3>1. Take(ByUpload(u), {}, gs)
      BY <1>2, <1>3, <2>1 DEF ClaimSlots
    <3> QED BY <1>0, <1>4, <2>1, <3>1, TakeShape
  <2>2. CASE UNCHANGED claims
    BY <1>0, <2>2 DEF ClaimsOK, Unique
  <2> QED BY <1>2, <1>3, <2>1, <2>2 DEF ClaimSlots
<1>6. \/ \E pc \in {"run", "done"} : Go(u, pc)
      \/ GoAs(u, "run", "credit") /\ upload[u].plan = "preview"
  <2>1. CASE CanTake({}, gs)
    BY <1>2, <1>3, <2>1 DEF ClaimSlots
  <2>2. CASE ~CanTake({}, gs)
    BY <1>2, <1>3, <2>2 DEF ClaimSlots
  <2> QED BY <2>1, <2>2
<1>7. PICK new \in UploadState :
        /\ upload' = [upload EXCEPT ![u] = new] /\ Same(new, upload[u])
        /\ new.pc \in {"run", "done"}
        /\ \/ new.plan = upload[u].plan
           \/ new.plan = "credit" /\ upload[u].plan = "preview"
  <2>1. CASE \E pc \in {"run", "done"} : Go(u, pc)
    <3>1. PICK pc \in {"run", "done"} : Go(u, pc)
      BY <2>1
    <3>2. pc \in Points
      BY DEF Points
    <3>3. PICK new \in UploadState :
            /\ upload' = [upload EXCEPT ![u] = new]
            /\ new.pc = pc /\ new.plan = upload[u].plan /\ Same(new, upload[u])
      BY <1>0, <3>1, <3>2, GoMoves, Zenon
    <3> QED BY <3>3
  <2>2. CASE GoAs(u, "run", "credit") /\ upload[u].plan = "preview"
    <3>1. PICK new \in UploadState :
            /\ upload' = [upload EXCEPT ![u] = new]
            /\ new.pc = "run" /\ new.plan = "credit" /\ Same(new, upload[u])
      BY <1>0, <2>2, GoAsMoves
    <3> QED BY <2>2, <3>1
  <2> QED BY <1>6, <2>1, <2>2
<1>8. UploadOK(new, report[u])
  BY <1>0, <1>7 DEF UploadOK, Same
<1>9. Uploading' /\ Promises'
  BY <1>0, <1>1, <1>5, <1>7, <1>8, UploadKeeps DEF FreeInv, Same
<1> QED BY <1>1, <1>5, <1>9 DEF FreeInv, Shape, Openings, Attaching

\* grant_welcome for an upload that has claimed it.
LEMMA GrantWelcomeKeeps ==
  ASSUME FreeInv, NEW u \in Uploads, GrantWelcome(u)
  PROVE  FreeInv'
<1>0. /\ Rows /\ ClaimsOK /\ Uploading /\ UploadOK(upload[u], report[u])
      /\ upload[u].pc = "finish" /\ upload[u].plan = "welcome"
      /\ report[u] \in {"none", "locked", "paid", "deleted"}
      /\ upload[u].account \in Accounts /\ upload[u].inbox \in Inboxes /\ upload[u].card \in BOOLEAN
  BY DEF FreeInv, Shape, Uploading, UploadOK, UploadState, GrantWelcome
<1>1. ClaimsOK' /\ UNCHANGED <<people, credits, claims, previews, pending, held, opening, attach>>
  BY <1>0 DEF GrantWelcome, ClaimsOK, Unique
<1>2. CASE ~CanGrant(upload[u].account, u)
  <2>1. UNCHANGED <<welcome, report>> /\ Go(u, "release")
    BY <1>2 DEF GrantWelcome
  <2>2. Rows' /\ report' = [report EXCEPT ![u] = report[u]]
    BY <1>0, <1>1, <2>1 DEF Rows, Uploading, people
  <2> QED BY <1>0, <1>1, <2>1, <2>2, LaterMoves
<1>3. CASE CanGrant(upload[u].account, u)
  <2>14. PICK row : row = [account |-> upload[u].account, upload |-> u, inbox |-> upload[u].inbox,
                          card |-> upload[u].card]
    OBVIOUS
  <2>1. /\ welcome' = welcome \cup {row} /\ report' = [report EXCEPT ![u] = "paid"] /\ Go(u, "done")
        /\ report[u] = "locked" /\ \A w \in welcome : w.account # upload[u].account
    BY <1>3, <2>14 DEF GrantWelcome, Grant, CanGrant
  <2>2. row \in [account : Accounts, upload : Uploads, inbox : Inboxes, card : BOOLEAN]
    BY <1>0, <2>14
  <2>3. Rows'
    BY <1>0, <1>1, <2>1, <2>2 DEF Rows, people
  <2>4. PICK new \in UploadState :
          /\ upload' = [upload EXCEPT ![u] = new]
          /\ new.pc = "done" /\ new.plan = upload[u].plan /\ Same(new, upload[u])
    BY <1>0, <2>1, GoMoves, Zenon DEF Points
  <2>5. UploadOK(new, "paid")
    BY <1>0, <2>4 DEF UploadOK, Same
  <2>6. Uploading'
    BY <1>0, <2>1, <2>4, <2>5, UploadMoves
  <2>7. /\ upload'[u] = new /\ report'[u] = "paid"
        /\ \A v \in Uploads \ {u} : upload'[v] = upload[v] /\ report'[v] = report[v]
    BY <1>0, <2>1, <2>4 DEF Uploading
  <2>8. Known'
    BY <1>1, <2>4, <2>7 DEF Known, FreeInv, Promises, Shape, Openings, Rows
  <2>9. UploadHolds'
    BY <1>1, <2>4, <2>7 DEF UploadHolds, FreeInv, Promises, Holds
  <2>10. OpeningHolds'
    <3> SUFFICES ASSUME NEW a \in Accounts, opening[a].pc = "grant"
                 PROVE  Holds(ByOpening(a), OpeningKeys(a))'
      BY <1>1 DEF OpeningHolds
    <3>1. Holds(ByOpening(a), OpeningKeys(a)) /\ opening[a].upload \in Uploads
      BY DEF FreeInv, Promises, OpeningHolds, Shape, Openings
    <3>2. OpeningKeys(a)' = OpeningKeys(a)
      BY <1>1, <2>4, <2>7, <3>1 DEF OpeningKeys, Same
    <3> QED BY <1>1, <3>1, <3>2 DEF Holds
  <2>11. \A w \in welcome : report'[w.upload] \in {"paid", "deleted"} /\ KeptBy(w)'
    <3> SUFFICES ASSUME NEW w \in welcome
                 PROVE  report'[w.upload] \in {"paid", "deleted"} /\ KeptBy(w)'
      OBVIOUS
    <3>1. /\ report[w.upload] \in {"paid", "deleted"} /\ KeptBy(w)
          /\ w.upload \in Uploads /\ w.upload # u
      BY <1>0, <2>1 DEF FreeInv, Promises, Granted, Rows
    <3>2. RowKeys(w)' = RowKeys(w)
      BY <2>7, <3>1 DEF RowKeys
    <3> QED BY <1>1, <2>7, <3>1, <3>2 DEF KeptBy, Holds
  <2>12. KeptBy(row)'
    <3>1. Holds(ByUpload(u), OwnKeys(upload[u]))
      BY <1>0 DEF FreeInv, Promises, UploadHolds
    <3>2. RowKeys(row)' = OwnKeys(upload[u])
      BY <2>4, <2>7, <2>14 DEF RowKeys, OwnKeys, Same
    <3> QED BY <1>1, <2>4, <2>7, <2>14, <3>1, <3>2 DEF KeptBy, Holds
  <2>13. Granted'
    <3>1. \A w \in welcome : w.upload # u /\ w.account # row.account
      BY <2>1, <2>14 DEF FreeInv, Promises, Granted
    <3>2. \A v, w \in welcome : v # w => v.account # w.account /\ v.upload # w.upload
      BY DEF FreeInv, Promises, Granted
    <3>3. row.upload = u /\ report'[row.upload] = "paid"
      BY <2>7, <2>14
    <3>4. welcome' = welcome \cup {row}
      BY <2>1
    <3>5. \A v, w \in welcome' : v # w => v.account # w.account /\ v.upload # w.upload
      BY <3>1, <3>2, <3>3, <3>4
    <3>6. \A w \in welcome' : report'[w.upload] \in {"paid", "deleted"} /\ KeptBy(w)'
      BY <2>11, <2>12, <3>3, <3>4
    <3> QED BY <3>5, <3>6 DEF Granted
  <2> QED BY <1>1, <2>3, <2>6, <2>8, <2>9, <2>10, <2>13 DEF FreeInv, Shape, Promises, Openings, Attaching
<1> QED BY <1>2, <1>3

\* An upload arrives.
LEMMA StartMoves ==
  ASSUME FreeInv, NEW u \in Uploads, NEW d \in Devices, NEW f \in Files, NEW net \in Nets,
         StartAnon(u, d, f, net) \/ \E a \in Accounts : Start(u, a, d, f, net)
  PROVE  \E new \in UploadState :
           /\ upload' = [upload EXCEPT ![u] = new]
           /\ \/ new.pc = "slots" /\ new.plan = "anon" /\ new.account = upload[u].account
              \/ /\ new.account \in Accounts /\ new.inbox \in Inboxes
                 /\ \/ new.pc = "check" /\ new.plan = "welcome"
                    \/ new.pc = "slots" /\ new.plan = "preview"
                    \/ new.pc = "run" /\ new.plan = "credit"
                    \/ new.pc = "done" /\ new.plan = ""
<1>0. /\ Rows /\ Uploading /\ UploadOK(upload[u], report[u]) /\ upload[u].pc = "new"
  BY DEF FreeInv, Shape, Uploading, Start, StartAnon
<1>1. CASE StartAnon(u, d, f, net)
  <2> DEFINE new == [upload[u] EXCEPT !.pc = "slots", !.plan = "anon", !.device = d, !.file = f,
                                      !.net = net]
  <2>1. upload[u] \in UploadState /\ upload' = [upload EXCEPT ![u] = new]
    BY <1>0, <1>1 DEF StartAnon, UploadOK
  <2>2. /\ new \in UploadState /\ new.pc = "slots" /\ new.plan = "anon"
        /\ new.account = upload[u].account
    BY <2>1 DEF UploadState
  <2> QED BY <2>1, <2>2
<1>2. ASSUME NEW a \in Accounts, Start(u, a, d, f, net)
      PROVE  \E new \in UploadState :
               /\ upload' = [upload EXCEPT ![u] = new]
               /\ new.account \in Accounts /\ new.inbox \in Inboxes
               /\ \/ new.pc = "check" /\ new.plan = "welcome"
                  \/ new.pc = "slots" /\ new.plan = "preview"
                  \/ new.pc = "run" /\ new.plan = "credit"
                  \/ new.pc = "done" /\ new.plan = ""
  <2> DEFINE bare == FirstLook(a, d, net, FALSE)
             card == bare \in {"device", "network"} /\ HasCard(a)
             refused == IF card THEN FirstLook(a, d, net, TRUE) ELSE bare
             plan == IF refused = "" THEN "welcome" ELSE PreviewOrCredit(a, net)
             pc == CASE plan = "welcome" -> "check" [] plan = "preview" -> "slots"
                     [] plan = "credit" -> "run" [] plan = "" -> "done"
             unverified == refused = "unverified"
             new == [pc |-> pc, plan |-> plan, account |-> a, device |-> d, file |-> f, net |-> net,
                     inbox |-> inbox[a], card |-> card, unverified |-> unverified]
  <2>1. upload' = [upload EXCEPT ![u] = new]
    BY <1>2 DEF Start
  <2>2. plan \in {"welcome", "preview", "credit", ""}
    BY DEF PreviewOrCredit
  <2>3. card \in BOOLEAN /\ unverified \in BOOLEAN /\ inbox[a] \in Inboxes
    BY <1>0 DEF Rows
  <2> HIDE DEF card, plan, unverified
  <2>4. new \in UploadState /\ new.account = a /\ new.inbox = inbox[a] /\ new.pc = pc /\ new.plan = plan
    BY <2>2, <2>3 DEF UploadState, Owners
  <2>5. \/ pc = "check" /\ plan = "welcome"
        \/ pc = "slots" /\ plan = "preview"
        \/ pc = "run" /\ plan = "credit"
        \/ pc = "done" /\ plan = ""
    BY <2>2
  <2> HIDE DEF new, pc
  <2> QED BY <2>1, <2>3, <2>4, <2>5
<1> QED BY <1>1, <1>2

LEMMA StartKeeps ==
  ASSUME FreeInv, NEW u \in Uploads, NEW d \in Devices, NEW f \in Files, NEW net \in Nets,
         StartAnon(u, d, f, net) \/ \E a \in Accounts : Start(u, a, d, f, net)
  PROVE  FreeInv'
<1>0. /\ Rows /\ ClaimsOK /\ Uploading /\ UploadOK(upload[u], report[u]) /\ upload[u].pc = "new"
  BY DEF FreeInv, Shape, Uploading, Start, StartAnon
<1>1. /\ UNCHANGED <<people, credits, claims, rows, opening, attach>>
      /\ report' = [report EXCEPT ![u] = report[u]]
  BY <1>0 DEF Start, StartAnon, Uploading, rows
<1>2. PICK new \in UploadState :
        /\ upload' = [upload EXCEPT ![u] = new]
        /\ \/ new.pc = "slots" /\ new.plan = "anon" /\ new.account = upload[u].account
           \/ /\ new.account \in Accounts /\ new.inbox \in Inboxes
              /\ \/ new.pc = "check" /\ new.plan = "welcome"
                 \/ new.pc = "slots" /\ new.plan = "preview"
                 \/ new.pc = "run" /\ new.plan = "credit"
                 \/ new.pc = "done" /\ new.plan = ""
  BY StartMoves
<1>3. UploadOK(new, report[u])
  BY <1>0, <1>2 DEF UploadOK
<1>4. Uploading' /\ Promises'
  BY <1>0, <1>1, <1>2, <1>3, UploadKeeps DEF FreeInv, rows
<1> QED BY <1>1, <1>4 DEF FreeInv, Shape, Rows, ClaimsOK, Unique, Openings, Attaching, rows, people

\* An opening that moves on: it takes what nobody had, and gives back only what it
\* has granted nothing under.
LEMMA OpeningKeeps ==
  ASSUME FreeInv, NEW a \in Accounts, NEW o \in OpeningState,
         opening' = [opening EXCEPT ![a] = o],
         o.pc \in {"claim", "grant", "giveBack"} => o.upload \in Uploads,
         o.pc \in {"claim", "grant"} => upload[o.upload].pc # "new",
         o.pc = "grant" => /\ o.inbox \in Inboxes /\ ~Taken(Key("account", a, 0))
                           /\ Holds(ByOpening(a), WelcomeKeys(a, o.inbox, upload[o.upload].device,
                                                             upload[o.upload].file, o.card))',
         o.pc = "release" => opening[a].pc = "grant",
         \A c \in claims : c \in claims' \/ (c.by = ByOpening(a) /\ opening[a].pc = "release"),
         ClaimsOK', Rows', Attaching',
         UNCHANGED <<upload, report, welcome>>,
         \A q \in pending' : q \in pending \/ upload[q[1]].pc # "new"
  PROVE  FreeInv'
<1>1. /\ opening'[a] = o
      /\ \A b \in Accounts \ {a} : opening'[b] = opening[b]
      /\ Openings /\ Uploading /\ Rows
  BY DEF FreeInv, Shape, Openings
<1>2. Openings' /\ Uploading'
  BY <1>1 DEF Openings, Uploading
<1>3. Known'
  BY <1>1 DEF FreeInv, Promises, Known
<1>4. UploadHolds'
  BY Reservations DEF FreeInv, Promises, UploadHolds, Holds
<1>5. OpeningHolds'
  <2> SUFFICES ASSUME NEW b \in Accounts, opening'[b].pc = "grant"
               PROVE  Holds(ByOpening(b), OpeningKeys(b))'
    BY DEF OpeningHolds
  <2>1. CASE b = a
    BY <1>1, <2>1 DEF OpeningKeys
  <2>2. CASE b # a
    <3>1. Holds(ByOpening(b), OpeningKeys(b)) /\ OpeningKeys(b)' = OpeningKeys(b)
      BY <1>1, <2>2 DEF FreeInv, Promises, OpeningHolds, OpeningKeys
    <3> QED BY <2>2, <3>1, Reservations DEF Holds
  <2> QED BY <2>1, <2>2
<1>6. Granted'
  <2> SUFFICES ASSUME NEW w \in welcome
               PROVE  KeptBy(w)'
    BY DEF FreeInv, Promises, Granted
  <2>1. KeptBy(w) /\ RowKeys(w)' = RowKeys(w) /\ w.account \in Accounts
    BY <1>1 DEF FreeInv, Promises, Granted, RowKeys, Rows
  <2>2. CASE upload[w.upload].pc \in {"done", "dead"} /\ Holds(ByUpload(w.upload), RowKeys(w))
    BY <2>1, <2>2, Reservations DEF KeptBy, Holds
  <2>3. CASE opening[w.account].pc \notin {"grant", "release"} /\ Holds(ByOpening(w.account), RowKeys(w))
    <3>1. Holds(ByOpening(w.account), RowKeys(w))'
      BY <2>1, <2>3, Reservations DEF Holds
    <3>2. CASE w.account = a
      <4>1. Key("account", a, 0) \in RowKeys(w)
        BY <3>2 DEF RowKeys, WelcomeKeys
      <4>2. Taken(Key("account", a, 0))
        BY <2>3, <4>1 DEF Holds, Taken
      <4> QED BY <1>1, <2>3, <3>1, <3>2, <4>2 DEF KeptBy
    <3>3. CASE w.account # a
      BY <1>1, <2>1, <2>3, <3>1, <3>3 DEF KeptBy
    <3> QED BY <3>2, <3>3
  <2> QED BY <2>1, <2>2, <2>3 DEF KeptBy
<1> QED BY <1>2, <1>3, <1>4, <1>5, <1>6 DEF FreeInv, Shape, Promises

\* _grantable_pending finds the most recent one.
LEMMA LatestIsOne ==
  ASSUME NEW us, us \subseteq Uploads, us # {}
  PROVE  LatestOf(us) \in us
<1> DEFINE T == {n \in Nat : LastUpload - n \in us}
<1>0. LastUpload \in Nat
  BY FreeConstants
<1>1. PICK v \in us : v \in 1..LastUpload
  BY DEF Uploads
<1>2. LastUpload - v \in T
  BY <1>0, <1>1
<1>3. T \subseteq Nat /\ T # {}
  BY <1>2
<1>4. PICK n \in T : \A m \in T : ~(<<m, n>> \in OpToRel(<, Nat))
  BY <1>3, NatLessThanWellFounded, WFMin
<1>5. \A m \in T : ~(m < n)
  BY <1>3, <1>4 DEF OpToRel
<1>6. \A w \in us : w \in 1..LastUpload /\ LastUpload - w \in T
  BY <1>0 DEF Uploads
<1>7. \A w \in us : w <= LastUpload - n
  BY <1>0, <1>3, <1>5, <1>6
<1>8. \E u \in us : \A w \in us : w <= u
  BY <1>4, <1>7
<1> QED BY <1>8 DEF LatestOf

\* What an opening's EXCEPTs leave.
LEMMA OpensMoves ==
  ASSUME Openings, NEW a \in Accounts,
         NEW pc \in {"none", "read", "claim", "grant", "giveBack", "release", "clear", "dead"}, Opens(a, pc)
  PROVE  \E o \in OpeningState :
           /\ opening' = [opening EXCEPT ![a] = o]
           /\ o.pc = pc /\ o.upload = opening[a].upload /\ o.inbox = opening[a].inbox
           /\ o.card = opening[a].card
<1> DEFINE o == [opening[a] EXCEPT !.pc = pc]
<1>1. opening[a] \in OpeningState /\ opening' = [opening EXCEPT ![a] = o]
  BY DEF Openings, Opens
<1>2. o \in OpeningState /\ o.pc = pc /\ o.upload = opening[a].upload /\ o.inbox = opening[a].inbox
      /\ o.card = opening[a].card
  BY <1>1 DEF OpeningState
<1> QED BY <1>1, <1>2

\* An opening that reads, ends or dies changes no claim.
LEMMA OpeningQuiet ==
  ASSUME FreeInv, NEW a \in Accounts,
         NEW pc \in {"none", "read", "giveBack", "release", "clear", "dead"}, Opens(a, pc),
         pc = "release" => opening[a].pc = "grant",
         pc = "giveBack" => opening[a].pc = "grant",
         \A c \in claims : c \in claims' \/ (c.by = ByOpening(a) /\ opening[a].pc = "release"),
         ClaimsOK', Rows', Attaching', UNCHANGED <<upload, report, welcome>>,
         \A q \in pending' : q \in pending \/ upload[q[1]].pc # "new"
  PROVE  FreeInv'
<1>1. Openings /\ (opening[a].pc = "grant" => opening[a].upload \in Uploads)
  BY DEF FreeInv, Shape, Openings
<1>2. PICK o \in OpeningState :
        /\ opening' = [opening EXCEPT ![a] = o]
        /\ o.pc = pc /\ o.upload = opening[a].upload
  BY <1>1, OpensMoves
<1> QED BY <1>1, <1>2, OpeningKeeps

\* ... and none of what the other tables say.
LEMMA OpeningSilent ==
  ASSUME FreeInv, NEW a \in Accounts, NEW pc \in {"read", "clear", "dead"}, Opens(a, pc),
         UNCHANGED <<claims, upload, report, welcome, attach>>,
         Rows', pending' \subseteq pending
  PROVE  FreeInv'
<1>1. ClaimsOK' /\ Attaching'
  BY DEF FreeInv, Shape, ClaimsOK, Unique, Attaching
<1>2. /\ pc # "release" /\ pc # "giveBack"
      /\ \A c \in claims : c \in claims' \/ (c.by = ByOpening(a) /\ opening[a].pc = "release")
      /\ \A q \in pending' : q \in pending \/ upload[q[1]].pc # "new"
  OBVIOUS
<1>3. UNCHANGED <<upload, report, welcome>>
  OBVIOUS
<1> QED BY <1>1, <1>2, <1>3, OpeningQuiet

LEMMA ConfirmKeeps ==
  ASSUME FreeInv, NEW a \in Accounts, Confirm(a)
  PROVE  FreeInv'
<1>1. Rows' /\ UNCHANGED <<claims, upload, report, welcome, attach>> /\ pending' = pending
  BY DEF Confirm, FreeInv, Shape, Rows, rows
<1>2. Opens(a, "read")
  BY DEF Confirm
<1> QED BY <1>1, <1>2, OpeningSilent

LEMMA DeletePreviewKeeps ==
  ASSUME FreeInv, NEW a \in Accounts, DeletePreview(a)
  PROVE  FreeInv'
<1>1. Rows' /\ UNCHANGED <<claims, upload, report, welcome, attach>> /\ pending' = pending
  BY DEF DeletePreview, FreeInv, Shape, Rows, people
<1>2. Opens(a, "clear")
  BY DEF DeletePreview
<1> QED BY <1>1, <1>2, OpeningSilent

LEMMA OpeningDiesKeeps ==
  ASSUME FreeInv, NEW a \in Accounts, OpeningDies(a)
  PROVE  FreeInv'
<1>1. Rows' /\ UNCHANGED <<claims, upload, report, welcome, attach>> /\ pending' = pending
  BY DEF OpeningDies, FreeInv, Shape, Rows, rows, people
<1>2. Opens(a, "dead")
  BY DEF OpeningDies
<1> QED BY <1>1, <1>2, OpeningSilent

LEMMA ReleasePendingKeeps ==
  ASSUME FreeInv, NEW a \in Accounts, ReleasePending(a)
  PROVE  FreeInv'
<1>0. ClaimsOK
  BY DEF FreeInv, Shape
<1>1. /\ Rows' /\ UNCHANGED <<upload, report, welcome, attach>> /\ pending' = pending
      /\ opening[a].pc = "release" /\ Release(ByOpening(a)) /\ Opens(a, "clear")
  BY DEF ReleasePending, FreeInv, Shape, Rows, rows, people
<1>2. ClaimsOK' /\ \A c \in claims : c.by # ByOpening(a) => c \in claims'
  BY <1>0, <1>1, ReleaseShape
<1>3. Attaching'
  BY <1>1 DEF FreeInv, Shape, Attaching
<1>4. /\ \A c \in claims : c \in claims' \/ (c.by = ByOpening(a) /\ opening[a].pc = "release")
      /\ \A q \in pending' : q \in pending \/ upload[q[1]].pc # "new"
  BY <1>1, <1>2
<1>5. UNCHANGED <<upload, report, welcome>>
  BY <1>1
<1> QED BY <1>1, <1>2, <1>3, <1>4, <1>5, OpeningQuiet

LEMMA ClearPendingKeeps ==
  ASSUME FreeInv, NEW a \in Accounts, ClearPending(a)
  PROVE  FreeInv'
<1>1. /\ Rows' /\ UNCHANGED <<claims, upload, report, welcome, attach>> /\ pending' \subseteq pending
      /\ opening' = [opening EXCEPT ![a] = Idle]
  BY DEF ClearPending, FreeInv, Shape, Rows, people
<1>2. PICK o : o = Idle
  OBVIOUS
<1>3. o \in OpeningState /\ o.pc = "none"
  BY <1>2 DEF Idle, OpeningState
<1>4. ClaimsOK' /\ Attaching'
  BY <1>1 DEF FreeInv, Shape, ClaimsOK, Unique, Attaching
<1>5. /\ \A c \in claims : c \in claims' \/ (c.by = ByOpening(a) /\ opening[a].pc = "release")
      /\ \A q \in pending' : q \in pending \/ upload[q[1]].pc # "new"
  BY <1>1
<1>6. UNCHANGED <<upload, report, welcome>>
  BY <1>1
<1>7. opening' = [opening EXCEPT ![a] = o]
  BY <1>1, <1>2
<1>8. /\ o.pc \in {"claim", "grant", "giveBack"} => o.upload \in Uploads
      /\ o.pc \in {"claim", "grant"} => upload[o.upload].pc # "new"
      /\ o.pc = "grant" => /\ o.inbox \in Inboxes /\ ~Taken(Key("account", a, 0))
                           /\ Holds(ByOpening(a), WelcomeKeys(a, o.inbox, upload[o.upload].device,
                                                             upload[o.upload].file, o.card))'
      /\ o.pc = "release" => opening[a].pc = "grant"
  BY <1>3
<1> QED BY <1>1, <1>3, <1>4, <1>5, <1>6, <1>7, <1>8, OpeningKeeps

LEMMA ChooseKeeps ==
  ASSUME FreeInv, NEW a \in Accounts, Choose(a)
  PROVE  FreeInv'
<1>1. /\ Rows' /\ UNCHANGED <<claims, upload, report, welcome, attach>> /\ pending' = pending
      /\ opening[a] \in OpeningState
  BY DEF Choose, FreeInv, Shape, Rows, Openings, rows, people
<1>2. CASE Grantable(a) = {}
  <2>1. opening' = [opening EXCEPT ![a] = [@ EXCEPT !.pc = "clear"]]
    BY <1>2 DEF Choose
  <2>2. Opens(a, "clear")
    BY <2>1 DEF Opens
  <2> QED BY <1>1, <2>2, OpeningSilent
<1>3. CASE Grantable(a) # {}
  <2>1. PICK u : u = LatestOf(Grantable(a))
    OBVIOUS
  <2>2. Grantable(a) \subseteq Uploads
    BY DEF Grantable
  <2>3. u \in Grantable(a)
    BY <1>3, <2>1, <2>2, LatestIsOne
  <2>4. u \in Uploads /\ <<u, a>> \in pending
    BY <2>3 DEF Grantable
  <2>5. <<u, a>>[1] = u
    OBVIOUS
  <2>6. upload[u].pc # "new"
    BY <2>4, <2>5 DEF FreeInv, Promises, Known
  <2>7. PICK o : o = [opening[a] EXCEPT !.pc = "claim", !.upload = u]
    OBVIOUS
  <2>8. o \in OpeningState /\ o.pc = "claim" /\ o.upload = u
    BY <1>1, <2>4, <2>7 DEF OpeningState
  <2>9. opening' = [opening EXCEPT ![a] = o]
    BY <1>3, <2>1, <2>7 DEF Choose
  <2>10. ClaimsOK' /\ Attaching'
    BY <1>1 DEF FreeInv, Shape, ClaimsOK, Unique, Attaching
  <2>11. /\ \A c \in claims : c \in claims' \/ (c.by = ByOpening(a) /\ opening[a].pc = "release")
         /\ \A q \in pending' : q \in pending \/ upload[q[1]].pc # "new"
    BY <1>1
  <2>12. UNCHANGED <<upload, report, welcome>>
    BY <1>1
  <2>13. /\ o.pc \in {"claim", "grant", "giveBack"} => o.upload \in Uploads
         /\ o.pc \in {"claim", "grant"} => upload[o.upload].pc # "new"
         /\ o.pc = "grant" => /\ o.inbox \in Inboxes /\ ~Taken(Key("account", a, 0))
                              /\ Holds(ByOpening(a), WelcomeKeys(a, o.inbox, upload[o.upload].device,
                                                                upload[o.upload].file, o.card))'
         /\ o.pc = "release" => opening[a].pc = "grant"
    BY <2>4, <2>6, <2>8
  <2> QED BY <1>1, <2>8, <2>9, <2>10, <2>11, <2>12, <2>13, OpeningKeeps
<1> QED BY <1>2, <1>3

LEMMA ClaimPendingKeeps ==
  ASSUME FreeInv, NEW a \in Accounts, ClaimPending(a)
  PROVE  FreeInv'
<1>1. /\ Rows' /\ UNCHANGED <<upload, report, welcome, attach, inbox>> /\ pending' = pending
      /\ opening[a] \in OpeningState /\ opening[a].upload \in Uploads
      /\ opening[a].pc = "claim" /\ inbox[a] \in Inboxes
      /\ ClaimsOK /\ Attaching'
  BY DEF ClaimPending, FreeInv, Shape, Rows, Openings, Attaching, rows, people
<1>2. PICK u, card, m, keys, gs :
        /\ u = opening[a].upload /\ card = HasCard(a) /\ m = inbox[a]
        /\ keys = WelcomeKeys(a, m, upload[u].device, upload[u].file, card)
        /\ gs = WelcomeGroups(upload[u].net, card)
  OBVIOUS
<1>3. IF CanTake(keys, gs)
        THEN /\ Take(ByOpening(a), keys, gs)
             /\ opening' = [opening EXCEPT ![a] = [@ EXCEPT !.pc = "grant", !.inbox = m, !.card = card]]
        ELSE UNCHANGED claims /\ Opens(a, "clear")
  BY <1>2 DEF ClaimPending
<1>4. CASE ~CanTake(keys, gs)
  <2>1. UNCHANGED claims /\ Opens(a, "clear")
    BY <1>3, <1>4
  <2> QED BY <1>1, <2>1, OpeningSilent
<1>5. CASE CanTake(keys, gs)
  <2>1. /\ Groups(gs) /\ Kinded(keys)
        /\ Request(ByOpening(a))
    BY <1>2, CodeGroups, KeysKinded, Requests
  <2>2. Take(ByOpening(a), keys, gs)
    BY <1>3, <1>5
  <2>3. ClaimsOK' /\ claims \subseteq claims' /\ Holds(ByOpening(a), keys)'
    BY <1>1, <1>5, <2>1, <2>2, TakeShape
  <2>4. ~Taken(Key("account", a, 0))
    BY <1>2, <1>5 DEF CanTake, WelcomeKeys
  <2>5. PICK o : o = [opening[a] EXCEPT !.pc = "grant", !.inbox = m, !.card = card]
    OBVIOUS
  <2>6. card \in BOOLEAN
    BY <1>2 DEF HasCard
  <2>7. /\ o \in OpeningState /\ o.pc = "grant" /\ o.upload = u
        /\ o.inbox = m /\ o.card = card
    BY <1>1, <1>2, <2>5, <2>6 DEF OpeningState
  <2>8. opening' = [opening EXCEPT ![a] = o]
    BY <1>3, <1>5, <2>5
  <2>9. upload[u].pc # "new"
    BY <1>1, <1>2 DEF FreeInv, Promises, Known
  <2>10. Holds(ByOpening(a), WelcomeKeys(a, o.inbox, upload[o.upload].device,
                                         upload[o.upload].file, o.card))'
    <3>1. WelcomeKeys(a, o.inbox, upload[o.upload].device, upload[o.upload].file, o.card)' = keys
      BY <1>1, <1>2, <2>7
    <3> QED BY <2>3, <3>1 DEF Holds
  <2>11. /\ \A c \in claims : c \in claims' \/ (c.by = ByOpening(a) /\ opening[a].pc = "release")
         /\ \A q \in pending' : q \in pending \/ upload[q[1]].pc # "new"
    BY <1>1, <2>3
  <2>12. UNCHANGED <<upload, report, welcome>>
    BY <1>1
  <2>13. /\ o.pc \in {"claim", "grant", "giveBack"} => o.upload \in Uploads
         /\ o.pc \in {"claim", "grant"} => upload[o.upload].pc # "new"
         /\ o.pc = "grant" => /\ o.inbox \in Inboxes /\ ~Taken(Key("account", a, 0))
                              /\ Holds(ByOpening(a), WelcomeKeys(a, o.inbox, upload[o.upload].device,
                                                                upload[o.upload].file, o.card))'
         /\ o.pc = "release" => opening[a].pc = "grant"
    BY <1>1, <1>2, <2>4, <2>7, <2>9, <2>10
  <2> QED BY <1>1, <2>3, <2>7, <2>8, <2>11, <2>12, <2>13, OpeningKeeps
<1> QED BY <1>4, <1>5

LEMMA GrantPendingKeeps ==
  ASSUME FreeInv, NEW a \in Accounts, GrantPending(a)
  PROVE  FreeInv'
<1>0. /\ Rows /\ ClaimsOK /\ Uploading /\ Openings
      /\ opening[a] \in OpeningState /\ opening[a].pc = "grant"
      /\ opening[a].upload \in Uploads /\ opening[a].inbox \in Inboxes /\ opening[a].card \in BOOLEAN
  BY DEF FreeInv, Shape, Openings, OpeningState, GrantPending
<1>1. /\ ClaimsOK' /\ Attaching'
      /\ UNCHANGED <<people, credits, claims, previews, pending, held, upload, attach>>
  BY DEF GrantPending, FreeInv, Shape, ClaimsOK, Unique, Attaching
<1>2. PICK u : u = opening[a].upload
  OBVIOUS
<1>3. CASE ~CanGrant(a, u)
  <2>1. UNCHANGED <<welcome, report>> /\ Opens(a, "release")
    BY <1>2, <1>3 DEF GrantPending
  <2>2. Rows'
    BY <1>0, <1>1, <2>1 DEF Rows, people
  <2>3. /\ \A c \in claims : c \in claims' \/ (c.by = ByOpening(a) /\ opening[a].pc = "release")
        /\ \A q \in pending' : q \in pending \/ upload[q[1]].pc # "new"
    BY <1>1
  <2>4. UNCHANGED <<upload, report, welcome>>
    BY <1>1, <2>1
  <2> QED BY <1>0, <1>1, <2>1, <2>2, <2>3, <2>4, OpeningQuiet
<1>4. CASE CanGrant(a, u)
  <2>1. PICK row : row = [account |-> a, upload |-> u, inbox |-> opening[a].inbox,
                          card |-> opening[a].card]
    OBVIOUS
  <2>2. /\ welcome' = welcome \cup {row} /\ report' = [report EXCEPT ![u] = "paid"]
        /\ Opens(a, "giveBack")
        /\ report[u] = "locked" /\ \A w \in welcome : w.account # a
    BY <1>2, <1>4, <2>1 DEF GrantPending, Grant, CanGrant
  <2>3. row \in [account : Accounts, upload : Uploads, inbox : Inboxes, card : BOOLEAN]
    BY <1>0, <1>2, <2>1
  <2>4. Rows'
    BY <1>0, <1>1, <2>2, <2>3 DEF Rows, people
  <2>5. PICK o \in OpeningState :
          /\ opening' = [opening EXCEPT ![a] = o]
          /\ o.pc = "giveBack" /\ o.upload = u
    BY <1>0, <1>2, <2>2, OpensMoves, Zenon
  <2>6. /\ opening'[a] = o /\ \A b \in Accounts \ {a} : opening'[b] = opening[b]
        /\ report'[u] = "paid" /\ \A v \in Uploads \ {u} : report'[v] = report[v]
        /\ upload' = upload /\ claims' = claims /\ pending' = pending /\ u \in Uploads
    BY <1>0, <1>1, <1>2, <2>2, <2>5 DEF Openings, Uploading
  <2>7. Openings'
    BY <1>0, <2>5, <2>6 DEF Openings
  <2>8. Uploading'
    <3>1. UploadOK(upload[u], report[u])
      BY <2>6 DEF FreeInv, Shape, Uploading
    <3>2. UploadOK(upload[u], "paid")
      BY <2>2, <3>1 DEF UploadOK
    <3>3. upload' = [upload EXCEPT ![u] = upload[u]]
      BY <1>0, <2>6 DEF Uploading
    <3> QED BY <1>0, <2>2, <2>6, <3>2, <3>3, UploadMoves
  <2>9. Known'
    BY <2>5, <2>6 DEF Known, FreeInv, Promises
  <2>10. UploadHolds'
    BY <2>6 DEF UploadHolds, FreeInv, Promises, Holds
  <2>11. OpeningHolds'
    <3> SUFFICES ASSUME NEW b \in Accounts, opening'[b].pc = "grant"
                 PROVE  Holds(ByOpening(b), OpeningKeys(b))'
      BY DEF OpeningHolds
    <3>1. b # a /\ opening'[b] = opening[b]
      BY <2>5, <2>6
    <3>2. Holds(ByOpening(b), OpeningKeys(b)) /\ OpeningKeys(b)' = OpeningKeys(b)
      BY <2>6, <3>1 DEF FreeInv, Promises, OpeningHolds, OpeningKeys
    <3> QED BY <2>6, <3>2 DEF Holds
  <2>12. \A w \in welcome : report'[w.upload] \in {"paid", "deleted"} /\ KeptBy(w)'
    <3> SUFFICES ASSUME NEW w \in welcome
                 PROVE  report'[w.upload] \in {"paid", "deleted"} /\ KeptBy(w)'
      OBVIOUS
    <3>1. /\ report[w.upload] \in {"paid", "deleted"} /\ KeptBy(w)
          /\ w.upload \in Uploads /\ w.upload # u /\ w.account # a /\ w.account \in Accounts
      BY <1>0, <2>2 DEF FreeInv, Promises, Granted, Rows
    <3>2. RowKeys(w)' = RowKeys(w)
      BY <2>6 DEF RowKeys
    <3> QED BY <2>6, <3>1, <3>2 DEF KeptBy, Holds
  <2>13. KeptBy(row)'
    <3>1. Holds(ByOpening(a), OpeningKeys(a))
      BY <1>0 DEF FreeInv, Promises, OpeningHolds
    <3>2. RowKeys(row)' = OpeningKeys(a)
      BY <1>2, <2>1, <2>6 DEF RowKeys, OpeningKeys
    <3> QED BY <2>1, <2>5, <2>6, <3>1, <3>2 DEF KeptBy, Holds
  <2>14. Granted'
    <3>1. \A w \in welcome : w.upload # u /\ w.account # a
      BY <2>2 DEF FreeInv, Promises, Granted
    <3>2. \A v, w \in welcome : v # w => v.account # w.account /\ v.upload # w.upload
      BY DEF FreeInv, Promises, Granted
    <3>3. row.upload = u /\ row.account = a /\ report'[row.upload] = "paid"
      BY <2>1, <2>6
    <3>4. welcome' = welcome \cup {row}
      BY <2>2
    <3>5. \A v, w \in welcome' : v # w => v.account # w.account /\ v.upload # w.upload
      BY <3>1, <3>2, <3>3, <3>4
    <3>6. \A w \in welcome' : report'[w.upload] \in {"paid", "deleted"} /\ KeptBy(w)'
      BY <2>12, <2>13, <3>3, <3>4
    <3> QED BY <3>5, <3>6 DEF Granted
  <2> QED BY <1>1, <2>4, <2>7, <2>8, <2>9, <2>10, <2>11, <2>14 DEF FreeInv, Shape, Promises
<1> QED BY <1>3, <1>4

------------------------------------------------------------------------------
(* The steps that grant nothing.                                            *)

\* Claims of attachments and of cards may come and go; everything else stays.
LEMMA AsideKeeps ==
  ASSUME FreeInv, ClaimsOK', Rows', Attaching',
         \A c \in claims : c \in claims' \/ (\E a, x : c.by = ByAttach(a, x)),
         UNCHANGED <<upload, report, welcome, opening>>,
         \A q \in pending' : q \in pending \/ upload[q[1]].pc # "new"
  PROVE  FreeInv'
<1>1. UNCHANGED upload /\ UNCHANGED report /\ UNCHANGED welcome /\ UNCHANGED opening
  OBVIOUS
<1>2. Uploading' /\ Openings'
  BY <1>1 DEF FreeInv, Shape, Uploading, Openings
<1>3. Known'
  BY <1>1 DEF FreeInv, Promises, Known
<1>4. \A x, keys : /\ Holds(ByUpload(x), keys) => Holds(ByUpload(x), keys)'
                   /\ Holds(ByOpening(x), keys) => Holds(ByOpening(x), keys)'
  BY AttachReservations DEF Holds
<1>5. UploadHolds'
  BY <1>1, <1>4 DEF FreeInv, Promises, UploadHolds
<1>6. OpeningHolds'
  <2>1. \A a : OpeningKeys(a)' = OpeningKeys(a)
    BY <1>1 DEF OpeningKeys
  <2> QED BY <1>1, <1>4, <2>1 DEF FreeInv, Promises, OpeningHolds
<1>7. Granted'
  <2>1. \A w : RowKeys(w)' = RowKeys(w)
    BY <1>1 DEF RowKeys
  <2>2. \A w \in welcome : KeptBy(w) => KeptBy(w)'
    BY <1>1, <1>4, <2>1 DEF KeptBy
  <2> QED BY <1>1, <2>2 DEF FreeInv, Promises, Granted
<1> QED BY <1>2, <1>3, <1>5, <1>6, <1>7 DEF FreeInv, Shape, Promises

\* A step that changes no claim and no row of welcome_pending.
LEMMA AsideQuiet ==
  ASSUME FreeInv, Rows', Attaching',
         UNCHANGED <<claims, upload, report, welcome, opening>>, pending' \subseteq pending
  PROVE  FreeInv'
<1>1. ClaimsOK'
  BY DEF FreeInv, Shape, ClaimsOK, Unique
<1>2. /\ \A c \in claims : c \in claims' \/ (\E a, x : c.by = ByAttach(a, x))
      /\ \A q \in pending' : q \in pending \/ upload[q[1]].pc # "new"
  OBVIOUS
<1>3. UNCHANGED <<upload, report, welcome, opening>>
  OBVIOUS
<1> QED BY <1>1, <1>2, <1>3, AsideKeeps

LEMMA AttachMoves ==
  ASSUME Attaching, NEW a \in Accounts, NEW s \in AttachState,
         attach' = [attach EXCEPT ![a] = s], s.pc \notin {"none", "dead"} => s.upload \in Uploads
  PROVE  Attaching'
  BY DEF Attaching

LEMMA AttachesMoves ==
  ASSUME Attaching, NEW a \in Accounts, attach[a].pc # "none", attach[a].pc # "dead",
         NEW pc \in {"none", "link", "release", "note", "take", "dead"}, Attaches(a, pc)
  PROVE  Attaching'
<1>1. attach[a] \in AttachState /\ attach[a].upload \in Uploads
  BY DEF Attaching
<1>2. PICK s : s = [attach[a] EXCEPT !.pc = pc]
  OBVIOUS
<1>3. s \in AttachState /\ s.upload \in Uploads
  BY <1>1, <1>2 DEF AttachState
<1>4. attach' = [attach EXCEPT ![a] = s]
  BY <1>2 DEF Attaches
<1> QED BY <1>3, <1>4, AttachMoves

LEMMA AttachKeeps ==
  ASSUME FreeInv, NEW a \in Accounts, NEW u \in Uploads, Attach(a, u)
  PROVE  FreeInv'
<1>0. Attaching /\ Rows
  BY DEF FreeInv, Shape
<1>1. Rows' /\ UNCHANGED <<claims, upload, report, welcome, opening>> /\ pending' \subseteq pending
  BY <1>0 DEF Attach, Rows, rows, people
<1>2. PICK refused : refused = PendingRefused(a, u)
  OBVIOUS
<1>3. refused \in BOOLEAN
  BY <1>2 DEF PendingRefused
<1>4. PICK s : s = [pc |-> IF refused THEN "count" ELSE "link",
                    upload |-> u, refused |-> refused, counted |-> FALSE]
  OBVIOUS
<1>5. s \in AttachState /\ s.upload \in Uploads
  BY <1>3, <1>4 DEF AttachState
<1>6. attach' = [attach EXCEPT ![a] = s]
  BY <1>2, <1>4 DEF Attach
<1>7. Attaching'
  BY <1>0, <1>5, <1>6, AttachMoves
<1> QED BY <1>1, <1>7, AsideQuiet

LEMMA CountAttachedKeeps ==
  ASSUME FreeInv, NEW a \in Accounts, CountAttached(a)
  PROVE  FreeInv'
<1>0. /\ Attaching /\ Rows /\ ClaimsOK /\ attach[a] \in AttachState /\ attach[a].pc = "count"
      /\ attach[a].upload \in Uploads
  BY DEF FreeInv, Shape, Attaching, CountAttached
<1>1. /\ Rows' /\ UNCHANGED <<upload, report, welcome, opening>> /\ pending' = pending
  BY <1>0 DEF CountAttached, Rows, rows, people
<1>2. PICK net, gs : net = upload[attach[a].upload].net /\ gs = PreviewGroups(a, net)
  OBVIOUS
<1>3. PICK can : can = CanTake({}, gs)
  OBVIOUS
<1>4. can \in BOOLEAN
  BY <1>3 DEF CanTake
<1>5. PICK s : s = [attach[a] EXCEPT !.pc = "link", !.counted = can]
  OBVIOUS
<1>6. s \in AttachState /\ s.upload \in Uploads
  BY <1>0, <1>4, <1>5 DEF AttachState
<1>7. attach' = [attach EXCEPT ![a] = s]
  BY <1>2, <1>3, <1>5 DEF CountAttached
<1>8. Attaching'
  BY <1>0, <1>6, <1>7, AttachMoves
<1>9. ClaimsOK' /\ claims \subseteq claims'
  <2>1. CASE CanTake({}, gs)
    <3>1. Take(ByAttach(a, attach[a].upload), {}, gs)
      BY <1>2, <1>3, <2>1 DEF CountAttached
    <3>2. Groups(gs) /\ Kinded({}) /\ Request(ByAttach(a, attach[a].upload))
      BY <1>2, CodeGroups, Requests
    <3> QED BY <1>0, <2>1, <3>1, <3>2, TakeShape
  <2>2. CASE ~CanTake({}, gs)
    <3>1. UNCHANGED claims
      BY <1>2, <1>3, <2>2 DEF CountAttached
    <3> QED BY <1>0, <3>1 DEF ClaimsOK, Unique
  <2> QED BY <2>1, <2>2
<1>10. /\ \A c \in claims : c \in claims' \/ (\E b, x : c.by = ByAttach(b, x))
       /\ \A q \in pending' : q \in pending \/ upload[q[1]].pc # "new"
  BY <1>1, <1>9
<1>11. UNCHANGED <<upload, report, welcome, opening>>
  BY <1>1
<1> QED BY <1>1, <1>8, <1>9, <1>10, <1>11, AsideKeeps

LEMMA LinkAttachedKeeps ==
  ASSUME FreeInv, NEW a \in Accounts, LinkAttached(a)
  PROVE  FreeInv'
<1>0. /\ Attaching /\ Rows /\ attach[a].pc = "link" /\ attach[a].upload \in Uploads
  BY DEF FreeInv, Shape, Attaching, LinkAttached
<1>1. UNCHANGED <<claims, upload, report, welcome, opening>> /\ pending' \subseteq pending
  BY DEF LinkAttached
<1>2. PICK u : u = attach[a].upload
  OBVIOUS
<1>3. held' = held \/ held' = held \cup {<<u, a>>}
  BY <1>2 DEF LinkAttached
<1>4. Rows'
  BY <1>0, <1>2, <1>3 DEF LinkAttached, Rows, people
<1>5. \E pc \in {"none", "release", "note", "take"} : Attaches(a, pc)
  BY DEF LinkAttached
<1>6. Attaching'
  BY <1>0, <1>5, AttachesMoves
<1> QED BY <1>1, <1>4, <1>6, AsideQuiet

LEMMA ReleaseAttachedKeeps ==
  ASSUME FreeInv, NEW a \in Accounts, ReleaseAttached(a)
  PROVE  FreeInv'
<1>0. /\ Attaching /\ Rows /\ ClaimsOK /\ attach[a].pc = "release"
  BY DEF FreeInv, Shape, Attaching, ReleaseAttached
<1>1. /\ Rows' /\ UNCHANGED <<upload, report, welcome, opening>> /\ pending' = pending
      /\ Release(ByAttach(a, attach[a].upload)) /\ Attaches(a, "none")
  BY <1>0 DEF ReleaseAttached, Rows, rows, people
<1>2. ClaimsOK' /\ \A c \in claims : c.by # ByAttach(a, attach[a].upload) => c \in claims'
  BY <1>0, <1>1, ReleaseShape
<1>3. Attaching'
  BY <1>0, <1>1, AttachesMoves
<1>4. /\ \A c \in claims : c \in claims' \/ (\E b, x : c.by = ByAttach(b, x))
      /\ \A q \in pending' : q \in pending \/ upload[q[1]].pc # "new"
  BY <1>1, <1>2
<1>5. UNCHANGED <<upload, report, welcome, opening>>
  BY <1>1
<1> QED BY <1>1, <1>2, <1>3, <1>4, <1>5, AsideKeeps

LEMMA NoteAttachedKeeps ==
  ASSUME FreeInv, NEW a \in Accounts, NoteAttached(a)
  PROVE  FreeInv'
<1>0. /\ Attaching /\ Rows /\ attach[a].pc = "note" /\ attach[a].upload \in Uploads
  BY DEF FreeInv, Shape, Attaching, NoteAttached
<1>1. UNCHANGED <<claims, upload, report, welcome, opening>> /\ pending' \subseteq pending
  BY DEF NoteAttached
<1>2. Rows'
  BY <1>0 DEF NoteAttached, Rows, people
<1>3. Attaching'
  BY <1>0, AttachesMoves DEF NoteAttached
<1> QED BY <1>1, <1>2, <1>3, AsideQuiet

LEMMA AttachDiesKeeps ==
  ASSUME FreeInv, NEW a \in Accounts, AttachDies(a)
  PROVE  FreeInv'
<1>0. Attaching /\ Rows
  BY DEF FreeInv, Shape
<1>1. UNCHANGED <<claims, upload, report, welcome, opening>> /\ pending' \subseteq pending /\ Rows'
  BY <1>0 DEF AttachDies, Rows, people, rows
<1>2. attach[a].pc # "none" /\ attach[a].pc # "dead" /\ Attaches(a, "dead")
  BY DEF AttachDies
<1>3. Attaching'
  BY <1>0, <1>2, AttachesMoves
<1> QED BY <1>1, <1>3, AsideQuiet

LEMMA TakeAttachedKeeps ==
  ASSUME FreeInv, NEW a \in Accounts, TakeAttached(a)
  PROVE  FreeInv'
<1>0. /\ Attaching /\ Rows /\ ClaimsOK /\ opening[a].pc = "none"
      /\ attach[a].pc = "take" /\ attach[a].upload \in Uploads
  BY DEF FreeInv, Shape, Attaching, TakeAttached
<1>1. PICK u : u = attach[a].upload
  OBVIOUS
<1>2. /\ UNCHANGED <<people, credits, claims, report, welcome, previews, held, upload>>
      /\ pending' = IF <<u, Nobody>> \in pending
                      THEN (pending \ {<<u, Nobody>>}) \cup {<<u, a>>} ELSE pending
      /\ Opens(a, "read") \/ UNCHANGED opening
      /\ attach' = [attach EXCEPT ![a] = NoAttach]
  BY <1>1 DEF TakeAttached
<1>3. \A q \in pending' : q \in pending \/ upload[q[1]].pc # "new"
  <2>1. CASE <<u, Nobody>> \in pending
    <3>1. <<u, Nobody>>[1] = u /\ <<u, a>>[1] = u
      OBVIOUS
    <3>2. upload[u].pc # "new"
      BY <2>1, <3>1 DEF FreeInv, Promises, Known
    <3> QED BY <1>2, <2>1, <3>1, <3>2
  <2>2. CASE <<u, Nobody>> \notin pending
    BY <1>2, <2>2
  <2> QED BY <2>1, <2>2
<1>4. Rows'
  <2>1. pending' \subseteq Uploads \X Owners
    BY <1>0, <1>1, <1>2 DEF Rows, Owners
  <2> QED BY <1>0, <1>2, <2>1 DEF Rows, people
<1>5. ClaimsOK'
  BY <1>0, <1>2 DEF ClaimsOK, Unique
<1>6. Attaching'
  <2>1. PICK s : s = NoAttach
    OBVIOUS
  <2>2. s \in AttachState /\ s.pc = "none"
    BY <2>1 DEF AttachState, NoAttach
  <2>3. attach' = [attach EXCEPT ![a] = s]
    BY <1>2, <2>1
  <2> QED BY <1>0, <2>2, <2>3, AttachMoves
<1>7. CASE Opens(a, "read")
  <2>1. /\ \A c \in claims : c \in claims' \/ (c.by = ByOpening(a) /\ opening[a].pc = "release")
        /\ UNCHANGED <<upload, report, welcome>>
    BY <1>2
  <2> QED BY <1>3, <1>4, <1>5, <1>6, <1>7, <2>1, OpeningQuiet
<1>8. CASE UNCHANGED opening
  <2>1. /\ \A c \in claims : c \in claims' \/ (\E b, x : c.by = ByAttach(b, x))
        /\ UNCHANGED <<upload, report, welcome, opening>>
    BY <1>2, <1>8
  <2> QED BY <1>3, <1>4, <1>5, <1>6, <2>1, AsideKeeps
<1> QED BY <1>2, <1>7, <1>8

LEMMA ChangeEmailKeeps ==
  ASSUME FreeInv, NEW a \in Accounts, NEW m \in Inboxes, ChangeEmail(a, m)
  PROVE  FreeInv'
<1>0. Attaching /\ Rows
  BY DEF FreeInv, Shape
<1>1. UNCHANGED <<claims, upload, report, welcome, opening>> /\ pending' \subseteq pending
  BY DEF ChangeEmail, rows
<1>2. Rows' /\ Attaching'
  BY <1>0 DEF ChangeEmail, Rows, rows, Attaching
<1> QED BY <1>1, <1>2, AsideQuiet

LEMMA LeaveKeeps ==
  ASSUME FreeInv, NEW a \in Accounts, Leave(a)
  PROVE  FreeInv'
<1>0. Attaching /\ Rows
  BY DEF FreeInv, Shape
<1>1. UNCHANGED <<claims, upload, report, welcome, opening>> /\ pending' \subseteq pending
  BY DEF Leave
<1>2. Rows' /\ Attaching'
  BY <1>0 DEF Leave, Rows, Attaching
<1> QED BY <1>1, <1>2, AsideQuiet

LEMMA CheckCardKeeps ==
  ASSUME FreeInv, NEW a \in Accounts, NEW card \in Cards, CheckCard(a, card)
  PROVE  FreeInv'
<1>0. Attaching /\ Rows /\ ClaimsOK
  BY DEF FreeInv, Shape
<1>1. UNCHANGED <<upload, report, welcome, opening>> /\ pending' = pending
  BY DEF CheckCard, rows
<1>2. Rows' /\ Attaching'
  BY <1>0 DEF CheckCard, Rows, rows, Attaching
<1>3. PICK c : c = [key |-> Key("card", card, 0), by |-> ByCard(a)]
  OBVIOUS
<1>4. /\ c.key = Key("card", card, 0) /\ c.by = ByCard(a) /\ claims' = claims \cup {c}
      /\ \A d \in claims : d.key = c.key => d.by = c.by
  BY <1>3 DEF CheckCard
<1>5. ClaimOK(c.key, c.by) /\ c = [key |-> c.key, by |-> c.by]
  BY <1>3, <1>4, Reservations DEF ClaimOK, Key, Kinds
<1>6. \A d \in claims : d.key = c.key => d = c
  BY <1>0, <1>4, <1>5 DEF ClaimsOK
<1>7. ClaimsOK'
  BY <1>0, <1>4, <1>5, <1>6 DEF ClaimsOK, Unique
<1>8. /\ \A d \in claims : d \in claims' \/ (\E b, x : d.by = ByAttach(b, x))
      /\ \A q \in pending' : q \in pending \/ upload[q[1]].pc # "new"
  BY <1>1, <1>4
<1> QED BY <1>1, <1>2, <1>7, <1>8, AsideKeeps

------------------------------------------------------------------------------
(* Each action, and every behaviour.                                        *)

LEMMA FreeInit == Init => FreeInv
<1> SUFFICES ASSUME Init PROVE FreeInv
  OBVIOUS
<1>1. PICK me : me = [pc |-> "new", plan |-> "", account |-> Nobody, device |-> Nobody, file |-> Nobody,
                      net |-> Nobody, inbox |-> Nobody, card |-> FALSE, unverified |-> FALSE]
  OBVIOUS
<1>2. upload = [u \in Uploads |-> me] /\ report = [u \in Uploads |-> "none"]
  BY <1>1 DEF Init
<1>3. UploadOK(me, "none") /\ me.pc = "new" /\ me.plan = ""
  BY <1>1 DEF UploadOK, UploadState, Owners
<1>4. Uploading
  BY <1>2, <1>3 DEF Uploading
<1>5. PICK o : o = Idle
  OBVIOUS
<1>6. o \in OpeningState /\ o.pc = "none"
  BY <1>5 DEF Idle, OpeningState
<1>7. opening = [a \in Accounts |-> o]
  BY <1>5 DEF Init
<1>8. PICK s : s = NoAttach
  OBVIOUS
<1>9. s \in AttachState /\ s.pc = "none"
  BY <1>8 DEF AttachState, NoAttach
<1>10. attach = [a \in Accounts |-> s]
  BY <1>8 DEF Init
<1>11. Openings /\ Attaching
  BY <1>6, <1>7, <1>9, <1>10 DEF Openings, Attaching
<1>12. Rows /\ ClaimsOK
  BY FreeConstants DEF Init, Rows, ClaimsOK, Unique
<1>13. Known /\ UploadHolds /\ OpeningHolds /\ Granted
  BY <1>2, <1>3, <1>6, <1>7 DEF Init, Known, UploadHolds, OpeningHolds, Granted
<1> QED BY <1>4, <1>11, <1>12, <1>13 DEF FreeInv, Shape, Promises

LEMMA FreeStutter == FreeInv /\ UNCHANGED vars => FreeInv'
<1> SUFFICES ASSUME FreeInv, UNCHANGED vars PROVE FreeInv'
  OBVIOUS
<1>1. UNCHANGED <<claims, upload, report, welcome, opening>> /\ pending' \subseteq pending
  BY DEF vars, rows
<1>2. Rows' /\ Attaching'
  BY DEF FreeInv, Shape, Rows, Attaching, vars, rows, people
<1> QED BY <1>1, <1>2, AsideQuiet

LEMMA FreeStep == FreeInv /\ [Next]_vars => FreeInv'
<1> SUFFICES ASSUME FreeInv, [Next]_vars PROVE FreeInv'
  OBVIOUS
<1>1. ASSUME NEW u \in Uploads, NEW d \in Devices, NEW f \in Files, NEW net \in Nets,
             StartAnon(u, d, f, net) \/ \E a \in Accounts : Start(u, a, d, f, net)
      PROVE  FreeInv'
  BY <1>1, StartKeeps
<1>2. ASSUME NEW u \in Uploads,
             \/ Check(u) \/ ClaimWelcome(u) \/ ClaimSlots(u) \/ Run(u)
             \/ GrantWelcome(u) \/ Redeem(u) \/ Finish(u)
             \/ GiveBack(u) \/ Reclaim(u) \/ Drop(u) \/ Note(u) \/ Pend(u) \/ UploadDies(u)
      PROVE  FreeInv'
  <2>1. CASE Check(u)
    BY <2>1, CheckKeeps
  <2>2. CASE ClaimWelcome(u)
    BY <2>2, ClaimWelcomeKeeps
  <2>3. CASE ClaimSlots(u)
    BY <2>3, ClaimSlotsKeeps
  <2>4. CASE GrantWelcome(u)
    BY <2>4, GrantWelcomeKeeps
  <2>5. CASE GiveBack(u) \/ Reclaim(u)
    BY <2>5, GiveBackKeeps
  <2>6. CASE Run(u) \/ Redeem(u) \/ Finish(u) \/ Drop(u) \/ Note(u) \/ Pend(u) \/ UploadDies(u)
    BY <2>6, LaterKeeps
  <2> QED BY <1>2, <2>1, <2>2, <2>3, <2>4, <2>5, <2>6
<1>3. ASSUME NEW a \in Accounts,
             \/ Confirm(a) \/ Choose(a) \/ ClaimPending(a) \/ GrantPending(a) \/ ReleasePending(a)
             \/ DeletePreview(a) \/ ClearPending(a) \/ OpeningDies(a)
      PROVE  FreeInv'
  BY <1>3, ConfirmKeeps, ChooseKeeps, ClaimPendingKeeps, GrantPendingKeeps, ReleasePendingKeeps,
     DeletePreviewKeeps, ClearPendingKeeps, OpeningDiesKeeps
<1>4. ASSUME NEW a \in Accounts,
             \/ \E u \in Uploads : Attach(a, u)
             \/ CountAttached(a) \/ LinkAttached(a) \/ ReleaseAttached(a)
             \/ NoteAttached(a) \/ TakeAttached(a) \/ AttachDies(a)
      PROVE  FreeInv'
  BY <1>4, AttachKeeps, CountAttachedKeeps, LinkAttachedKeeps, ReleaseAttachedKeeps,
     NoteAttachedKeeps, TakeAttachedKeeps, AttachDiesKeeps
<1>5. ASSUME NEW a \in Accounts,
             \/ \E m \in Inboxes : ChangeEmail(a, m)
             \/ \E card \in Cards : CheckCard(a, card)
             \/ Leave(a)
      PROVE  FreeInv'
  BY <1>5, ChangeEmailKeeps, CheckCardKeeps, LeaveKeeps
<1>6. CASE UNCHANGED vars
  BY <1>6, FreeStutter
<1> QED BY <1>1, <1>2, <1>3, <1>4, <1>5, <1>6 DEF Next

LEMMA FreeInvHolds == Spec => []FreeInv
  BY FreeInit, FreeStep, PTL DEF Spec

LEMMA TypeFollows == FreeInv => TypeOK
<1> SUFFICES ASSUME FreeInv PROVE TypeOK
  OBVIOUS
<1>1. Rows /\ Unique /\ Openings /\ Attaching
  BY DEF FreeInv, Shape, ClaimsOK
<1>2. \A c \in claims : c.key.kind \in Kinds /\ c.by.act \in {"upload", "open", "attach", "card"}
  BY DEF FreeInv, Shape, ClaimsOK, ClaimOK
<1>3. \A u \in Uploads : upload[u] \in UploadState /\ report[u] \in {"none", "locked", "paid", "deleted"}
  BY DEF FreeInv, Shape, Uploading, UploadOK
<1>4. /\ upload = [u \in Uploads |-> upload[u]]
      /\ report = [u \in Uploads |-> report[u]]
  BY DEF FreeInv, Shape, Uploading
<1>5. upload \in [Uploads -> UploadState] /\ report \in [Uploads -> {"none", "locked", "paid", "deleted"}]
  BY <1>3, <1>4
<1> QED BY <1>1, <1>2, <1>5 DEF TypeOK, Rows, Unique, Openings, Attaching

\* Two reservations never hold the same key.
LEMMA KeysApart ==
  ASSUME Unique, NEW x, NEW y, x # y, NEW ks, NEW ls, Holds(x, ks), Holds(y, ls), NEW k \in ks
  PROVE  k \notin ls
<1> SUFFICES ASSUME k \in ls PROVE FALSE
  OBVIOUS
<1>1. PICK c, d : c = [key |-> k, by |-> x] /\ d = [key |-> k, by |-> y]
  OBVIOUS
<1>2. c \in claims /\ d \in claims /\ c.key = d.key /\ c.by = x /\ d.by = y
  BY <1>1 DEF Holds
<1> QED BY <1>2 DEF Unique

LEMMA OneFollows == FreeInv => OneFreeReport
<1> SUFFICES ASSUME FreeInv, NEW v \in welcome, NEW w \in welcome, v # w
             PROVE  /\ v.account # w.account /\ v.upload # w.upload
                    /\ v.inbox # w.inbox
                    /\ upload[v.upload].file # upload[w.upload].file
                    /\ v.card \/ w.card \/ upload[v.upload].device # upload[w.upload].device
  BY DEF OneFreeReport
<1>1. v.account # w.account /\ v.upload # w.upload /\ KeptBy(v) /\ KeptBy(w) /\ Unique
  BY DEF FreeInv, Promises, Granted, Shape, ClaimsOK
<1>2. PICK x : x \in {ByUpload(v.upload), ByOpening(v.account)} /\ Holds(x, RowKeys(v))
  BY <1>1 DEF KeptBy
<1>3. PICK y : y \in {ByUpload(w.upload), ByOpening(w.account)} /\ Holds(y, RowKeys(w))
  BY <1>1 DEF KeptBy
<1>4. x # y
  <2>1. ByUpload(v.upload) # ByUpload(w.upload) /\ ByOpening(v.account) # ByOpening(w.account)
    BY <1>1, Reservations
  <2>2. ByUpload(v.upload) # ByOpening(w.account) /\ ByUpload(w.upload) # ByOpening(v.account)
    BY Reservations
  <2> QED BY <1>2, <1>3, <2>1, <2>2
<1>5. PICK ks, ls : ks = RowKeys(v) /\ ls = RowKeys(w)
  OBVIOUS
<1>6. \A k \in ks : k \notin ls
  BY <1>1, <1>2, <1>3, <1>4, <1>5, KeysApart
<1>7. /\ Key("inbox", v.inbox, 0) \in ks /\ Key("inbox", w.inbox, 0) \in ls
      /\ Key("file", upload[v.upload].file, 0) \in ks /\ Key("file", upload[w.upload].file, 0) \in ls
      /\ ~v.card => Key("device", upload[v.upload].device, 0) \in ks
      /\ ~w.card => Key("device", upload[w.upload].device, 0) \in ls
  BY <1>5 DEF RowKeys, WelcomeKeys
<1>8. v.inbox # w.inbox /\ upload[v.upload].file # upload[w.upload].file
  BY <1>6, <1>7
<1>9. v.card \/ w.card \/ upload[v.upload].device # upload[w.upload].device
  BY <1>6, <1>7
<1> QED BY <1>1, <1>8, <1>9

------------------------------------------------------------------------------
(* The month's limits, and what is given back.                              *)

\* The reservation `by` has a slot of each of the groups.
HasSlots(cl, by, gs) == \A g \in gs : \E k \in g : [key |-> k, by |-> by] \in cl

\* What the requests work on is an upload that has ended, and a report that was opened has
\* been paid when its preview is given back.
Ended ==
    /\ \A p \in pending : upload[p[1]].pc = "done"
    /\ \A p \in previews : upload[p[1]].pc \in {"pend", "done", "dead"}
    /\ \A a \in Accounts :
        /\ opening[a].pc \in {"claim", "grant", "giveBack"} => upload[opening[a].upload].pc = "done"
        /\ opening[a].pc = "giveBack" => report[opening[a].upload] = "paid"
        /\ attach[a].pc \notin {"none", "dead"} => upload[attach[a].upload].pc = "done"

\* A request that goes on has the slots of what it is going to deliver.
UploadSlots(u) ==
    LET me == upload[u] IN
    /\ me.pc \in {"run", "finish"} /\ me.plan = "welcome" =>
          HasSlots(claims, ByUpload(u), WelcomeGroups(me.net, me.card))
    /\ (me.pc \in {"run", "finish"} /\ me.plan = "preview") \/ me.pc = "note" =>
          HasSlots(claims, ByUpload(u), PreviewGroups(me.account, me.net))

OpeningSlots(a) ==
    opening[a].pc = "grant" =>
        HasSlots(claims, ByOpening(a), WelcomeGroups(upload[opening[a].upload].net, opening[a].card))

AttachSlots(a) ==
    LET u == attach[a].upload IN
    /\ (attach[a].pc = "link" /\ attach[a].counted) \/ attach[a].pc = "note" =>
          HasSlots(claims, ByAttach(a, u), PreviewGroups(a, upload[u].net))
    /\ attach[a].pc = "note" => <<u, a>> \in held \/ a \notin open

\* A free full report keeps its slot under the request that granted it, ...
WelcomeSlots(w) ==
    LET gs == WelcomeGroups(upload[w.upload].net, w.card) IN
    \/ upload[w.upload].pc \in {"done", "dead"} /\ HasSlots(claims, ByUpload(w.upload), gs)
    \/ opening[w.account].pc \notin {"grant", "release"} /\ HasSlots(claims, ByOpening(w.account), gs)

\* ... a counted preview under its upload, or under the request that put it on the account;
\* no second request does, while the account holds the report.
PreviewSlots(p) ==
    LET u == p[1]
        a == p[2]
        gs == PreviewGroups(a, upload[u].net) IN
    \/ upload[u].account = a /\ HasSlots(claims, ByUpload(u), gs)
    \/ /\ <<u, a>> \in held \/ a \notin open
       /\ attach[a].upload = u => attach[a].pc \notin {"count", "link", "release"}
       /\ HasSlots(claims, ByAttach(a, u), gs)

WelcomeKinds == {"account", "inbox", "device", "file", "net"}
PreviewKinds == {"preview", "previewNet"}

\* The claims of an upload are of these kinds.
Only(cl, u, kinds) == \A c \in cl : c.by = ByUpload(u) => c.key.kind \in kinds

Some(cl, u, kinds) == \E c \in cl : c.by = ByUpload(u) /\ c.key.kind \in kinds

\* At every point an upload has no claims but those of its plan, and one that ended has
\* delivered what they stand for.
Settled(u) ==
    LET me == upload[u] IN
    /\ me.pc = "new" \/ me.plan = "anon" => me.account = Nobody
    /\ me.pc \in {"new", "check", "claim", "slots", "reclaim", "drop"} => Only(claims, u, {})
    /\ me.pc \in {"run", "finish"} =>
          /\ me.plan = "welcome" => Only(claims, u, WelcomeKinds)
          /\ me.plan = "preview" => Only(claims, u, PreviewKinds)
          /\ me.plan = "credit" => Only(claims, u, {})
          /\ me.plan = "anon" => Only(claims, u, {"anon"})
    /\ me.pc \in {"note", "pend"} => Only(claims, u, PreviewKinds)
    /\ me.pc = "finish" => report[u] # "none"
    /\ me.pc = "pend" => \E p \in previews : p[1] = u
    /\ me.pc = "done" =>
          /\ Only(claims, u, WelcomeKinds \cup PreviewKinds \cup {"anon"})
          /\ Some(claims, u, WelcomeKinds) => \E w \in welcome : w.upload = u
          /\ Some(claims, u, PreviewKinds) =>
                report[u] = "paid" \/ \E p \in previews : p[1] = u
          /\ Some(claims, u, {"anon"}) => report[u] # "none"
          /\ me.account # Nobody /\ report[u] = "locked" => \E p \in previews : p[1] = u

SlotInv ==
    /\ Ended
    /\ \A u \in Uploads : UploadSlots(u) /\ Settled(u)
    /\ \A a \in Accounts : OpeningSlots(a) /\ AttachSlots(a)
    /\ \A w \in welcome : WelcomeSlots(w)
    /\ \A p \in previews : PreviewSlots(p)

\* Two sets of claims hold the same under a reservation.
Alike(cl, cl2, by) == \A c \in cl \cup cl2 : c.by = by => c \in cl /\ c \in cl2

LEMMA AlikeSlots ==
  ASSUME NEW cl, NEW cl2, NEW by, Alike(cl, cl2, by) \/ cl \subseteq cl2, NEW gs,
         HasSlots(cl, by, gs)
  PROVE  HasSlots(cl2, by, gs)
  BY DEF Alike, HasSlots

LEMMA AlikeKinds ==
  ASSUME NEW cl, NEW cl2, NEW u, Alike(cl, cl2, ByUpload(u)), NEW kinds
  PROVE  /\ Only(cl, u, kinds) <=> Only(cl2, u, kinds)
         /\ Some(cl, u, kinds) <=> Some(cl2, u, kinds)
  BY DEF Alike, Only, Some

\* What is written of an upload that is not new stays: its rows are of one that is not.
LEMMA RowsKnown ==
  ASSUME FreeInv, SlotInv
  PROVE  /\ \A p \in previews : p[1] \in Uploads /\ p[2] \in Accounts /\ p = <<p[1], p[2]>>
                                /\ upload[p[1]].pc \in {"pend", "done", "dead"}
         /\ \A q \in pending : q[1] \in Uploads /\ upload[q[1]].pc = "done"
         /\ \A w \in welcome : /\ w.upload \in Uploads /\ w.account \in Accounts
                                /\ upload[w.upload].pc # "new" /\ report[w.upload] # "none"
         /\ \A a \in Accounts :
              /\ opening[a].pc \in {"claim", "grant", "giveBack"} =>
                    opening[a].upload \in Uploads /\ upload[opening[a].upload].pc = "done"
              /\ attach[a].pc \notin {"none", "dead"} =>
                    attach[a].upload \in Uploads /\ upload[attach[a].upload].pc = "done"
<1>1. Rows /\ Uploading /\ Openings /\ Attaching /\ Ended /\ Granted
  BY DEF FreeInv, Shape, Promises, SlotInv
<1>2. \A p \in previews : p[1] \in Uploads /\ p[2] \in Accounts /\ p = <<p[1], p[2]>>
  BY <1>1 DEF Rows
<1>3. \A q \in pending : q[1] \in Uploads
  BY <1>1 DEF Rows
<1>4. \A w \in welcome : w.upload \in Uploads /\ w.account \in Accounts
  BY <1>1 DEF Rows
<1>5. \A w \in welcome : upload[w.upload].pc # "new" /\ report[w.upload] # "none"
  BY <1>1, <1>4 DEF Granted, Uploading, UploadOK
<1> QED BY <1>1, <1>2, <1>3, <1>4, <1>5 DEF Ended, Openings, Attaching

\* An upload moves on.
LEMMA UploadStep ==
  ASSUME FreeInv, SlotInv, NEW u \in Uploads, NEW me, upload' = [upload EXCEPT ![u] = me],
         upload[u].pc \notin {"done", "dead"}, me.pc # "new",
         upload[u].pc # "new" => me.net = upload[u].net /\ me.account = upload[u].account,
         \A v \in Uploads \ {u} : report'[v] = report[v],
         UNCHANGED <<open, held, opening, attach>>,
         \A by : by # ByUpload(u) => Alike(claims, claims', by),
         welcome \subseteq welcome',
         \A w \in welcome' : w \in welcome \/ WelcomeSlots(w)',
         \A q \in pending' : q \in pending \/ (q[1] = u /\ me.pc = "done"),
         previews \subseteq previews',
         \A p \in previews' : \/ p \in previews
                              \/ p[1] = u /\ me.pc \in {"pend", "done"} /\ PreviewSlots(p)',
         upload[u].pc = "pend" => UNCHANGED claims /\ me.pc \in {"done", "dead"},
         UploadSlots(u)', Settled(u)'
  PROVE  SlotInv'
<1>1. /\ upload'[u] = me /\ \A v \in Uploads \ {u} : upload'[v] = upload[v]
      /\ UNCHANGED open /\ UNCHANGED held /\ UNCHANGED opening /\ UNCHANGED attach
  BY DEF FreeInv, Shape, Uploading
<1>2. /\ \A v \in Uploads \ {u} : Alike(claims, claims', ByUpload(v))
      /\ \A a : Alike(claims, claims', ByOpening(a))
      /\ \A a, x : Alike(claims, claims', ByAttach(a, x))
  BY Reservations, AttachReservations
<1>3. Ended'
  <2>1. \A p \in pending' : upload'[p[1]].pc = "done"
    BY <1>1, RowsKnown
  <2>2. \A p \in previews' : upload'[p[1]].pc \in {"pend", "done", "dead"}
    BY <1>1, RowsKnown
  <2>3. ASSUME NEW a \in Accounts
        PROVE  /\ opening[a].pc \in {"claim", "grant", "giveBack"} =>
                     upload'[opening[a].upload].pc = "done"
               /\ opening[a].pc = "giveBack" => report'[opening[a].upload] = "paid"
               /\ attach[a].pc \notin {"none", "dead"} => upload'[attach[a].upload].pc = "done"
    BY <1>1, RowsKnown DEF SlotInv, Ended
  <2> QED BY <1>1, <2>1, <2>2, <2>3 DEF Ended
<1>4. ASSUME NEW v \in Uploads PROVE UploadSlots(v)' /\ Settled(v)'
  <2> SUFFICES ASSUME v # u PROVE UploadSlots(v)' /\ Settled(v)'
    OBVIOUS
  <2>1. UploadSlots(v) /\ Settled(v) /\ upload'[v] = upload[v] /\ report'[v] = report[v]
    BY <1>1 DEF SlotInv
  <2>2. UploadSlots(v)'
    BY <1>2, <2>1, AlikeSlots DEF UploadSlots
  <2>3. \A kinds : /\ Only(claims, v, kinds) <=> Only(claims', v, kinds)
                   /\ Some(claims, v, kinds) <=> Some(claims', v, kinds)
    BY <1>2, AlikeKinds
  <2>4. Settled(v)'
    BY <2>1, <2>3 DEF Settled
  <2> QED BY <2>2, <2>4
<1>5. ASSUME NEW a \in Accounts PROVE OpeningSlots(a)' /\ AttachSlots(a)'
  <2>1. OpeningSlots(a) /\ AttachSlots(a)
    BY DEF SlotInv
  <2>2. /\ opening[a].pc = "grant" => upload'[opening[a].upload] = upload[opening[a].upload]
        /\ attach[a].pc \notin {"none", "dead"} => upload'[attach[a].upload] = upload[attach[a].upload]
    BY <1>1, RowsKnown
  <2>3. OpeningSlots(a)'
    BY <1>1, <1>2, <2>1, <2>2, AlikeSlots DEF OpeningSlots
  <2>4. AttachSlots(a)'
    BY <1>1, <1>2, <2>1, <2>2, AlikeSlots DEF AttachSlots
  <2> QED BY <2>3, <2>4
<1>6. ASSUME NEW w \in welcome PROVE WelcomeSlots(w)'
  <2>1. WelcomeSlots(w) /\ upload'[w.upload].net = upload[w.upload].net
    BY <1>1, RowsKnown DEF SlotInv
  <2>2. upload[w.upload].pc \in {"done", "dead"} =>
           upload'[w.upload] = upload[w.upload] /\ Alike(claims, claims', ByUpload(w.upload))
    BY <1>1, <1>2, RowsKnown
  <2> QED BY <1>1, <1>2, <2>1, <2>2, AlikeSlots DEF WelcomeSlots
<1>7. ASSUME NEW p \in previews PROVE PreviewSlots(p)'
  <2>1. /\ PreviewSlots(p) /\ upload'[p[1]].net = upload[p[1]].net
        /\ upload'[p[1]].account = upload[p[1]].account
    BY <1>1, RowsKnown DEF SlotInv
  <2>2. Alike(claims, claims', ByUpload(p[1])) \/ claims \subseteq claims'
    BY <1>2, RowsKnown
  <2> QED BY <1>1, <1>2, <2>1, <2>2, AlikeSlots DEF PreviewSlots
<1> QED BY <1>3, <1>4, <1>5, <1>6, <1>7 DEF SlotInv

\* A preview on its way to the free full report moves on.
LEMMA OpeningStep ==
  ASSUME FreeInv, SlotInv, NEW a \in Accounts, NEW o, opening' = [opening EXCEPT ![a] = o],
         UNCHANGED <<open, held, attach, upload>>,
         \A by : by # ByOpening(a) => Alike(claims, claims', by),
         opening[a].pc # "release" => claims \subseteq claims',
         o.pc \in {"grant", "release"} =>
            opening[a].pc = "grant" \/ \A w \in welcome : w.account # a,
         \A v \in Uploads : \/ report'[v] = report[v]
                            \/ report[v] = "locked" /\ report'[v] = "paid",
         welcome \subseteq welcome', \A w \in welcome' : w \in welcome \/ WelcomeSlots(w)',
         pending' \subseteq pending, previews' \subseteq previews,
         \A p \in previews : \/ p \in previews'
                             \/ report'[p[1]] = "paid" /\ upload[p[1]].pc = "done",
         o.pc \in {"claim", "grant", "giveBack"} => upload[o.upload].pc = "done",
         o.pc = "giveBack" => report'[o.upload] = "paid",
         OpeningSlots(a)'
  PROVE  SlotInv'
<1>1. /\ opening'[a] = o /\ \A b \in Accounts \ {a} : opening'[b] = opening[b]
      /\ UNCHANGED open /\ UNCHANGED held /\ UNCHANGED upload /\ UNCHANGED attach
  BY DEF FreeInv, Shape, Openings
<1>2. /\ \A v : Alike(claims, claims', ByUpload(v))
      /\ \A b \in Accounts \ {a} : Alike(claims, claims', ByOpening(b))
      /\ \A b, x : Alike(claims, claims', ByAttach(b, x))
  BY Reservations, AttachReservations
<1>3. Ended'
  <2>1. ASSUME NEW b \in Accounts
        PROVE  /\ opening'[b].pc \in {"claim", "grant", "giveBack"} =>
                     upload[opening'[b].upload].pc = "done"
               /\ opening'[b].pc = "giveBack" => report'[opening'[b].upload] = "paid"
    <3>1. CASE b = a
      BY <1>1, <3>1
    <3>2. CASE b # a
      <4>1. opening[b].pc = "giveBack" => report[opening[b].upload] = "paid" /\ opening[b].upload \in Uploads
        BY RowsKnown DEF SlotInv, Ended
      <4> QED BY <1>1, <3>2, <4>1, RowsKnown
    <3> QED BY <3>1, <3>2
  <2> QED BY <1>1, <2>1 DEF SlotInv, Ended
<1>4. ASSUME NEW v \in Uploads PROVE UploadSlots(v)' /\ Settled(v)'
  <2>1. UploadSlots(v) /\ Settled(v)
    BY DEF SlotInv
  <2>2. UploadSlots(v)'
    BY <1>1, <1>2, <2>1, AlikeSlots DEF UploadSlots
  <2>3. \A kinds : /\ Only(claims, v, kinds) <=> Only(claims', v, kinds)
                   /\ Some(claims, v, kinds) <=> Some(claims', v, kinds)
    BY <1>2, AlikeKinds
  <2>4. \/ report'[v] = report[v]
        \/ report[v] = "locked" /\ report'[v] = "paid"
    OBVIOUS
  <2>5. (\E p \in previews : p[1] = v) =>
           (\E p \in previews' : p[1] = v) \/ (report'[v] = "paid" /\ upload[v].pc = "done")
    OBVIOUS
  <2>6. (\E w \in welcome : w.upload = v) => \E w \in welcome' : w.upload = v
    OBVIOUS
  <2>7. Settled(v)'
    BY <1>1, <2>1, <2>3, <2>4, <2>5, <2>6 DEF Settled
  <2> QED BY <2>2, <2>7
<1>5. ASSUME NEW b \in Accounts PROVE OpeningSlots(b)' /\ AttachSlots(b)'
  <2>1. OpeningSlots(b) /\ AttachSlots(b)
    BY DEF SlotInv
  <2>3. OpeningSlots(b)'
    BY <1>1, <1>2, <2>1, AlikeSlots DEF OpeningSlots
  <2>4. AttachSlots(b)'
    BY <1>1, <1>2, <2>1, AlikeSlots DEF AttachSlots
  <2> QED BY <2>3, <2>4
<1>6. ASSUME NEW w \in welcome PROVE WelcomeSlots(w)'
  <2>1. WelcomeSlots(w) /\ w.account \in Accounts
    BY RowsKnown DEF SlotInv
  <2>2. opening[w.account].pc \notin {"grant", "release"} =>
           /\ opening'[w.account].pc \notin {"grant", "release"}
           /\ Alike(claims, claims', ByOpening(w.account)) \/ claims \subseteq claims'
    BY <1>1, <1>2, <2>1
  <2> QED BY <1>1, <1>2, <2>1, <2>2, AlikeSlots DEF WelcomeSlots
<1>7. ASSUME NEW p \in previews PROVE PreviewSlots(p)'
  <2>1. PreviewSlots(p)
    BY DEF SlotInv
  <2> QED BY <1>1, <1>2, <2>1, AlikeSlots DEF PreviewSlots
<1> QED BY <1>3, <1>4, <1>5, <1>6, <1>7 DEF SlotInv

\* Neither an upload nor a grant moves on.
LEMMA AsideStep ==
  ASSUME FreeInv, SlotInv, UNCHANGED <<upload, report, welcome>>,
         \A b \in Accounts : opening'[b] = opening[b] \/ opening'[b].pc = "read",
         \A x : Alike(claims, claims', ByUpload(x)) /\ Alike(claims, claims', ByOpening(x)),
         \A q \in pending' : q \in pending \/ upload[q[1]].pc = "done",
         previews \subseteq previews',
         \A p \in previews' : p \in previews \/ upload[p[1]].pc = "done",
         \A p \in previews' : PreviewSlots(p)',
         \A b \in Accounts :
            /\ AttachSlots(b)'
            /\ attach'[b].pc \notin {"none", "dead"} => upload[attach'[b].upload].pc = "done"
  PROVE  SlotInv'
<1>1. UNCHANGED upload /\ UNCHANGED report /\ UNCHANGED welcome
  OBVIOUS
<1>3. Ended'
  BY <1>1 DEF SlotInv, Ended
<1>4. ASSUME NEW v \in Uploads PROVE UploadSlots(v)' /\ Settled(v)'
  <2>1. UploadSlots(v) /\ Settled(v)
    BY DEF SlotInv
  <2>2. UploadSlots(v)'
    BY <1>1, <2>1, AlikeSlots DEF UploadSlots
  <2>3. \A kinds : /\ Only(claims, v, kinds) <=> Only(claims', v, kinds)
                   /\ Some(claims, v, kinds) <=> Some(claims', v, kinds)
    BY AlikeKinds
  <2>4. Settled(v)'
    BY <1>1, <2>1, <2>3 DEF Settled
  <2> QED BY <2>2, <2>4
<1>5. ASSUME NEW b \in Accounts PROVE OpeningSlots(b)'
  <2>1. OpeningSlots(b)
    BY DEF SlotInv
  <2> QED BY <1>1, <2>1, AlikeSlots DEF OpeningSlots
<1>6. ASSUME NEW w \in welcome PROVE WelcomeSlots(w)'
  <2>1. WelcomeSlots(w) /\ w.account \in Accounts
    BY RowsKnown DEF SlotInv
  <2> QED BY <1>1, <2>1, AlikeSlots DEF WelcomeSlots
<1> QED BY <1>1, <1>3, <1>4, <1>5, <1>6 DEF SlotInv

\* A report that was uploaded without an account is put on one.
LEMMA AttachStep ==
  ASSUME FreeInv, SlotInv, NEW a \in Accounts, NEW s, attach' = [attach EXCEPT ![a] = s],
         UNCHANGED <<upload, report, welcome, open>>,
         \A b \in Accounts : opening'[b] = opening[b] \/ opening'[b].pc = "read",
         \A by : by # ByAttach(a, attach[a].upload) => Alike(claims, claims', by),
         attach[a].pc # "release" => claims \subseteq claims', held \subseteq held',
         s.pc \in {"count", "link", "release"} =>
            \/ attach[a].pc \in {"count", "link", "release"} /\ s.upload = attach[a].upload
            \/ a \in open /\ HeldBy(s.upload) = {},
         s.pc \notin {"none", "dead"} => upload[s.upload].pc = "done",
         \A q \in pending' : q \in pending \/ upload[q[1]].pc = "done",
         previews \subseteq previews',
         \A p \in previews' : \/ p \in previews
                              \/ upload[p[1]].pc = "done" /\ PreviewSlots(p)',
         AttachSlots(a)'
  PROVE  SlotInv'
<1>1. /\ attach'[a] = s /\ \A b \in Accounts \ {a} : attach'[b] = attach[b]
      /\ UNCHANGED upload /\ UNCHANGED open
  BY DEF FreeInv, Shape, Attaching
<1>2. \A x : Alike(claims, claims', ByUpload(x)) /\ Alike(claims, claims', ByOpening(x))
  BY AttachReservations
<1>3. \A b, x : b # a \/ x # attach[a].upload => Alike(claims, claims', ByAttach(b, x))
  <2>1. \A b, x : ByAttach(b, x).of = b /\ ByAttach(b, x).report = x
    BY DEF ByAttach
  <2>2. \A b, x : ByAttach(b, x) = ByAttach(a, attach[a].upload) => b = a /\ x = attach[a].upload
    BY <2>1
  <2> QED BY <2>2
<1>4. ASSUME NEW b \in Accounts
      PROVE  /\ AttachSlots(b)'
             /\ attach'[b].pc \notin {"none", "dead"} => upload[attach'[b].upload].pc = "done"
  <2>1. CASE b = a
    BY <1>1, <2>1
  <2>2. CASE b # a
    <3>1. AttachSlots(b) /\ attach'[b] = attach[b]
      BY <1>1, <2>2 DEF SlotInv
    <3>2. AttachSlots(b)'
      BY <1>1, <1>3, <2>2, <3>1, AlikeSlots DEF AttachSlots
    <3> QED BY <3>1, <3>2, RowsKnown
  <2> QED BY <2>1, <2>2
<1>5. ASSUME NEW p \in previews PROVE PreviewSlots(p)'
  <2>1. PreviewSlots(p) /\ p[2] \in Accounts
    BY RowsKnown DEF SlotInv
  <2>2. CASE upload[p[1]].account = p[2]
             /\ HasSlots(claims, ByUpload(p[1]), PreviewGroups(p[2], upload[p[1]].net))
    BY <1>1, <1>2, <2>2, AlikeSlots DEF PreviewSlots
  <2>3. CASE /\ <<p[1], p[2]>> \in held \/ p[2] \notin open
             /\ attach[p[2]].upload = p[1] => attach[p[2]].pc \notin {"count", "link", "release"}
             /\ HasSlots(claims, ByAttach(p[2], p[1]), PreviewGroups(p[2], upload[p[1]].net))
    <3>1. Alike(claims, claims', ByAttach(p[2], p[1])) \/ claims \subseteq claims'
      BY <1>3, <2>3
    <3>2. HasSlots(claims', ByAttach(p[2], p[1]), PreviewGroups(p[2], upload[p[1]].net))
      BY <2>3, <3>1, AlikeSlots
    <3>3. attach'[p[2]].upload = p[1] => attach'[p[2]].pc \notin {"count", "link", "release"}
      <4>1. CASE p[2] # a
        BY <1>1, <2>1, <2>3, <4>1
      <4>2. CASE p[2] = a
        <5>1. HeldBy(p[1]) = {} => <<p[1], p[2]>> \notin held
          BY DEF HeldBy
        <5> QED BY <1>1, <2>3, <4>2, <5>1
      <4> QED BY <4>1, <4>2
    <3>4. <<p[1], p[2]>> \in held' \/ p[2] \notin open'
      BY <1>1, <2>3
    <3> QED BY <1>1, <3>2, <3>3, <3>4 DEF PreviewSlots
  <2> QED BY <2>1, <2>2, <2>3 DEF PreviewSlots
<1>6. /\ \A p \in previews' : PreviewSlots(p)'
      /\ \A p \in previews' : p \in previews \/ upload[p[1]].pc = "done"
  BY <1>5
<1> QED BY <1>2, <1>4, <1>6, AsideStep

\* Accounts change their address, check a card, leave, confirm.
LEMMA QuietStep ==
  ASSUME FreeInv, SlotInv, UNCHANGED <<upload, report, welcome, attach, previews>>,
         open' \subseteq open, \A h \in held : h \in held' \/ h[2] \notin open',
         \A b \in Accounts : opening'[b] = opening[b] \/ opening'[b].pc = "read",
         \A x : Alike(claims, claims', ByUpload(x)) /\ Alike(claims, claims', ByOpening(x)),
         claims \subseteq claims', pending' \subseteq pending
  PROVE  SlotInv'
<1>1. UNCHANGED upload /\ UNCHANGED attach /\ UNCHANGED previews
  OBVIOUS
<1>2. \A x, y : <<x, y>> \in held \/ y \notin open => <<x, y>> \in held' \/ y \notin open'
  <2>1. \A x, y : <<x, y>>[2] = y
    OBVIOUS
  <2> QED BY <2>1
<1>3. ASSUME NEW b \in Accounts PROVE AttachSlots(b)'
  <2>1. AttachSlots(b)
    BY DEF SlotInv
  <2> QED BY <1>1, <1>2, <2>1, AlikeSlots DEF AttachSlots
<1>4. ASSUME NEW p \in previews PROVE PreviewSlots(p)'
  <2>1. PreviewSlots(p)
    BY DEF SlotInv
  <2> QED BY <1>1, <1>2, <2>1, AlikeSlots DEF PreviewSlots
<1> QED BY <1>1, <1>3, <1>4, RowsKnown, AsideStep

------------------------------------------------------------------------------
(* Claims and what they are of.                                             *)

LEMMA AlikeSame == \A cl, by : Alike(cl, cl, by)
  BY DEF Alike

LEMMA OnlyNone ==
  ASSUME NEW cl, NEW u, Only(cl, u, {})
  PROVE  \A kinds : Only(cl, u, kinds) /\ ~Some(cl, u, kinds)
  BY DEF Only, Some

LEMMA OnlyThese ==
  ASSUME NEW cl, NEW u, NEW ks, NEW ls, Only(cl, u, ks), Some(cl, u, ls)
  PROVE  \E x \in ks : x \in ls
  BY DEF Only, Some

LEMMA OnlyMore ==
  ASSUME NEW cl, NEW u, NEW ks, NEW ls, Only(cl, u, ks), ks \subseteq ls
  PROVE  Only(cl, u, ls)
  BY DEF Only

LEMMA TakeGets ==
  ASSUME NEW by, NEW keys, NEW gs, Groups(gs), CanTake(keys, gs), Take(by, keys, gs)
  PROVE  /\ \A x : x # by => Alike(claims, claims', x)
         /\ claims \subseteq claims'
         /\ HasSlots(claims', by, gs)
<1>1. \A g \in gs : FirstFree(g) \in g
  BY FirstFreeIsFree DEF Groups, CanTake
<1> DEFINE new == keys \cup {FirstFree(g) : g \in gs}
<1>2. claims' = claims \cup {[key |-> k, by |-> by] : k \in new}
  BY DEF Take
<1>3. \A g \in gs : FirstFree(g) \in new
  OBVIOUS
<1> HIDE DEF new
<1>4. \A x : x # by => Alike(claims, claims', x)
  BY <1>2 DEF Alike
<1>5. HasSlots(claims', by, gs)
  BY <1>1, <1>2, <1>3 DEF HasSlots
<1> QED BY <1>2, <1>4, <1>5

\* An upload's first claims are of the kinds it asked for.
LEMMA TakeKinds ==
  ASSUME NEW u, NEW keys, NEW gs, Groups(gs), CanTake(keys, gs), Take(ByUpload(u), keys, gs),
         NEW kinds, Only(claims, u, kinds), \A k \in keys : k.kind \in kinds,
         \A g \in gs : \A k \in g : k.kind \in kinds
  PROVE  Only(claims', u, kinds)
<1>1. \A g \in gs : FirstFree(g) \in g
  BY FirstFreeIsFree DEF Groups, CanTake
<1> DEFINE new == keys \cup {FirstFree(g) : g \in gs}
<1>2. claims' = claims \cup {[key |-> k, by |-> ByUpload(u)] : k \in new}
  BY DEF Take
<1>3. \A k \in new : k.kind \in kinds
  BY <1>1
<1> HIDE DEF new
<1> QED BY <1>2, <1>3 DEF Only

LEMMA ReleaseGets ==
  ASSUME NEW by, Release(by)
  PROVE  /\ \A x : x # by => Alike(claims, claims', x)
         /\ \A u : by = ByUpload(u) => Only(claims', u, {})
  BY DEF Release, Alike, Only

LEMMA GroupKinds ==
  ASSUME NEW a, NEW net, NEW card
  PROVE  /\ \A g \in WelcomeGroups(net, card) : \A k \in g : k.kind = "net"
         /\ \A g \in PreviewGroups(a, net) : \A k \in g : k.kind \in PreviewKinds
         /\ \A g \in AnonGroups(net) : \A k \in g : k.kind = "anon"
  BY DEF WelcomeGroups, PreviewGroups, AnonGroups, Slots, Key, PreviewKinds

------------------------------------------------------------------------------
(* The limits: each action.                                                 *)

\* An upload that moves on and neither claims nor delivers.
LEMMA UploadSilent ==
  ASSUME FreeInv, SlotInv, NEW u \in Uploads, NEW me, upload' = [upload EXCEPT ![u] = me],
         upload[u].pc \notin {"done", "dead"}, me.pc # "new",
         upload[u].pc # "new" => me.net = upload[u].net /\ me.account = upload[u].account,
         \A v \in Uploads \ {u} : report'[v] = report[v],
         UNCHANGED <<open, held, opening, attach, claims, welcome, previews>>,
         \A q \in pending' : q \in pending \/ (q[1] = u /\ me.pc = "done"),
         upload[u].pc = "pend" => me.pc \in {"done", "dead"},
         UploadSlots(u)', Settled(u)'
  PROVE  SlotInv'
<1>1. /\ \A by : by # ByUpload(u) => Alike(claims, claims', by)
      /\ welcome \subseteq welcome' /\ \A w \in welcome' : w \in welcome \/ WelcomeSlots(w)'
      /\ previews \subseteq previews'
      /\ \A p \in previews' : \/ p \in previews
                              \/ p[1] = u /\ me.pc \in {"pend", "done"} /\ PreviewSlots(p)'
      /\ upload[u].pc = "pend" => UNCHANGED claims /\ me.pc \in {"done", "dead"}
  BY AlikeSame
<1>2. UNCHANGED <<open, held, opening, attach>>
  OBVIOUS
<1> QED BY <1>1, <1>2, UploadStep

LEMMA StartSlots ==
  ASSUME FreeInv, SlotInv, NEW u \in Uploads, NEW d \in Devices, NEW f \in Files, NEW net \in Nets,
         StartAnon(u, d, f, net) \/ \E a \in Accounts : Start(u, a, d, f, net)
  PROVE  SlotInv'
<1>1. PICK new \in UploadState :
        /\ upload' = [upload EXCEPT ![u] = new]
        /\ \/ new.pc = "slots" /\ new.plan = "anon" /\ new.account = upload[u].account
           \/ /\ new.account \in Accounts /\ new.inbox \in Inboxes
              /\ \/ new.pc = "check" /\ new.plan = "welcome"
                 \/ new.pc = "slots" /\ new.plan = "preview"
                 \/ new.pc = "run" /\ new.plan = "credit"
                 \/ new.pc = "done" /\ new.plan = ""
  BY StartMoves
<1>2. /\ upload[u].pc = "new" /\ UNCHANGED report /\ UNCHANGED claims /\ UNCHANGED pending
      /\ UNCHANGED <<open, held, opening, attach, claims, welcome, previews>>
  BY DEF Start, StartAnon, rows, people
<1>3. upload'[u] = new /\ report[u] = "none"
  BY <1>1, <1>2 DEF FreeInv, Shape, Uploading, UploadOK
<1>4. Settled(u) /\ Only(claims, u, {})
  BY <1>2 DEF SlotInv, Settled
<1>5. \A kinds : Only(claims, u, kinds) /\ ~Some(claims, u, kinds)
  BY <1>4, OnlyNone
<1>6. UploadSlots(u)'
  BY <1>1, <1>3 DEF UploadSlots
<1>7. Settled(u)'
  BY <1>1, <1>2, <1>3, <1>4, <1>5 DEF Settled
<1>8. \A q \in pending' : q \in pending \/ (q[1] = u /\ new.pc = "done")
  BY <1>2
<1> QED BY <1>1, <1>2, <1>6, <1>7, <1>8, UploadSilent

LEMMA CheckSlots ==
  ASSUME FreeInv, SlotInv, NEW u \in Uploads, Check(u)
  PROVE  SlotInv'
<1>0. Uploading /\ UploadOK(upload[u], report[u]) /\ upload[u].pc = "check" /\ upload[u].plan = "welcome"
  BY DEF FreeInv, Shape, Uploading, UploadOK, Check
<1>1. PICK new \in UploadState :
        /\ upload' = [upload EXCEPT ![u] = new] /\ Same(new, upload[u])
        /\ \/ new.pc = "claim" /\ new.plan = "welcome"
           \/ new.pc = "slots" /\ new.plan = "preview"
           \/ new.pc = "run" /\ new.plan = "credit"
           \/ new.pc = "done" /\ new.plan = ""
  <2>1. CASE Go(u, "claim")
    <3>1. PICK new \in UploadState :
            /\ upload' = [upload EXCEPT ![u] = new]
            /\ new.pc = "claim" /\ new.plan = upload[u].plan /\ Same(new, upload[u])
      BY <1>0, <2>1, GoMoves, Zenon DEF Points
    <3> QED BY <1>0, <3>1
  <2>2. CASE FallBack(u)
    BY <1>0, <2>2, FallBackMoves
  <2> QED BY <2>1, <2>2 DEF Check
<1>2. /\ UNCHANGED report /\ UNCHANGED claims /\ UNCHANGED pending
      /\ UNCHANGED <<open, held, opening, attach, claims, welcome, previews>>
  BY DEF Check, rows, people
<1>3. upload'[u] = new /\ report[u] = "none"
  BY <1>0, <1>1 DEF Uploading, UploadOK
<1>4. Settled(u) /\ Only(claims, u, {})
  BY <1>0 DEF SlotInv, Settled
<1>5. \A kinds : Only(claims, u, kinds) /\ ~Some(claims, u, kinds)
  BY <1>4, OnlyNone
<1>6. UploadSlots(u)'
  BY <1>1, <1>3 DEF UploadSlots
<1>7. Settled(u)'
  BY <1>1, <1>2, <1>3, <1>4, <1>5 DEF Settled
<1>8. \A q \in pending' : q \in pending \/ (q[1] = u /\ new.pc = "done")
  BY <1>2
<1> QED BY <1>0, <1>1, <1>2, <1>6, <1>7, <1>8, UploadSilent DEF Same

LEMMA ClaimWelcomeSlots ==
  ASSUME FreeInv, SlotInv, NEW u \in Uploads, ClaimWelcome(u)
  PROVE  SlotInv'
<1>0. /\ Uploading /\ UploadOK(upload[u], report[u])
      /\ upload[u].pc = "claim" /\ upload[u].plan = "welcome"
  BY DEF FreeInv, Shape, Uploading, UploadOK, ClaimWelcome
<1>1. /\ UNCHANGED report /\ UNCHANGED pending
      /\ UNCHANGED <<open, held, opening, attach>> /\ UNCHANGED welcome /\ UNCHANGED previews
  BY DEF ClaimWelcome, rows, people
<1>2. PICK net, card, keys, gs :
        /\ net = upload[u].net /\ card = upload[u].card
        /\ keys = OwnKeys(upload[u]) /\ gs = WelcomeGroups(net, card)
  OBVIOUS
<1>3. Settled(u) /\ Only(claims, u, {})
  BY <1>0 DEF SlotInv, Settled
<1>4. \A kinds : Only(claims, u, kinds) /\ ~Some(claims, u, kinds)
  BY <1>3, OnlyNone
<1>5. CASE CanTake(keys, gs)
  <2>1. Take(ByUpload(u), keys, gs) /\ Go(u, "run")
    BY <1>2, <1>5 DEF ClaimWelcome, OwnKeys
  <2>2. Groups(gs)
    BY <1>2, CodeGroups
  <2>3. /\ \A x : x # ByUpload(u) => Alike(claims, claims', x)
        /\ claims \subseteq claims' /\ HasSlots(claims', ByUpload(u), gs)
    BY <1>5, <2>1, <2>2, TakeGets
  <2>4. \A k \in keys : k.kind \in WelcomeKinds
    BY <1>2 DEF OwnKeys, WelcomeKeys, Key, WelcomeKinds
  <2>5. \A g \in gs : \A k \in g : k.kind \in WelcomeKinds
    BY <1>2, GroupKinds DEF WelcomeKinds
  <2>6. PICK kinds : kinds = WelcomeKinds
    OBVIOUS
  <2>7. Only(claims', u, kinds)
    BY <1>4, <1>5, <2>1, <2>2, <2>4, <2>5, <2>6, TakeKinds
  <2>8. PICK new \in UploadState :
          /\ upload' = [upload EXCEPT ![u] = new]
          /\ new.pc = "run" /\ new.plan = upload[u].plan /\ Same(new, upload[u])
    BY <1>0, <2>1, GoMoves, Zenon DEF Points
  <2>9. upload'[u] = new
    BY <1>0, <2>8 DEF Uploading
  <2>10. UploadSlots(u)'
    BY <1>0, <1>2, <2>3, <2>8, <2>9 DEF UploadSlots, Same
  <2>11. Settled(u)'
    BY <1>0, <1>3, <2>6, <2>7, <2>8, <2>9 DEF Settled
  <2> QED BY <1>0, <1>1, <2>3, <2>8, <2>10, <2>11, UploadStep DEF Same
<1>6. CASE ~CanTake(keys, gs)
  <2>1. FallBack(u) /\ UNCHANGED claims
    BY <1>2, <1>6 DEF ClaimWelcome, OwnKeys
  <2>2. PICK new \in UploadState :
           /\ upload' = [upload EXCEPT ![u] = new]
           /\ \/ new.pc = "slots" /\ new.plan = "preview"
              \/ new.pc = "run" /\ new.plan = "credit"
              \/ new.pc = "done" /\ new.plan = ""
           /\ Same(new, upload[u])
    BY <1>0, <2>1, FallBackMoves
  <2>3. upload'[u] = new /\ report[u] = "none"
    BY <1>0, <2>2 DEF Uploading, UploadOK
  <2>4. UploadSlots(u)'
    BY <2>2, <2>3 DEF UploadSlots
  <2>5. Settled(u)'
    BY <1>1, <1>3, <1>4, <2>1, <2>2, <2>3 DEF Settled
  <2>6. UNCHANGED <<open, held, opening, attach, claims, welcome, previews>>
    BY <1>1, <2>1
  <2> QED BY <1>0, <1>1, <2>2, <2>4, <2>5, <2>6, UploadSilent DEF Same
<1> QED BY <1>5, <1>6

LEMMA ClaimSlotsSlots ==
  ASSUME FreeInv, SlotInv, NEW u \in Uploads, ClaimSlots(u)
  PROVE  SlotInv'
<1>0. /\ Uploading /\ UploadOK(upload[u], report[u])
      /\ upload[u].pc = "slots" /\ upload[u].plan \in {"preview", "anon"} /\ report[u] = "none"
  BY DEF FreeInv, Shape, Uploading, UploadOK, ClaimSlots
<1>1. /\ UNCHANGED report /\ UNCHANGED pending
      /\ UNCHANGED <<open, held, opening, attach>> /\ UNCHANGED welcome /\ UNCHANGED previews
  BY DEF ClaimSlots, rows, people
<1>2. PICK a, net : a = upload[u].account /\ net = upload[u].net
  OBVIOUS
<1>3. PICK gs : gs = IF upload[u].plan = "anon" THEN AnonGroups(net) ELSE PreviewGroups(a, net)
  OBVIOUS
<1>4. Settled(u) /\ Only(claims, u, {})
  BY <1>0 DEF SlotInv, Settled
<1>5. \A kinds : Only(claims, u, kinds) /\ ~Some(claims, u, kinds)
  BY <1>4, OnlyNone
<1>6. CASE CanTake({}, gs)
  <2>1. Take(ByUpload(u), {}, gs) /\ Go(u, "run")
    BY <1>2, <1>3, <1>6 DEF ClaimSlots
  <2>2. Groups(gs)
    BY <1>3, CodeGroups
  <2>3. /\ \A x : x # ByUpload(u) => Alike(claims, claims', x)
        /\ claims \subseteq claims' /\ HasSlots(claims', ByUpload(u), gs)
    BY <1>6, <2>1, <2>2, TakeGets
  <2>4. PICK kinds : kinds = IF upload[u].plan = "anon" THEN {"anon"} ELSE PreviewKinds
    OBVIOUS
  <2>5. \A g \in gs : \A k \in g : k.kind \in kinds
    BY <1>3, <2>4, GroupKinds
  <2>6. Only(claims', u, kinds)
    BY <1>5, <1>6, <2>1, <2>2, <2>5, TakeKinds
  <2>7. PICK new \in UploadState :
          /\ upload' = [upload EXCEPT ![u] = new]
          /\ new.pc = "run" /\ new.plan = upload[u].plan /\ Same(new, upload[u])
    BY <1>0, <2>1, GoMoves, Zenon DEF Points
  <2>8. upload'[u] = new
    BY <1>0, <2>7 DEF Uploading
  <2>9. UploadSlots(u)'
    BY <1>0, <1>2, <1>3, <2>3, <2>7, <2>8 DEF UploadSlots, Same
  <2>10. Settled(u)'
    BY <1>0, <1>4, <2>4, <2>6, <2>7, <2>8 DEF Settled, Same
  <2> QED BY <1>0, <1>1, <2>3, <2>7, <2>9, <2>10, UploadStep DEF Same
<1>7. CASE ~CanTake({}, gs)
  <2>1. UNCHANGED claims /\ (Go(u, "done") \/ (GoAs(u, "run", "credit") /\ upload[u].plan = "preview"))
    BY <1>2, <1>3, <1>7 DEF ClaimSlots
  <2>2. PICK new \in UploadState :
           /\ upload' = [upload EXCEPT ![u] = new] /\ Same(new, upload[u])
           /\ \/ new.pc = "run" /\ new.plan = "credit"
              \/ new.pc = "done" /\ new.plan = upload[u].plan
    <3>1. CASE Go(u, "done")
      <4>1. PICK new \in UploadState :
              /\ upload' = [upload EXCEPT ![u] = new]
              /\ new.pc = "done" /\ new.plan = upload[u].plan /\ Same(new, upload[u])
        BY <1>0, <3>1, GoMoves, Zenon DEF Points
      <4> QED BY <4>1
    <3>2. CASE GoAs(u, "run", "credit")
      <4>1. PICK new \in UploadState :
              /\ upload' = [upload EXCEPT ![u] = new]
              /\ new.pc = "run" /\ new.plan = "credit" /\ Same(new, upload[u])
        BY <1>0, <3>2, GoAsMoves
      <4> QED BY <4>1
    <3> QED BY <2>1, <3>1, <3>2
  <2>3. upload'[u] = new
    BY <1>0, <2>2 DEF Uploading
  <2>4. UploadSlots(u)'
    BY <2>2, <2>3 DEF UploadSlots
  <2>5. Settled(u)'
    BY <1>0, <1>1, <1>4, <1>5, <2>1, <2>2, <2>3 DEF Settled, Same
  <2>6. UNCHANGED <<open, held, opening, attach, claims, welcome, previews>>
    BY <1>1, <2>1
  <2> QED BY <1>0, <1>1, <2>2, <2>4, <2>5, <2>6, UploadSilent DEF Same
<1> QED BY <1>6, <1>7

\* What Go leaves of an upload under way, with what it has.
LEMMA GoOn ==
  ASSUME FreeInv, SlotInv, NEW u \in Uploads, NEW pc \in Points, Go(u, pc), upload[u].pc # "new"
  PROVE  /\ \E new : upload' = [upload EXCEPT ![u] = new] /\ new = upload'[u] /\ new.pc = pc
                     /\ new.net = upload[u].net /\ new.account = upload[u].account
         /\ upload'[u].pc = pc /\ upload'[u].plan = upload[u].plan
         /\ upload'[u].net = upload[u].net /\ upload'[u].account = upload[u].account
         /\ upload'[u].card = upload[u].card
         /\ UploadOK(upload[u], report[u]) /\ UploadSlots(u) /\ Settled(u)
<1>1. Uploading /\ UploadOK(upload[u], report[u]) /\ UploadSlots(u) /\ Settled(u)
  BY DEF FreeInv, Shape, Uploading, SlotInv
<1>2. PICK new \in UploadState :
        /\ upload' = [upload EXCEPT ![u] = new]
        /\ new.pc = pc /\ new.plan = upload[u].plan /\ Same(new, upload[u])
  BY <1>1, GoMoves, Zenon
<1>3. upload'[u] = new
  BY <1>1, <1>2 DEF Uploading
<1> QED BY <1>1, <1>2, <1>3 DEF Same

LEMMA RunSlots ==
  ASSUME FreeInv, SlotInv, NEW u \in Uploads, Run(u)
  PROVE  SlotInv'
<1>1. /\ UNCHANGED <<open, held, opening, attach, claims, welcome, previews>> /\ pending' = pending
      /\ upload[u].pc = "run" /\ claims' = claims
      /\ report[u] \in {"none", "locked", "paid", "deleted"}
  BY DEF Run, people, FreeInv, Shape, Uploading, UploadOK
<1>2. /\ \A v \in Uploads \ {u} : report'[v] = report[v]
      /\ \/ report'[u] = "locked" /\ Go(u, "finish")
         \/ Go(u, "release")
  BY DEF Run, FreeInv, Shape, Uploading
<1>3. PICK pc \in {"finish", "release"} : Go(u, pc) /\ (pc = "finish" => report'[u] = "locked")
  BY <1>2
<1>4. pc \in Points
  BY DEF Points
<1>5. UploadSlots(u)'
  BY <1>1, <1>3, <1>4, GoOn DEF UploadSlots
<1>6. Settled(u)'
  BY <1>1, <1>3, <1>4, GoOn DEF Settled
<1> QED BY <1>1, <1>2, <1>3, <1>4, <1>5, <1>6, GoOn, UploadSilent

LEMMA RedeemSlots ==
  ASSUME FreeInv, SlotInv, NEW u \in Uploads, Redeem(u)
  PROVE  SlotInv'
<1>1. /\ UNCHANGED <<open, held, opening, attach, claims, welcome, previews>> /\ pending' = pending
      /\ upload[u].pc = "finish" /\ upload[u].plan = "credit" /\ claims' = claims
  BY DEF Redeem, people
<1>2. /\ \A v \in Uploads \ {u} : report'[v] = report[v]
      /\ \/ report'[u] = "paid" /\ Go(u, "done")
         \/ Go(u, "release")
  BY DEF Redeem, FreeInv, Shape, Uploading
<1>3. PICK pc \in {"done", "release"} : Go(u, pc) /\ (pc = "done" => report'[u] = "paid")
  BY <1>2
<1>4. pc \in Points
  BY DEF Points
<1>5. Settled(u) /\ Only(claims, u, {})
  BY <1>1 DEF SlotInv, Settled
<1>6. \A kinds : Only(claims, u, kinds) /\ ~Some(claims, u, kinds)
  BY <1>5, OnlyNone
<1>7. UploadSlots(u)'
  BY <1>1, <1>3, <1>4, GoOn DEF UploadSlots
<1>8. Settled(u)'
  BY <1>1, <1>3, <1>4, <1>6, GoOn DEF Settled
<1> QED BY <1>1, <1>2, <1>3, <1>4, <1>7, <1>8, GoOn, UploadSilent

LEMMA FinishSlots ==
  ASSUME FreeInv, SlotInv, NEW u \in Uploads, Finish(u)
  PROVE  SlotInv'
<1>1. /\ UNCHANGED <<open, held, opening, attach, claims, welcome, previews>>
      /\ upload[u].pc = "finish" /\ upload[u].plan \in {"preview", "anon"}
      /\ claims' = claims /\ report' = report
  BY DEF Finish, people
<1>2. CASE upload[u].plan = "preview"
  <2>1. Go(u, "note") /\ pending' = pending
    BY <1>2 DEF Finish
  <2>2. PICK pc \in Points : pc = "note"
    BY DEF Points
  <2>3. UploadSlots(u)'
    BY <1>1, <1>2, <2>1, <2>2, GoOn DEF UploadSlots
  <2>4. Settled(u)'
    BY <1>1, <1>2, <2>1, <2>2, GoOn DEF Settled
  <2> QED BY <1>1, <2>1, <2>2, <2>3, <2>4, GoOn, UploadSilent
<1>3. CASE upload[u].plan = "anon"
  <2>1. Go(u, "done") /\ pending' = pending \cup {<<u, Nobody>>}
    BY <1>3 DEF Finish
  <2>2. PICK pc \in Points : pc = "done"
    BY DEF Points
  <2>3. UploadSlots(u)'
    BY <1>1, <1>3, <2>1, <2>2, GoOn DEF UploadSlots
  <2>4. Settled(u) /\ Only(claims, u, {"anon"}) /\ report[u] # "none" /\ upload[u].account = Nobody
    BY <1>1, <1>3 DEF SlotInv, Settled
  <2>5. /\ ~Some(claims, u, WelcomeKinds) /\ ~Some(claims, u, PreviewKinds)
        /\ Only(claims, u, WelcomeKinds \cup PreviewKinds \cup {"anon"})
    <3>1. PICK ks : ks = {"anon"}
      OBVIOUS
    <3>2. (\A x \in ks : x \notin WelcomeKinds) /\ (\A x \in ks : x \notin PreviewKinds)
      BY <3>1 DEF WelcomeKinds, PreviewKinds
    <3> QED BY <2>4, <3>1, <3>2, OnlyThese, OnlyMore
  <2>6. Settled(u)'
    BY <1>1, <1>3, <2>1, <2>2, <2>4, <2>5, GoOn DEF Settled
  <2>7. \A q \in pending' : q \in pending \/ q[1] = u
    BY <2>1
  <2> QED BY <1>1, <2>1, <2>2, <2>3, <2>6, <2>7, GoOn, UploadSilent
<1> QED BY <1>1, <1>2, <1>3

LEMMA DropSlots ==
  ASSUME FreeInv, SlotInv, NEW u \in Uploads, Drop(u)
  PROVE  SlotInv'
<1>1. /\ UNCHANGED <<open, held, opening, attach, claims, welcome, previews>> /\ pending' = pending
      /\ upload[u].pc = "drop" /\ claims' = claims /\ Go(u, "done")
  BY DEF Drop, people
<1>2. /\ \A v \in Uploads \ {u} : report'[v] = report[v]
      /\ report'[u] = "deleted"
  BY DEF Drop, FreeInv, Shape, Uploading
<1>3. PICK pc \in Points : pc = "done"
  BY DEF Points
<1>4. Settled(u) /\ Only(claims, u, {})
  BY <1>1 DEF SlotInv, Settled
<1>5. \A kinds : Only(claims, u, kinds) /\ ~Some(claims, u, kinds)
  BY <1>4, OnlyNone
<1>6. UploadSlots(u)'
  BY <1>1, <1>3, GoOn DEF UploadSlots
<1>7. Settled(u)'
  BY <1>1, <1>2, <1>3, <1>5, GoOn DEF Settled
<1> QED BY <1>1, <1>2, <1>3, <1>6, <1>7, GoOn, UploadSilent

LEMMA PendSlots ==
  ASSUME FreeInv, SlotInv, NEW u \in Uploads, Pend(u)
  PROVE  SlotInv'
<1>1. /\ UNCHANGED <<open, held, opening, attach, claims, welcome, previews>>
      /\ upload[u].pc = "pend" /\ claims' = claims /\ Go(u, "done") /\ report' = report
      /\ \A q \in pending' : q \in pending \/ q[1] = u
  BY DEF Pend, people
<1>3. PICK pc \in Points : pc = "done"
  BY DEF Points
<1>4. Settled(u) /\ Only(claims, u, PreviewKinds)
  BY <1>1 DEF SlotInv, Settled
<1>5. /\ ~Some(claims, u, WelcomeKinds) /\ ~Some(claims, u, {"anon"})
      /\ Only(claims, u, WelcomeKinds \cup PreviewKinds \cup {"anon"})
  <2>2. (\A x \in PreviewKinds : x \notin WelcomeKinds) /\ (\A x \in PreviewKinds : x \notin {"anon"})
    BY DEF WelcomeKinds, PreviewKinds
  <2> QED BY <1>4, <2>2, OnlyThese, OnlyMore
<1>6. UploadSlots(u)'
  BY <1>1, <1>3, GoOn DEF UploadSlots
<1>7. Settled(u)'
  BY <1>1, <1>3, <1>5, GoOn DEF Settled
<1> QED BY <1>1, <1>3, <1>6, <1>7, GoOn, UploadSilent

LEMMA UploadDiesSlots ==
  ASSUME FreeInv, SlotInv, NEW u \in Uploads, UploadDies(u)
  PROVE  SlotInv'
<1>1. /\ UNCHANGED <<open, held, opening, attach, claims, welcome, previews>> /\ pending' = pending
      /\ upload[u].pc \notin {"new", "done", "dead"} /\ claims' = claims /\ Go(u, "dead")
      /\ report' = report
  BY DEF UploadDies, people, rows
<1>3. PICK pc \in Points : pc = "dead"
  BY DEF Points
<1>6. UploadSlots(u)'
  BY <1>1, <1>3, GoOn DEF UploadSlots
<1>7. Settled(u)'
  BY <1>1, <1>3, GoOn DEF Settled
<1> QED BY <1>1, <1>3, <1>6, <1>7, GoOn, UploadSilent

LEMMA NoteSlots ==
  ASSUME FreeInv, SlotInv, NEW u \in Uploads, Note(u)
  PROVE  SlotInv'
<1>1. /\ UNCHANGED <<open, held, opening, attach>> /\ claims' = claims /\ welcome' = welcome
      /\ upload[u].pc = "note" /\ report' = report /\ pending' = pending
  BY DEF Note, people
<1>2. PICK row : row = <<u, upload[u].account>>
  OBVIOUS
<1>3. previews' = previews \cup {row} /\ row[1] = u /\ row[2] = upload[u].account
  BY <1>2 DEF Note
<1>4. PICK pc \in {"pend", "done"} : Go(u, pc)
  BY DEF Note
<1>5. pc \in Points
  BY DEF Points
<1>6. Settled(u) /\ UploadSlots(u) /\ Only(claims, u, PreviewKinds)
  BY <1>1 DEF SlotInv, Settled
<1>7. /\ ~Some(claims, u, WelcomeKinds) /\ ~Some(claims, u, {"anon"})
      /\ Only(claims, u, WelcomeKinds \cup PreviewKinds \cup {"anon"})
  <2>2. (\A x \in PreviewKinds : x \notin WelcomeKinds) /\ (\A x \in PreviewKinds : x \notin {"anon"})
    BY DEF WelcomeKinds, PreviewKinds
  <2> QED BY <1>6, <2>2, OnlyThese, OnlyMore
<1>8. UploadSlots(u)'
  BY <1>1, <1>4, <1>5, GoOn DEF UploadSlots
<1>9. \E p \in previews' : p[1] = u
  BY <1>3
<1>10. Settled(u)'
  BY <1>1, <1>4, <1>5, <1>6, <1>7, <1>9, GoOn DEF Settled
<1>11. PreviewSlots(row)'
  BY <1>1, <1>3, <1>4, <1>5, <1>6, GoOn DEF PreviewSlots, UploadSlots
<1>12. PICK new : /\ upload' = [upload EXCEPT ![u] = new] /\ new.pc = pc
                  /\ new.net = upload[u].net /\ new.account = upload[u].account
  BY <1>1, <1>4, <1>5, GoOn
<1>13. /\ \A p \in previews' : \/ p \in previews
                               \/ p[1] = u /\ new.pc \in {"pend", "done"} /\ PreviewSlots(p)'
       /\ previews \subseteq previews'
  BY <1>3, <1>4, <1>11, <1>12
<1>14. \A by : by # ByUpload(u) => Alike(claims, claims', by)
  BY <1>1, AlikeSame
<1> QED BY <1>1, <1>4, <1>8, <1>10, <1>12, <1>13, <1>14, UploadStep

LEMMA GrantWelcomeSlots ==
  ASSUME FreeInv, SlotInv, NEW u \in Uploads, GrantWelcome(u)
  PROVE  SlotInv'
<1>1. /\ UNCHANGED <<open, held, opening, attach>> /\ claims' = claims /\ previews' = previews
      /\ upload[u].pc = "finish" /\ upload[u].plan = "welcome" /\ pending' = pending
  BY DEF GrantWelcome, people
<1>2. CASE ~CanGrant(upload[u].account, u)
  <2>1. welcome' = welcome /\ report' = report /\ Go(u, "release")
    BY <1>2 DEF GrantWelcome
  <2>2. PICK pc \in Points : pc = "release"
    BY DEF Points
  <2>3. UploadSlots(u)'
    BY <1>1, <2>1, <2>2, GoOn DEF UploadSlots
  <2>4. Settled(u)'
    BY <1>1, <2>1, <2>2, GoOn DEF Settled
  <2>5. UNCHANGED <<open, held, opening, attach, claims, welcome, previews>>
    BY <1>1, <2>1
  <2> QED BY <1>1, <2>1, <2>2, <2>3, <2>4, <2>5, GoOn, UploadSilent
<1>3. CASE CanGrant(upload[u].account, u)
  <2>1. PICK row : row = [account |-> upload[u].account, upload |-> u, inbox |-> upload[u].inbox,
                          card |-> upload[u].card]
    OBVIOUS
  <2>2. /\ welcome' = welcome \cup {row} /\ Go(u, "done")
        /\ row.upload = u /\ row.card = upload[u].card
    BY <1>3, <2>1 DEF GrantWelcome, Grant
  <2>3. /\ \A v \in Uploads \ {u} : report'[v] = report[v]
        /\ report'[u] = "paid"
    BY <1>3 DEF GrantWelcome, Grant, FreeInv, Shape, Uploading
  <2>4. PICK pc \in Points : pc = "done"
    BY DEF Points
  <2>5. PICK new : /\ upload' = [upload EXCEPT ![u] = new] /\ new.pc = "done"
                   /\ new.net = upload[u].net /\ new.account = upload[u].account
    BY <1>1, <2>2, <2>4, GoOn
  <2>6. UploadSlots(u)'
    BY <1>1, <2>2, <2>4, GoOn DEF UploadSlots
  <2>7. Only(claims, u, WelcomeKinds) /\ UploadSlots(u)
    BY <1>1 DEF SlotInv, Settled
  <2>8. Only(claims, u, WelcomeKinds \cup PreviewKinds \cup {"anon"})
    BY <2>7, OnlyMore
  <2>9. \E w \in welcome' : w.upload = u
    BY <2>2
  <2>10. Settled(u)'
    BY <1>1, <2>2, <2>3, <2>4, <2>8, <2>9, GoOn DEF Settled
  <2>11. WelcomeSlots(row)'
    BY <1>1, <2>2, <2>4, <2>7, GoOn DEF WelcomeSlots, UploadSlots
  <2>12. \A w \in welcome' : w \in welcome \/ WelcomeSlots(w)'
    BY <2>2, <2>11
  <2>13. \A by : by # ByUpload(u) => Alike(claims, claims', by)
    BY <1>1, AlikeSame
  <2> QED BY <1>1, <2>2, <2>3, <2>5, <2>6, <2>10, <2>12, <2>13, UploadStep
<1> QED BY <1>2, <1>3

LEMMA GiveBackSlots ==
  ASSUME FreeInv, SlotInv, NEW u \in Uploads, GiveBack(u)
  PROVE  SlotInv'
<1>1. /\ UNCHANGED <<open, held, opening, attach>> /\ previews' = previews /\ welcome' = welcome
      /\ upload[u].pc = "release" /\ pending' = pending /\ report' = report
      /\ Release(ByUpload(u))
  BY DEF GiveBack, people, rows
<1>2. PICK pc \in {"done", "reclaim"} : Go(u, pc) /\ (pc = "done" => report[u] = "none")
  BY DEF GiveBack
<1>3. pc \in Points
  BY DEF Points
<1>4. /\ \A by : by # ByUpload(u) => Alike(claims, claims', by)
      /\ Only(claims', u, {})
  BY <1>1, ReleaseGets
<1>5. \A kinds : Only(claims', u, kinds) /\ ~Some(claims', u, kinds)
  BY <1>4, OnlyNone
<1>6. UploadSlots(u)'
  BY <1>1, <1>2, <1>3, GoOn DEF UploadSlots
<1>7. Settled(u)'
  BY <1>1, <1>2, <1>3, <1>5, GoOn DEF Settled
<1> QED BY <1>1, <1>2, <1>3, <1>4, <1>6, <1>7, GoOn, UploadStep

LEMMA ReclaimSlots ==
  ASSUME FreeInv, SlotInv, NEW u \in Uploads, Reclaim(u)
  PROVE  SlotInv'
<1>1. /\ UNCHANGED <<open, held, opening, attach>> /\ previews' = previews /\ welcome' = welcome
      /\ upload[u].pc = "reclaim" /\ pending' = pending /\ report' = report
  BY DEF Reclaim, people, rows
<1>2. PICK gs : gs = PreviewGroups(upload[u].account, upload[u].net)
  OBVIOUS
<1>3. Settled(u) /\ Only(claims, u, {})
  BY <1>1 DEF SlotInv, Settled
<1>4. \A kinds : Only(claims, u, kinds)
  BY <1>3, OnlyNone
<1>5. CASE CanTake({}, gs)
  <2>1. Take(ByUpload(u), {}, gs) /\ Go(u, "note")
    BY <1>2, <1>5 DEF Reclaim
  <2>2. Groups(gs)
    BY <1>2, CodeGroups
  <2>3. /\ \A x : x # ByUpload(u) => Alike(claims, claims', x)
        /\ claims \subseteq claims' /\ HasSlots(claims', ByUpload(u), gs)
    BY <1>5, <2>1, <2>2, TakeGets
  <2>5. \A g \in gs : \A k \in g : k.kind \in PreviewKinds
    BY <1>2, GroupKinds
  <2>6. Only(claims', u, PreviewKinds)
    BY <1>4, <1>5, <2>1, <2>2, <2>5, TakeKinds
  <2>7. PICK pc \in Points : pc = "note"
    BY DEF Points
  <2>8. UploadSlots(u)'
    BY <1>1, <1>2, <2>1, <2>3, <2>7, GoOn DEF UploadSlots
  <2>9. Settled(u)'
    BY <1>1, <2>1, <2>6, <2>7, GoOn DEF Settled
  <2> QED BY <1>1, <2>1, <2>3, <2>7, <2>8, <2>9, GoOn, UploadStep
<1>6. CASE ~CanTake({}, gs)
  <2>1. claims' = claims /\ Go(u, "drop")
    BY <1>2, <1>6 DEF Reclaim
  <2>2. PICK pc \in Points : pc = "drop"
    BY DEF Points
  <2>3. UploadSlots(u)'
    BY <1>1, <2>1, <2>2, GoOn DEF UploadSlots
  <2>4. Settled(u)'
    BY <1>1, <1>3, <2>1, <2>2, GoOn DEF Settled
  <2>5. UNCHANGED <<open, held, opening, attach, claims, welcome, previews>>
    BY <1>1, <2>1
  <2> QED BY <1>1, <2>1, <2>2, <2>3, <2>4, <2>5, GoOn, UploadSilent
<1> QED BY <1>5, <1>6

\* An opening that neither claims nor grants.
LEMMA OpeningRests ==
  ASSUME FreeInv, SlotInv, NEW a \in Accounts, NEW pc \in {"clear", "dead"}, Opens(a, pc),
         UNCHANGED <<open, held, attach, upload, report, claims, welcome>>,
         pending' \subseteq pending, previews' \subseteq previews,
         \A p \in previews : p \in previews' \/ (report[p[1]] = "paid" /\ upload[p[1]].pc = "done")
  PROVE  SlotInv'
<1>1. PICK o \in OpeningState :
        /\ opening' = [opening EXCEPT ![a] = o] /\ o.pc = pc
  <2>1. Openings
    BY DEF FreeInv, Shape
  <2> QED BY <2>1, OpensMoves
<1>2. opening'[a] = o
  BY <1>1 DEF FreeInv, Shape, Openings
<1>3. OpeningSlots(a)'
  BY <1>1, <1>2 DEF OpeningSlots
<1>4. UNCHANGED <<open, held, attach, upload>> /\ \A by : Alike(claims, claims', by)
  BY AlikeSame
<1>5. report' = report /\ welcome' = welcome /\ claims' = claims
  OBVIOUS
<1>6. /\ \A v \in Uploads : \/ report'[v] = report[v]
                            \/ report[v] = "locked" /\ report'[v] = "paid"
      /\ \A p \in previews : \/ p \in previews'
                             \/ report'[p[1]] = "paid" /\ upload[p[1]].pc = "done"
  BY <1>5
<1> QED BY <1>1, <1>3, <1>4, <1>5, <1>6, OpeningStep

LEMMA ChooseSlots ==
  ASSUME FreeInv, SlotInv, NEW a \in Accounts, Choose(a)
  PROVE  SlotInv'
<1>1. /\ UNCHANGED <<open, held, attach, upload, report, claims, welcome>>
      /\ pending' = pending /\ previews' = previews /\ opening[a] \in OpeningState
  BY DEF Choose, FreeInv, Shape, Openings, rows, people
<1>2. CASE Grantable(a) = {}
  <2>1. Opens(a, "clear")
    BY <1>2 DEF Choose, Opens
  <2> QED BY <1>1, <2>1, OpeningRests
<1>3. CASE Grantable(a) # {}
  <2>1. PICK u : u = LatestOf(Grantable(a))
    OBVIOUS
  <2>2. Grantable(a) \subseteq Uploads
    BY DEF Grantable
  <2>3. u \in Grantable(a)
    BY <1>3, <2>1, <2>2, LatestIsOne
  <2>4. <<u, a>> \in pending /\ <<u, a>>[1] = u
    BY <2>3 DEF Grantable
  <2>5. upload[u].pc = "done"
    BY <2>4, RowsKnown
  <2>6. PICK o : o = [opening[a] EXCEPT !.pc = "claim", !.upload = u]
    OBVIOUS
  <2>7. o.pc = "claim" /\ o.upload = u
    BY <1>1, <2>6 DEF OpeningState
  <2>8. opening' = [opening EXCEPT ![a] = o]
    BY <1>3, <2>1, <2>6 DEF Choose
  <2>9. opening'[a] = o
    BY <2>8 DEF FreeInv, Shape, Openings
  <2>10. OpeningSlots(a)'
    BY <2>7, <2>9 DEF OpeningSlots
  <2>11. UNCHANGED <<open, held, attach, upload>> /\ \A by : Alike(claims, claims', by)
    BY <1>1, AlikeSame
  <2> QED BY <1>1, <2>5, <2>7, <2>8, <2>10, <2>11, OpeningStep
<1> QED BY <1>2, <1>3

LEMMA ClaimPendingSlots ==
  ASSUME FreeInv, SlotInv, NEW a \in Accounts, ClaimPending(a)
  PROVE  SlotInv'
<1>1. /\ UNCHANGED <<open, held, attach, upload>> /\ report' = report /\ welcome' = welcome
      /\ pending' = pending /\ previews' = previews /\ opening[a] \in OpeningState
      /\ opening[a].pc = "claim"
  BY DEF ClaimPending, FreeInv, Shape, Openings, rows, people
<1>2. PICK u, card, m, keys, gs :
        /\ u = opening[a].upload /\ card = HasCard(a) /\ m = inbox[a]
        /\ keys = WelcomeKeys(a, m, upload[u].device, upload[u].file, card)
        /\ gs = WelcomeGroups(upload[u].net, card)
  OBVIOUS
<1>3. IF CanTake(keys, gs)
        THEN /\ Take(ByOpening(a), keys, gs)
             /\ opening' = [opening EXCEPT ![a] = [@ EXCEPT !.pc = "grant", !.inbox = m, !.card = card]]
        ELSE UNCHANGED claims /\ Opens(a, "clear")
  BY <1>2 DEF ClaimPending
<1>4. CASE ~CanTake(keys, gs)
  <2>1. UNCHANGED claims /\ Opens(a, "clear")
    BY <1>3, <1>4
  <2>2. UNCHANGED <<open, held, attach, upload, report, claims, welcome>>
    BY <1>1, <2>1
  <2> QED BY <1>1, <2>1, <2>2, OpeningRests
<1>5. CASE CanTake(keys, gs)
  <2>1. Groups(gs) /\ Take(ByOpening(a), keys, gs)
    BY <1>2, <1>3, <1>5, CodeGroups
  <2>2. /\ \A x : x # ByOpening(a) => Alike(claims, claims', x)
        /\ claims \subseteq claims' /\ HasSlots(claims', ByOpening(a), gs)
    BY <1>5, <2>1, TakeGets
  <2>3. PICK o : o = [opening[a] EXCEPT !.pc = "grant", !.inbox = m, !.card = card]
    OBVIOUS
  <2>4. o.pc = "grant" /\ o.upload = u /\ o.card = card
    BY <1>1, <1>2, <2>3 DEF OpeningState
  <2>5. opening' = [opening EXCEPT ![a] = o]
    BY <1>3, <1>5, <2>3
  <2>6. opening'[a] = o
    BY <2>5 DEF FreeInv, Shape, Openings
  <2>7. OpeningSlots(a)'
    BY <1>1, <1>2, <2>2, <2>4, <2>6 DEF OpeningSlots
  <2>8. \A w \in welcome : w.account # a
    <3> SUFFICES ASSUME NEW w \in welcome, w.account = a PROVE FALSE
      OBVIOUS
    <3>1. Key("account", a, 0) \in RowKeys(w) /\ KeptBy(w)
      BY DEF RowKeys, WelcomeKeys, FreeInv, Promises, Granted
    <3>2. Taken(Key("account", a, 0))
      BY <3>1 DEF KeptBy, Holds, Taken
    <3> QED BY <1>2, <1>5, <3>2 DEF CanTake, WelcomeKeys
  <2>9. upload[o.upload].pc = "done"
    BY <1>1, <1>2, <2>4, RowsKnown
  <2> QED BY <1>1, <2>2, <2>4, <2>5, <2>7, <2>8, <2>9, OpeningStep
<1> QED BY <1>4, <1>5

LEMMA GrantPendingSlots ==
  ASSUME FreeInv, SlotInv, NEW a \in Accounts, GrantPending(a)
  PROVE  SlotInv'
<1>1. /\ UNCHANGED <<open, held, attach, upload>> /\ claims' = claims /\ upload' = upload
      /\ pending' = pending /\ previews' = previews /\ Openings
      /\ opening[a].pc = "grant"
  BY DEF GrantPending, FreeInv, Shape, people
<1>2. PICK u : u = opening[a].upload
  OBVIOUS
<1>3. upload[u].pc = "done" /\ OpeningSlots(a) /\ u \in Uploads
  BY <1>1, <1>2, RowsKnown DEF SlotInv
<1>4. \A by : Alike(claims, claims', by)
  BY <1>1, AlikeSame
<1>5. CASE ~CanGrant(a, u)
  <2>1. UNCHANGED <<welcome, report>> /\ Opens(a, "release")
    BY <1>2, <1>5 DEF GrantPending
  <2>2. PICK o \in OpeningState : opening' = [opening EXCEPT ![a] = o] /\ o.pc = "release"
    BY <1>1, <2>1, OpensMoves, Zenon
  <2>3. opening'[a] = o
    BY <1>1, <2>2 DEF Openings
  <2>4. OpeningSlots(a)'
    BY <2>2, <2>3 DEF OpeningSlots
  <2> QED BY <1>1, <1>4, <2>1, <2>2, <2>4, OpeningStep
<1>6. CASE CanGrant(a, u)
  <2>1. PICK row : row = [account |-> a, upload |-> u, inbox |-> opening[a].inbox,
                          card |-> opening[a].card]
    OBVIOUS
  <2>2. /\ welcome' = welcome \cup {row} /\ report' = [report EXCEPT ![u] = "paid"]
        /\ Opens(a, "giveBack")
        /\ report[u] = "locked" /\ \A w \in welcome : w.account # a
    BY <1>2, <1>6, <2>1 DEF GrantPending, Grant, CanGrant
  <2>3. PICK o \in OpeningState :
          /\ opening' = [opening EXCEPT ![a] = o]
          /\ o.pc = "giveBack" /\ o.upload = u
    BY <1>1, <1>2, <2>2, OpensMoves, Zenon
  <2>4. /\ opening'[a] = o
        /\ report'[u] = "paid" /\ \A v \in Uploads \ {u} : report'[v] = report[v]
    BY <1>1, <1>3, <2>2, <2>3 DEF Openings, FreeInv, Shape, Uploading
  <2>5. OpeningSlots(a)'
    BY <2>3, <2>4 DEF OpeningSlots
  <2>6. row.account = a /\ row.upload = u /\ row.card = opening[a].card
    BY <2>1
  <2>7. WelcomeSlots(row)'
    BY <1>1, <1>2, <1>3, <2>3, <2>4, <2>6 DEF WelcomeSlots, OpeningSlots
  <2>8. \A w \in welcome' : w \in welcome \/ WelcomeSlots(w)'
    BY <2>2, <2>7
  <2>9. \A v \in Uploads : \/ report'[v] = report[v]
                           \/ report[v] = "locked" /\ report'[v] = "paid"
    BY <2>2, <2>4
  <2> QED BY <1>1, <1>3, <1>4, <2>2, <2>3, <2>4, <2>5, <2>8, <2>9, OpeningStep
<1> QED BY <1>5, <1>6

LEMMA ReleasePendingSlots ==
  ASSUME FreeInv, SlotInv, NEW a \in Accounts, ReleasePending(a)
  PROVE  SlotInv'
<1>1. /\ UNCHANGED <<open, held, attach, upload>> /\ report' = report /\ welcome' = welcome
      /\ pending' = pending /\ previews' = previews /\ Openings
      /\ opening[a].pc = "release" /\ Release(ByOpening(a)) /\ Opens(a, "clear")
  BY DEF ReleasePending, FreeInv, Shape, people, rows
<1>2. \A by : by # ByOpening(a) => Alike(claims, claims', by)
  BY <1>1, ReleaseGets
<1>3. PICK o \in OpeningState : opening' = [opening EXCEPT ![a] = o] /\ o.pc = "clear"
  BY <1>1, OpensMoves, Zenon
<1>4. opening'[a] = o
  BY <1>1, <1>3 DEF Openings
<1>5. OpeningSlots(a)'
  BY <1>3, <1>4 DEF OpeningSlots
<1> QED BY <1>1, <1>2, <1>3, <1>5, OpeningStep

LEMMA DeletePreviewSlots ==
  ASSUME FreeInv, SlotInv, NEW a \in Accounts, DeletePreview(a)
  PROVE  SlotInv'
<1>1. /\ UNCHANGED <<open, held, attach, upload, report, claims, welcome>>
      /\ pending' = pending /\ opening[a].pc = "giveBack" /\ Opens(a, "clear")
      /\ previews' = {p \in previews : p[1] # opening[a].upload}
  BY DEF DeletePreview, people
<1>2. report[opening[a].upload] = "paid" /\ upload[opening[a].upload].pc = "done"
  BY <1>1 DEF SlotInv, Ended
<1>3. /\ previews' \subseteq previews
      /\ \A p \in previews : p \in previews' \/ (report[p[1]] = "paid" /\ upload[p[1]].pc = "done")
  BY <1>1, <1>2
<1> QED BY <1>1, <1>3, OpeningRests

LEMMA ClearPendingSlots ==
  ASSUME FreeInv, SlotInv, NEW a \in Accounts, ClearPending(a)
  PROVE  SlotInv'
<1>1. /\ UNCHANGED <<open, held, attach, upload>> /\ report' = report /\ welcome' = welcome
      /\ pending' \subseteq pending /\ previews' = previews /\ claims' = claims
      /\ opening' = [opening EXCEPT ![a] = Idle]
  BY DEF ClearPending, people
<1>2. PICK o : o = Idle
  OBVIOUS
<1>3. o.pc = "none"
  BY <1>2 DEF Idle
<1>4. opening' = [opening EXCEPT ![a] = o]
  BY <1>1, <1>2
<1>5. opening'[a] = o
  BY <1>4 DEF FreeInv, Shape, Openings
<1>6. OpeningSlots(a)'
  BY <1>3, <1>5 DEF OpeningSlots
<1>7. \A by : Alike(claims, claims', by)
  BY <1>1, AlikeSame
<1> QED BY <1>1, <1>3, <1>4, <1>6, <1>7, OpeningStep

LEMMA OpeningDiesSlots ==
  ASSUME FreeInv, SlotInv, NEW a \in Accounts, OpeningDies(a)
  PROVE  SlotInv'
<1>1. /\ UNCHANGED <<open, held, attach, upload, report, claims, welcome>>
      /\ pending' = pending /\ previews' = previews /\ Opens(a, "dead")
  BY DEF OpeningDies, rows, people
<1> QED BY <1>1, OpeningRests

------------------------------------------------------------------------------
\* What an account does by itself.
LEMMA QuietSlots ==
  ASSUME FreeInv, SlotInv, NEW a \in Accounts,
         \/ Confirm(a) \/ \E m \in Inboxes : ChangeEmail(a, m)
         \/ \E card \in Cards : CheckCard(a, card)
         \/ Leave(a)
  PROVE  SlotInv'
<1>1. /\ UNCHANGED <<upload, report, welcome, attach, previews>>
      /\ open' \subseteq open /\ pending' \subseteq pending
  BY DEF Confirm, ChangeEmail, CheckCard, Leave, rows, people
<1>2. \A h \in held : h \in held' \/ h[2] \notin open'
  BY DEF Confirm, ChangeEmail, CheckCard, Leave, rows, people
<1>3. \A b \in Accounts : opening'[b] = opening[b] \/ opening'[b].pc = "read"
  <2>1. CASE Confirm(a)
    <3>1. Openings /\ Opens(a, "read")
      BY <2>1 DEF FreeInv, Shape, Confirm
    <3>2. PICK o \in OpeningState : opening' = [opening EXCEPT ![a] = o] /\ o.pc = "read"
      BY <3>1, OpensMoves, Zenon
    <3> QED BY <3>1, <3>2 DEF Openings
  <2>2. CASE ~Confirm(a)
    <3>1. UNCHANGED opening
      BY <2>2 DEF ChangeEmail, CheckCard, Leave
    <3> QED BY <3>1
  <2> QED BY <2>1, <2>2
<1>4. /\ claims \subseteq claims'
      /\ \A x : Alike(claims, claims', ByUpload(x)) /\ Alike(claims, claims', ByOpening(x))
  <2>1. CASE \E card \in Cards : CheckCard(a, card)
    <3>1. PICK c : claims' = claims \cup {c} /\ c.by = ByCard(a)
      BY <2>1 DEF CheckCard
    <3>2. \A x : ByCard(a) # ByUpload(x) /\ ByCard(a) # ByOpening(x)
      BY Reservations
    <3> QED BY <3>1, <3>2 DEF Alike
  <2>2. CASE ~\E card \in Cards : CheckCard(a, card)
    <3>1. claims' = claims
      BY <2>2 DEF Confirm, ChangeEmail, Leave
    <3> QED BY <3>1, AlikeSame
  <2> QED BY <2>1, <2>2
<1> QED BY <1>1, <1>2, <1>3, <1>4, QuietStep

LEMMA StutterSlots == FreeInv /\ SlotInv /\ UNCHANGED vars => SlotInv'
<1> SUFFICES ASSUME FreeInv, SlotInv, UNCHANGED vars PROVE SlotInv'
  OBVIOUS
<1>1. /\ UNCHANGED <<upload, report, welcome, attach, previews>>
      /\ open' \subseteq open /\ pending' \subseteq pending /\ claims \subseteq claims'
      /\ \A h \in held : h \in held' \/ h[2] \notin open'
      /\ \A b \in Accounts : opening'[b] = opening[b] \/ opening'[b].pc = "read"
      /\ \A x : Alike(claims, claims', ByUpload(x)) /\ Alike(claims, claims', ByOpening(x))
  BY AlikeSame DEF vars, rows, people
<1> QED BY <1>1, QuietStep

\* An attachment that moves on and counts nothing.
LEMMA AttachRests ==
  ASSUME FreeInv, SlotInv, NEW a \in Accounts, NEW s, attach' = [attach EXCEPT ![a] = s],
         UNCHANGED <<upload, report, welcome, open>>, claims' = claims, previews' = previews,
         pending' = pending, opening' = opening, held \subseteq held',
         s.pc \in {"count", "link", "release"} =>
            \/ attach[a].pc \in {"count", "link", "release"} /\ s.upload = attach[a].upload
            \/ a \in open /\ HeldBy(s.upload) = {},
         s.pc \notin {"none", "dead"} => upload[s.upload].pc = "done",
         AttachSlots(a)'
  PROVE  SlotInv'
<1>1. /\ \A b \in Accounts : opening'[b] = opening[b] \/ opening'[b].pc = "read"
      /\ \A by : by # ByAttach(a, attach[a].upload) => Alike(claims, claims', by)
      /\ attach[a].pc # "release" => claims \subseteq claims'
      /\ \A q \in pending' : q \in pending \/ upload[q[1]].pc = "done"
      /\ previews \subseteq previews'
      /\ \A p \in previews' : \/ p \in previews
                              \/ upload[p[1]].pc = "done" /\ PreviewSlots(p)'
  BY AlikeSame
<1>2. UNCHANGED <<upload, report, welcome, open>>
  OBVIOUS
<1> QED BY <1>1, <1>2, AttachStep

LEMMA AttachesOn ==
  ASSUME Attaching, NEW a \in Accounts, NEW pc, Attaches(a, pc)
  PROVE  \E s : /\ attach' = [attach EXCEPT ![a] = s] /\ s = attach'[a]
                /\ s.pc = pc /\ s.upload = attach[a].upload /\ s.counted = attach[a].counted
<1> DEFINE s == [attach[a] EXCEPT !.pc = pc]
<1>1. attach[a] \in AttachState /\ attach' = [attach EXCEPT ![a] = s]
  BY DEF Attaching, Attaches
<1>2. s.pc = pc /\ s.upload = attach[a].upload /\ s.counted = attach[a].counted
  BY <1>1 DEF AttachState
<1>3. attach'[a] = s
  BY <1>1 DEF Attaching
<1> HIDE DEF s
<1> QED BY <1>1, <1>2, <1>3

LEMMA AttachSlotsKept ==
  ASSUME FreeInv, SlotInv, NEW a \in Accounts, NEW u \in Uploads, Attach(a, u)
  PROVE  SlotInv'
<1>1. /\ UNCHANGED <<upload, report, welcome, open>> /\ claims' = claims /\ previews' = previews
      /\ pending' = pending /\ opening' = opening /\ held' = held
      /\ a \in open /\ HeldBy(u) = {} /\ <<u, Nobody>> \in pending /\ <<u, Nobody>>[1] = u
  BY DEF Attach, rows, people
<1>2. PICK s : s = [pc |-> IF PendingRefused(a, u) THEN "count" ELSE "link",
                    upload |-> u, refused |-> PendingRefused(a, u), counted |-> FALSE]
  OBVIOUS
<1>3. attach' = [attach EXCEPT ![a] = s] /\ s.upload = u /\ s.counted = FALSE
      /\ s.pc \in {"count", "link"}
  BY <1>2 DEF Attach
<1>4. attach'[a] = s
  BY <1>3 DEF FreeInv, Shape, Attaching
<1>5. AttachSlots(a)'
  BY <1>3, <1>4 DEF AttachSlots
<1>6. upload[u].pc = "done"
  BY <1>1, RowsKnown
<1> QED BY <1>1, <1>3, <1>5, <1>6, AttachRests

LEMMA CountAttachedSlots ==
  ASSUME FreeInv, SlotInv, NEW a \in Accounts, CountAttached(a)
  PROVE  SlotInv'
<1>1. /\ UNCHANGED <<upload, report, welcome, open>> /\ previews' = previews /\ upload' = upload
      /\ pending' = pending /\ opening' = opening /\ held' = held
      /\ attach[a].pc = "count" /\ attach[a] \in AttachState
  BY DEF CountAttached, rows, people, FreeInv, Shape, Attaching
<1>2. PICK u, gs : u = attach[a].upload /\ gs = PreviewGroups(a, upload[u].net)
  OBVIOUS
<1>3. PICK can : can = CanTake({}, gs)
  OBVIOUS
<1>4. PICK s : s = [attach[a] EXCEPT !.pc = "link", !.counted = can]
  OBVIOUS
<1>5. s.pc = "link" /\ s.upload = u /\ s.counted = can
  BY <1>1, <1>2, <1>4 DEF AttachState
<1>6. attach' = [attach EXCEPT ![a] = s]
  BY <1>2, <1>3, <1>4 DEF CountAttached
<1>7. attach'[a] = s
  BY <1>6 DEF FreeInv, Shape, Attaching
<1>8. upload[u].pc = "done"
  BY <1>1, <1>2, RowsKnown
<1>9. CASE can
  <2>1. Take(ByAttach(a, u), {}, gs) /\ Groups(gs)
    BY <1>2, <1>3, <1>9, CodeGroups DEF CountAttached
  <2>2. /\ \A x : x # ByAttach(a, u) => Alike(claims, claims', x)
        /\ claims \subseteq claims' /\ HasSlots(claims', ByAttach(a, u), gs)
    BY <1>3, <1>9, <2>1, TakeGets
  <2>3. AttachSlots(a)'
    BY <1>1, <1>2, <1>5, <1>7, <2>2 DEF AttachSlots
  <2> QED BY <1>1, <1>2, <1>5, <1>6, <1>8, <2>2, <2>3, AttachStep
<1>10. CASE ~can
  <2>1. claims' = claims
    BY <1>2, <1>3, <1>10 DEF CountAttached
  <2>2. AttachSlots(a)'
    BY <1>5, <1>7, <1>10 DEF AttachSlots
  <2> QED BY <1>1, <1>2, <1>5, <1>6, <1>8, <2>1, <2>2, AttachRests
<1> QED BY <1>3, <1>9, <1>10

LEMMA LinkAttachedSlots ==
  ASSUME FreeInv, SlotInv, NEW a \in Accounts, LinkAttached(a)
  PROVE  SlotInv'
<1>1. /\ UNCHANGED <<upload, report, welcome, open>> /\ claims' = claims /\ previews' = previews
      /\ pending' = pending /\ opening' = opening /\ upload' = upload /\ open' = open
      /\ attach[a].pc = "link" /\ Attaching /\ AttachSlots(a)
  BY DEF LinkAttached, people, FreeInv, Shape, SlotInv
<1>2. PICK u : u = attach[a].upload
  OBVIOUS
<1>3. \/ /\ held' = held \cup {<<u, a>>}
         /\ Attaches(a, IF attach[a].counted THEN "note" ELSE "take")
      \/ /\ held' = held
         /\ Attaches(a, IF attach[a].counted THEN "release" ELSE "none")
  BY <1>2 DEF LinkAttached
<1>4. PICK pc : /\ Attaches(a, pc) /\ pc \in {"note", "take", "release", "none"}
                /\ pc = "note" => <<u, a>> \in held' /\ attach[a].counted
  BY <1>3
<1>5. PICK s : /\ attach' = [attach EXCEPT ![a] = s] /\ s = attach'[a]
               /\ s.pc = pc /\ s.upload = attach[a].upload /\ s.counted = attach[a].counted
  BY <1>1, <1>4, AttachesOn
<1>6. AttachSlots(a)'
  BY <1>1, <1>2, <1>4, <1>5 DEF AttachSlots
<1>7. upload[u].pc = "done" /\ held \subseteq held'
  BY <1>1, <1>2, <1>3, RowsKnown
<1> QED BY <1>1, <1>2, <1>4, <1>5, <1>6, <1>7, AttachRests

LEMMA ReleaseAttachedSlots ==
  ASSUME FreeInv, SlotInv, NEW a \in Accounts, ReleaseAttached(a)
  PROVE  SlotInv'
<1>1. /\ UNCHANGED <<upload, report, welcome, open>> /\ previews' = previews
      /\ pending' = pending /\ opening' = opening /\ held' = held
      /\ attach[a].pc = "release" /\ Attaching
      /\ Release(ByAttach(a, attach[a].upload)) /\ Attaches(a, "none")
  BY DEF ReleaseAttached, people, rows, FreeInv, Shape
<1>2. PICK s : attach' = [attach EXCEPT ![a] = s] /\ s = attach'[a] /\ s.pc = "none"
  BY <1>1, AttachesOn
<1>3. AttachSlots(a)'
  BY <1>2 DEF AttachSlots
<1>4. \A by : by # ByAttach(a, attach[a].upload) => Alike(claims, claims', by)
  BY <1>1, ReleaseGets
<1> QED BY <1>1, <1>2, <1>3, <1>4, AttachStep

LEMMA NoteAttachedSlots ==
  ASSUME FreeInv, SlotInv, NEW a \in Accounts, NoteAttached(a)
  PROVE  SlotInv'
<1>1. /\ UNCHANGED <<upload, report, welcome, open>> /\ claims' = claims /\ held' = held
      /\ pending' = pending /\ opening' = opening /\ upload' = upload /\ open' = open
      /\ attach[a].pc = "note" /\ Attaching /\ AttachSlots(a) /\ Attaches(a, "take")
  BY DEF NoteAttached, people, FreeInv, Shape, SlotInv
<1>2. PICK u, row : u = attach[a].upload /\ row = <<u, a>>
  OBVIOUS
<1>3. previews' = previews \cup {row} /\ row[1] = u /\ row[2] = a /\ <<u, a>> = <<row[1], row[2]>>
  BY <1>2 DEF NoteAttached
<1>4. PICK s : /\ attach' = [attach EXCEPT ![a] = s] /\ s = attach'[a]
               /\ s.pc = "take" /\ s.upload = attach[a].upload
  BY <1>1, AttachesOn
<1>5. upload[u].pc = "done"
  BY <1>1, <1>2, RowsKnown
<1>6. PreviewSlots(row)'
  BY <1>1, <1>2, <1>3, <1>4 DEF AttachSlots, PreviewSlots
<1>7. AttachSlots(a)'
  BY <1>4 DEF AttachSlots
<1>8. /\ previews \subseteq previews'
      /\ \A p \in previews' : \/ p \in previews
                              \/ upload[p[1]].pc = "done" /\ PreviewSlots(p)'
      /\ \A by : by # ByAttach(a, attach[a].upload) => Alike(claims, claims', by)
      /\ \A b \in Accounts : opening'[b] = opening[b] \/ opening'[b].pc = "read"
  BY <1>1, <1>3, <1>5, <1>6, AlikeSame
<1> QED BY <1>1, <1>2, <1>4, <1>5, <1>7, <1>8, AttachStep

LEMMA TakeAttachedSlots ==
  ASSUME FreeInv, SlotInv, NEW a \in Accounts, TakeAttached(a)
  PROVE  SlotInv'
<1>1. /\ UNCHANGED <<upload, report, welcome, open>> /\ claims' = claims /\ held' = held
      /\ previews' = previews
      /\ attach[a].pc = "take" /\ Openings /\ attach' = [attach EXCEPT ![a] = NoAttach]
      /\ Opens(a, "read") \/ opening' = opening
  BY DEF TakeAttached, people, FreeInv, Shape
<1>2. PICK u : u = attach[a].upload
  OBVIOUS
<1>3. PICK s : s = NoAttach
  OBVIOUS
<1>4. s.pc = "none" /\ attach' = [attach EXCEPT ![a] = s]
  BY <1>1, <1>3 DEF NoAttach
<1>5. attach'[a] = s
  BY <1>4 DEF FreeInv, Shape, Attaching
<1>6. AttachSlots(a)'
  BY <1>4, <1>5 DEF AttachSlots
<1>7. upload[u].pc = "done" /\ <<u, a>>[1] = u
  BY <1>1, <1>2, RowsKnown
<1>8. \A q \in pending' : q \in pending \/ upload[q[1]].pc = "done"
  <2>1. pending' = IF <<u, Nobody>> \in pending
                     THEN (pending \ {<<u, Nobody>>}) \cup {<<u, a>>} ELSE pending
    BY <1>2 DEF TakeAttached
  <2>2. \A q \in pending' : q \in pending \/ q = <<u, a>>
    BY <2>1
  <2> QED BY <1>7, <2>2
<1>9. \A b \in Accounts : opening'[b] = opening[b] \/ opening'[b].pc = "read"
  <2>1. CASE Opens(a, "read")
    <3>1. PICK o \in OpeningState : opening' = [opening EXCEPT ![a] = o] /\ o.pc = "read"
      BY <1>1, <2>1, OpensMoves, Zenon
    <3> QED BY <1>1, <3>1 DEF Openings
  <2>2. CASE opening' = opening
    BY <2>2
  <2> QED BY <1>1, <2>1, <2>2
<1>10. /\ \A by : by # ByAttach(a, attach[a].upload) => Alike(claims, claims', by)
       /\ previews \subseteq previews'
       /\ \A p \in previews' : \/ p \in previews
                               \/ upload[p[1]].pc = "done" /\ PreviewSlots(p)'
  BY <1>1, AlikeSame
<1> QED BY <1>1, <1>4, <1>6, <1>8, <1>9, <1>10, AttachStep

LEMMA AttachDiesSlots ==
  ASSUME FreeInv, SlotInv, NEW a \in Accounts, AttachDies(a)
  PROVE  SlotInv'
<1>1. /\ UNCHANGED <<upload, report, welcome, open>> /\ claims' = claims /\ previews' = previews
      /\ pending' = pending /\ opening' = opening /\ held' = held
      /\ Attaching /\ Attaches(a, "dead")
  BY DEF AttachDies, rows, people, FreeInv, Shape
<1>2. PICK s : attach' = [attach EXCEPT ![a] = s] /\ s = attach'[a] /\ s.pc = "dead"
  BY <1>1, AttachesOn
<1>3. AttachSlots(a)'
  BY <1>2 DEF AttachSlots
<1> QED BY <1>1, <1>2, <1>3, AttachRests

------------------------------------------------------------------------------
LEMMA SlotInit == Init => SlotInv
<1> SUFFICES ASSUME Init PROVE SlotInv
  OBVIOUS
<1>1. PICK me : me = [pc |-> "new", plan |-> "", account |-> Nobody, device |-> Nobody, file |-> Nobody,
                      net |-> Nobody, inbox |-> Nobody, card |-> FALSE, unverified |-> FALSE]
  OBVIOUS
<1>2. upload = [u \in Uploads |-> me] /\ me.pc = "new" /\ me.account = Nobody
  BY <1>1 DEF Init
<1>3. PICK o : o = Idle
  OBVIOUS
<1>4. opening = [a \in Accounts |-> o] /\ o.pc = "none"
  BY <1>3 DEF Init, Idle
<1>5. PICK s : s = NoAttach
  OBVIOUS
<1>6. attach = [a \in Accounts |-> s] /\ s.pc = "none"
  BY <1>5 DEF Init, NoAttach
<1>7. claims = {} /\ welcome = {} /\ previews = {} /\ pending = {}
  BY DEF Init
<1>8. Ended
  BY <1>4, <1>6, <1>7 DEF Ended
<1>9. \A u \in Uploads : UploadSlots(u) /\ Settled(u)
  BY <1>2, <1>7 DEF UploadSlots, Settled, Only
<1>10. \A a \in Accounts : OpeningSlots(a) /\ AttachSlots(a)
  BY <1>4, <1>6 DEF OpeningSlots, AttachSlots
<1> QED BY <1>7, <1>8, <1>9, <1>10 DEF SlotInv

LEMMA SlotStep == FreeInv /\ SlotInv /\ [Next]_vars => SlotInv'
<1> SUFFICES ASSUME FreeInv, SlotInv, [Next]_vars PROVE SlotInv'
  OBVIOUS
<1>1. ASSUME NEW u \in Uploads, NEW d \in Devices, NEW f \in Files, NEW net \in Nets,
             StartAnon(u, d, f, net) \/ \E a \in Accounts : Start(u, a, d, f, net)
      PROVE  SlotInv'
  BY <1>1, StartSlots
<1>2. ASSUME NEW u \in Uploads,
             \/ Check(u) \/ ClaimWelcome(u) \/ ClaimSlots(u) \/ Run(u)
             \/ GrantWelcome(u) \/ Redeem(u) \/ Finish(u)
      PROVE  SlotInv'
  BY <1>2, CheckSlots, ClaimWelcomeSlots, ClaimSlotsSlots, RunSlots, GrantWelcomeSlots,
     RedeemSlots, FinishSlots
<1>3. ASSUME NEW u \in Uploads,
             GiveBack(u) \/ Reclaim(u) \/ Drop(u) \/ Note(u) \/ Pend(u) \/ UploadDies(u)
      PROVE  SlotInv'
  BY <1>3, GiveBackSlots, ReclaimSlots, DropSlots, NoteSlots, PendSlots, UploadDiesSlots
<1>4. ASSUME NEW a \in Accounts,
             \/ Choose(a) \/ ClaimPending(a) \/ GrantPending(a) \/ ReleasePending(a)
             \/ DeletePreview(a) \/ ClearPending(a) \/ OpeningDies(a)
      PROVE  SlotInv'
  BY <1>4, ChooseSlots, ClaimPendingSlots, GrantPendingSlots, ReleasePendingSlots,
     DeletePreviewSlots, ClearPendingSlots, OpeningDiesSlots
<1>5. ASSUME NEW a \in Accounts,
             \/ \E u \in Uploads : Attach(a, u)
             \/ CountAttached(a) \/ LinkAttached(a) \/ ReleaseAttached(a)
             \/ NoteAttached(a) \/ TakeAttached(a) \/ AttachDies(a)
      PROVE  SlotInv'
  BY <1>5, AttachSlotsKept, CountAttachedSlots, LinkAttachedSlots, ReleaseAttachedSlots,
     NoteAttachedSlots, TakeAttachedSlots, AttachDiesSlots
<1>6. ASSUME NEW a \in Accounts,
             \/ Confirm(a) \/ \E m \in Inboxes : ChangeEmail(a, m)
             \/ \E card \in Cards : CheckCard(a, card)
             \/ Leave(a)
      PROVE  SlotInv'
  BY <1>6, QuietSlots
<1>7. CASE UNCHANGED vars
  BY <1>7, StutterSlots
<1> QED BY <1>1, <1>2, <1>3, <1>4, <1>5, <1>6, <1>7 DEF Next

LEMMA SlotInvHolds == Spec => [](FreeInv /\ SlotInv)
<1>1. Init => FreeInv /\ SlotInv
  BY FreeInit, SlotInit
<1>2. (FreeInv /\ SlotInv) /\ [Next]_vars => (FreeInv /\ SlotInv)'
  BY FreeStep, SlotStep
<1> QED BY <1>1, <1>2, PTL DEF Spec

\* What each has a slot of a limit for, under a reservation of its own, is within the limit.
LEMMA WithinTheLimit ==
  ASSUME Unique, NEW kind, NEW of, NEW cap \in Nat, NEW S, NEW by,
         \A x \in S : \E k \in Slots(kind, of, cap) : [key |-> k, by |-> by[x]] \in claims,
         \A x, y \in S : by[x] = by[y] => x = y
  PROVE  Cardinality(S) <= cap
<1> DEFINE slot(x) == CHOOSE n \in 1..cap : [key |-> Key(kind, of, n), by |-> by[x]] \in claims
           f == [x \in S |-> slot(x)]
<1>1. ASSUME NEW x \in S
      PROVE  slot(x) \in 1..cap /\ [key |-> Key(kind, of, slot(x)), by |-> by[x]] \in claims
  <2>1. \E n \in 1..cap : [key |-> Key(kind, of, n), by |-> by[x]] \in claims
    BY DEF Slots
  <2> QED BY <2>1
<1> HIDE DEF slot
<1>2. f \in [S -> 1..cap] /\ \A x \in S : f[x] = slot(x)
  BY <1>1
<1> HIDE DEF f
<1>3. ASSUME NEW x \in S, NEW y \in S, f[x] = f[y] PROVE x = y
  <2>1. PICK c, d : /\ c = [key |-> Key(kind, of, f[x]), by |-> by[x]]
                    /\ d = [key |-> Key(kind, of, f[y]), by |-> by[y]]
    OBVIOUS
  <2>2. c \in claims /\ d \in claims /\ c.key = d.key /\ c.by = by[x] /\ d.by = by[y]
    BY <1>1, <1>2, <1>3, <2>1
  <2>3. by[x] = by[y]
    BY <2>2 DEF Unique
  <2> QED BY <2>3
<1>4. f \in Injection(S, 1..cap)
  BY <1>2, <1>3 DEF Injection, IsInjective
<1>5. IsFiniteSet(1..cap) /\ Cardinality(1..cap) = cap
  BY FS_Interval
<1>6. Cardinality(S) <= Cardinality(1..cap)
  BY <1>4, <1>5, FS_Injection
<1> QED BY <1>5, <1>6

LEMMA CapsFollow == FreeInv /\ SlotInv => FreeCaps
<1> SUFFICES ASSUME FreeInv, SlotInv PROVE FreeCaps
  OBVIOUS
<1>1. Unique /\ TypeOK /\ {WelcomeCap, Previews, NetPreviews} \subseteq Nat
  BY TypeFollows, FreeConstants DEF FreeInv, Shape, ClaimsOK
<1>2. ASSUME NEW net \in Nets
      PROVE  Cardinality({w \in welcome : ~w.card /\ upload[w.upload].net = net}) <= WelcomeCap
  <2> DEFINE S == {w \in welcome : ~w.card /\ upload[w.upload].net = net}
             gs == {Slots("net", net, WelcomeCap)}
             by == [w \in S |-> IF HasSlots(claims, ByUpload(w.upload), gs)
                                  THEN ByUpload(w.upload) ELSE ByOpening(w.account)]
  <2>1. ASSUME NEW w \in S
        PROVE  \E k \in Slots("net", net, WelcomeCap) : [key |-> k, by |-> by[w]] \in claims
    <3>1. WelcomeSlots(w) /\ WelcomeGroups(upload[w.upload].net, w.card) = gs
      BY DEF SlotInv, WelcomeGroups
    <3>2. HasSlots(claims, by[w], gs)
      BY <3>1 DEF WelcomeSlots
    <3> QED BY <3>2 DEF HasSlots
  <2>2. ASSUME NEW v \in S, NEW w \in S, by[v] = by[w] PROVE v = w
    <3>1. v.upload = w.upload \/ v.account = w.account
      BY <2>2, Reservations
    <3> QED BY <3>1 DEF FreeInv, Promises, Granted
  <2> HIDE DEF S, by
  <2>3. Cardinality(S) <= WelcomeCap
    BY <1>1, <2>1, <2>2, WithinTheLimit
  <2> QED BY <2>3 DEF S
<1>3. ASSUME NEW S, S \subseteq previews, NEW kind, NEW of, NEW cap \in Nat,
             \A p \in S : Slots(kind, of, cap) \in PreviewGroups(p[2], upload[p[1]].net)
      PROVE  Cardinality(S) <= cap
  <2> DEFINE up(p) == /\ upload[p[1]].account = p[2]
                      /\ HasSlots(claims, ByUpload(p[1]), PreviewGroups(p[2], upload[p[1]].net))
             by == [p \in S |-> IF up(p) THEN ByUpload(p[1]) ELSE ByAttach(p[2], p[1])]
  <2>1. ASSUME NEW p \in S
        PROVE  \E k \in Slots(kind, of, cap) : [key |-> k, by |-> by[p]] \in claims
    <3>1. PreviewSlots(p)
      BY <1>3 DEF SlotInv
    <3>2. HasSlots(claims, by[p], PreviewGroups(p[2], upload[p[1]].net))
      BY <3>1 DEF PreviewSlots
    <3> HIDE DEF by
    <3> QED BY <1>3, <3>2 DEF HasSlots
  <2>2. ASSUME NEW p \in S, NEW q \in S, by[p] = by[q] PROVE p = q
    <3>1. p = <<p[1], p[2]>> /\ q = <<q[1], q[2]>>
      BY <1>3, RowsKnown
    <3>2. CASE up(p) /\ up(q)
      <4>1. p[1] = q[1]
        BY <2>2, <3>2, Reservations
      <4> QED BY <3>1, <3>2, <4>1
    <3>3. CASE ~up(p) /\ ~up(q)
      <4>1. ByAttach(p[2], p[1]) = ByAttach(q[2], q[1])
        BY <2>2, <3>3
      <4>2. p[2] = q[2] /\ p[1] = q[1]
        BY <4>1 DEF ByAttach
      <4> QED BY <3>1, <4>2
    <3>4. CASE up(p) /\ ~up(q)
      BY <2>2, <3>4, AttachReservations
    <3>5. CASE ~up(p) /\ up(q)
      BY <2>2, <3>5, AttachReservations
    <3> QED BY <3>2, <3>3, <3>4, <3>5
  <2>3. PICK b : b = by
    OBVIOUS
  <2> HIDE DEF by, up
  <2>4. Unique /\ cap \in Nat
    BY <1>1
  <2>5. /\ \A p \in S : \E k \in Slots(kind, of, cap) : [key |-> k, by |-> b[p]] \in claims
        /\ \A p, q \in S : b[p] = b[q] => p = q
    BY <2>1, <2>2, <2>3
  <2> QED BY <2>4, <2>5, WithinTheLimit
<1>4. ASSUME NEW net \in Nets PROVE Cardinality(PreviewsOf(net)) <= NetPreviews
  BY <1>1, <1>3 DEF PreviewsOf, PreviewGroups
<1>5. ASSUME NEW a \in Accounts PROVE Cardinality({p \in previews : p[2] = a}) <= Previews
  BY <1>1, <1>3 DEF PreviewGroups
<1> QED BY <1>1, <1>2, <1>4, <1>5 DEF FreeCaps

LEMMA LeaksFollow == SlotInv => NothingLeaks
<1> SUFFICES ASSUME SlotInv PROVE NothingLeaks
  OBVIOUS
<1>1. ASSUME NEW u \in Uploads, upload[u].pc = "done", NEW c \in claims, c.by = ByUpload(u)
      PROVE  /\ c.key.kind \in WelcomeKinds \cup PreviewKinds \cup {"anon"}
             /\ c.key.kind \in WelcomeKinds => \E w \in welcome : w.upload = u
             /\ c.key.kind \in PreviewKinds => report[u] = "paid" \/ \E p \in previews : p[1] = u
             /\ c.key.kind = "anon" => report[u] # "none"
  <2>1. Settled(u) /\ Only(claims, u, WelcomeKinds \cup PreviewKinds \cup {"anon"})
    BY <1>1 DEF SlotInv, Settled
  <2>2. \A kinds : c.key.kind \in kinds => Some(claims, u, kinds)
    BY <1>1 DEF Some
  <2> QED BY <1>1, <2>1, <2>2 DEF Settled, Only
<1>2. ASSUME NEW u \in Uploads, upload[u].pc = "done", upload[u].account # Nobody, report[u] = "locked"
      PROVE  \E p \in previews : p[1] = u
  BY <1>2 DEF SlotInv, Settled
<1> QED BY <1>1, <1>2 DEF NothingLeaks, WelcomeKinds, PreviewKinds

------------------------------------------------------------------------------
(* The results.                                                             *)

\* The tables and the requests of the free tier keep their shape in every behaviour, and a
\* key of free_claims never has two holders: the INSERTs of claim_free and of
\* record_card_check are guarded by it, and the releases only remove.
THEOREM FreeTypes == Spec => []TypeOK
  BY FreeInvHolds, TypeFollows, PTL

\* One free full report per account, inbox and file, and per browser without a card, for
\* any number of accounts and uploads, whatever runs at once and whichever process dies.
THEOREM OneFreeReportHolds == Spec => []OneFreeReport
  BY FreeInvHolds, OneFollows, PTL

\* The month's limits hold, for any limits and any number of accounts, networks and uploads:
\* every free full report without a card and every counted preview has a numbered slot of each
\* of its limits, under a reservation of its own, and a slot has one holder.
THEOREM FreeCapsHold == Spec => []FreeCaps
  BY SlotInvHolds, CapsFollow, PTL

\* An upload that has ended keeps only the claims of what it delivered, and a preview that was
\* left to an account is counted to it, whichever uploads fail or fall back.
THEOREM NothingLeaksHolds == Spec => []NothingLeaks
  BY SlotInvHolds, LeaksFollow, PTL
=============================================================================
