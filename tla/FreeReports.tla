----------------------------- MODULE FreeReports -----------------------------
(***************************************************************************)
(* The free tier (audit/web.py, audit/store.py): a new account's first     *)
(* upload is a free full report, once per account, inbox, browser and file *)
(* and a few times a month per network; other uploads are the month's      *)
(* locked previews, or spend a credit.  An upload first reads what is left *)
(* (_first_look), then takes claims, rows with a unique key under its own  *)
(* reservation, then runs, and gives the claims back if it failed.  A      *)
(* preview uploaded before the e-mail was confirmed, or without an account,*)
(* may become the free full report later (_grant_pending_welcome).         *)
(*                                                                         *)
(* One calendar month and one day.  Every action is one transaction, or    *)
(* reads that only decide where the handler goes next.                     *)
(***************************************************************************)
EXTENDS Integers, FiniteSets

CONSTANTS
    Accounts,     \* accounts.id
    Inboxes,      \* inbox.welcome_key: dots and +tags of one mailbox are one inbox
    Devices,      \* the rigor_device cookies
    Files,        \* content fingerprints
    Nets,         \* network_address: an IPv6 /64 or an IPv4 address
    Cards,        \* cards verified at no charge
    LastUpload,   \* bound: the uploads, numbered in the order they arrive
    WelcomeCap,   \* _welcome_cap: 3 per IPv6 /64
    Previews,     \* FREE_PREVIEWS_PER_MONTH: 3
    NetPreviews,  \* FREE_PREVIEWS_PER_IP_PER_MONTH: 10
    AnonCap,      \* ANON_PREVIEWS_PER_NETWORK_PER_DAY: 2
    Credits,      \* credits each account starts with
    MaxDeaths,    \* bound: requests that die half way
    Nobody        \* account_id ""

ASSUME FreeConstants ==
    /\ {LastUpload, WelcomeCap, Previews, NetPreviews, AnonCap, MaxDeaths} \subseteq Nat
    /\ Credits \in [Accounts -> Nat]
    /\ Nobody \notin Accounts \cup Inboxes \cup Cards \cup Devices \cup Files \cup Nets

VARIABLES
    open,       \* accounts
    inbox,      \* accounts.email, as its inbox
    verified,   \* verified_emails
    checked,    \* card_checks: the card of an account
    credits,    \* account_codes: credits left
    claims,     \* free_claims: [key, by]
    report,     \* audits: none, locked, paid or deleted
    welcome,    \* welcome_reports, with the inbox and whether a card stood in
    previews,   \* free_previews: <<upload, account>>
    pending,    \* welcome_pending: <<upload, account>>
    held,       \* account_audits of the previews uploaded without an account
    upload,     \* create_audit, per upload
    opening,    \* _grant_pending_welcome, per account
    attach,     \* _anon_to_account, per account
    lost        \* reservations of the requests that died

people == <<open, inbox, verified, checked>>
rows == <<report, welcome, previews, pending, held>>
vars == <<people, credits, claims, rows, upload, opening, attach, lost>>

Uploads == 1..LastUpload
Owners == Accounts \cup {Nobody}

UploadState == [pc : {"new", "check", "claim", "slots", "run", "finish", "release", "reclaim",
                 "drop", "note", "pend", "done", "dead"},
           plan : {"", "welcome", "preview", "credit", "anon"}, account : Owners,
           device : Devices \cup {Nobody}, file : Files \cup {Nobody},
           net : Nets \cup {Nobody},
           inbox : Inboxes \cup {Nobody}, card : BOOLEAN, unverified : BOOLEAN]
OpeningState == [pc : {"none", "read", "claim", "grant", "giveBack", "release", "clear", "dead"},
            upload : Uploads \cup {0}, inbox : Inboxes \cup {Nobody}, card : BOOLEAN]
AttachState == [pc : {"none", "count", "link", "release", "note", "take", "dead"},
           upload : Uploads \cup {0}, refused : BOOLEAN, counted : BOOLEAN]

Idle == [pc |-> "none", upload |-> 0, inbox |-> Nobody, card |-> FALSE]
NoAttach == [pc |-> "none", upload |-> 0, refused |-> FALSE, counted |-> FALSE]

Init ==
    /\ open = Accounts
    /\ inbox \in [Accounts -> Inboxes]
    /\ verified \in SUBSET Accounts
    /\ checked = [a \in Accounts |-> Nobody]
    /\ credits = Credits
    /\ claims = {} /\ welcome = {} /\ previews = {} /\ pending = {} /\ held = {}
    /\ report = [u \in Uploads |-> "none"]
    /\ upload = [u \in Uploads |->
          [pc |-> "new", plan |-> "", account |-> Nobody, device |-> Nobody, file |-> Nobody, net |-> Nobody,
           inbox |-> Nobody, card |-> FALSE, unverified |-> FALSE]]
    /\ opening = [a \in Accounts |-> Idle]
    /\ attach = [a \in Accounts |-> NoAttach]
    /\ lost = {}

------------------------------------------------------------------------------
(* Claims.                                                                  *)

Key(kind, of, n) == [kind |-> kind, of |-> of, n |-> n]

\* Mutant of Slots: one slot too many.
SlotsFromZero(kind, of, cap) == {Key(kind, of, n) : n \in 0..cap}

\* The numbered slots of a limit.
Slots(kind, of, cap) == {Key(kind, of, n) : n \in 1..cap}

ByUpload(u) == [act |-> "upload", of |-> u]
ByOpening(a) == [act |-> "open", of |-> a]
ByAttach(a, u) == [act |-> "attach", of |-> a, report |-> u]
ByCard(a) == [act |-> "card", of |-> a]

Taken(k) == \E c \in claims : c.key = k
Full(group) == \A k \in group : Taken(k)

\* The slot that claim_free gets from a group: the first that inserts.
FirstFree(group) ==
    CHOOSE k \in group : ~Taken(k) /\ \A j \in group : j.n < k.n => Taken(j)

\* claim_free: every key and a slot of each group, or nothing.
CanTake(keys, groups) == (\A k \in keys : ~Taken(k)) /\ \A g \in groups : ~Full(g)
Take(by, keys, groups) ==
    claims' = claims \cup {[key |-> k, by |-> by] : k \in keys \cup {FirstFree(g) : g \in groups}}

\* Mutant of Release: release_free forgets the network's numbered slots.
ReleaseKeys(by) == claims' = {c \in claims : c.by # by \/ c.key.kind \in {"net", "previewNet"}}

\* release_free.
Release(by) == claims' = {c \in claims : c.by # by}

\* Mutant of WelcomeKeys: the upload's own reading of welcome_reports is trusted for the file.
WelcomeKeysNoFile(a, m, d, f, card) ==
    {Key("account", a, 0), Key("inbox", m, 0)}
        \cup (IF card THEN {} ELSE {Key("device", d, 0)})

\* _welcome_claim: a verified card stands in for the browser and the network.
WelcomeKeys(a, m, d, f, card) ==
    {Key("account", a, 0), Key("inbox", m, 0), Key("file", f, 0)}
        \cup (IF card THEN {} ELSE {Key("device", d, 0)})
WelcomeGroups(net, card) == IF card THEN {} ELSE {Slots("net", net, WelcomeCap)}

\* claim_preview, _claim_month_preview.
PreviewGroups(a, net) == {Slots("preview", a, Previews), Slots("previewNet", net, NetPreviews)}
AnonGroups(net) == {Slots("anon", net, AnonCap)}

------------------------------------------------------------------------------
(* What a request reads.                                                    *)

HasCard(a) == checked[a] # Nobody
InboxTaken(a) == Taken(Key("inbox", inbox[a], 0))

\* welcome_refusal; f is Nobody before the file is parsed.
WelcomeRefusal(a, d, f, net, card) ==
    IF \E w \in welcome : w.account = a THEN "account"
    ELSE IF ~card /\ \E w \in welcome : upload[w.upload].device = d THEN "device"
    ELSE IF \E w \in welcome : upload[w.upload].file = f THEN "file"
    ELSE IF ~card /\ Cardinality({w \in welcome : upload[w.upload].net = net}) >= WelcomeCap THEN "network"
    ELSE ""

\* _first_look.
FirstLook(a, d, net, card) ==
    LET refused == WelcomeRefusal(a, d, Nobody, net, card) IN
    IF refused # "" THEN refused
    ELSE IF InboxTaken(a) THEN "email"
    ELSE IF a \notin verified THEN "unverified" ELSE ""

PreviewsOf(net) == {p \in previews : upload[p[1]].net = net}

\* preview_or_credit: what is left of the month, as of now; "" is the way to buy.
PreviewOrCredit(a, net) ==
    IF /\ Cardinality({p \in previews : p[2] = a}) < Previews
       /\ Cardinality(PreviewsOf(net)) < NetPreviews THEN "preview"
    ELSE IF credits[a] > 0 THEN "credit" ELSE ""

\* _pending_refusal, with the marks of upload u.
PendingRefused(a, u) ==
    \/ WelcomeRefusal(a, upload[u].device, upload[u].file, upload[u].net, HasCard(a)) # ""
    \/ a \notin open \/ InboxTaken(a)

\* _grantable_pending: the most recent preview nothing is found against.
Grantable(a) == {u \in Uploads : <<u, a>> \in pending /\ ~PendingRefused(a, u)}
LatestOf(us) == CHOOSE u \in us : \A v \in us : v <= u

------------------------------------------------------------------------------
(* An upload: create_audit.                                                 *)

Go(u, pc) == upload' = [upload EXCEPT ![u].pc = pc]
GoAs(u, pc, plan) == upload' = [upload EXCEPT ![u].pc = pc, ![u].plan = plan]
Earlier(u) == \A v \in Uploads : v < u => upload[v].pc # "new"

\* Signed in: the first look, with the card only when the browser or the network is refused.
Start(u, a, d, f, net) ==
    /\ upload[u].pc = "new" /\ Earlier(u) /\ a \in open
    /\ LET bare == FirstLook(a, d, net, FALSE)
           card == bare \in {"device", "network"} /\ HasCard(a)
           refused == IF card THEN FirstLook(a, d, net, TRUE) ELSE bare
           plan == IF refused = "" THEN "welcome" ELSE PreviewOrCredit(a, net) IN
       upload' = [upload EXCEPT ![u] =
          [pc |-> CASE plan = "welcome" -> "check" [] plan = "preview" -> "slots"
                    [] plan = "credit" -> "run" [] plan = "" -> "done",
           plan |-> plan, account |-> a, device |-> d, file |-> f, net |-> net,
           inbox |-> inbox[a], card |-> card, unverified |-> refused = "unverified"]]
    /\ UNCHANGED <<people, credits, claims, rows, opening, attach, lost>>

\* Without an account, while the network has a preview of the day left.
StartAnon(u, d, f, net) ==
    /\ upload[u].pc = "new" /\ Earlier(u) /\ ~Full(Slots("anon", net, AnonCap))
    /\ upload' = [upload EXCEPT ![u] =
          [@ EXCEPT !.pc = "slots", !.plan = "anon", !.device = d, !.file = f,
               !.net = net]]
    /\ UNCHANGED <<people, credits, claims, rows, opening, attach, lost>>

\* What becomes of an upload that was not the free full report after all.
FallBack(u) ==
    LET plan == PreviewOrCredit(upload[u].account, upload[u].net) IN
    GoAs(u, CASE plan = "preview" -> "slots" [] plan = "credit" -> "run" [] plan = "" -> "done",
         plan)

\* claim_free_use reads welcome_refusal again, now with the file.
Check(u) ==
    /\ upload[u].pc = "check"
    /\ LET me == upload[u] IN
       IF WelcomeRefusal(me.account, me.device, me.file, me.net, me.card) = ""
         THEN Go(u, "claim") ELSE FallBack(u)
    /\ UNCHANGED <<people, credits, claims, rows, opening, attach, lost>>

\* ... and takes the claims.
ClaimWelcome(u) ==
    /\ upload[u].pc = "claim"
    /\ LET me == upload[u]
           keys == WelcomeKeys(me.account, me.inbox, me.device, me.file, me.card) IN
       IF CanTake(keys, WelcomeGroups(me.net, me.card))
         THEN Take(ByUpload(u), keys, WelcomeGroups(me.net, me.card)) /\ Go(u, "run")
         ELSE FallBack(u) /\ UNCHANGED claims
    /\ UNCHANGED <<people, credits, rows, opening, attach, lost>>

\* claim_preview or claim_anon_preview, before the audit runs.
ClaimSlots(u) ==
    /\ upload[u].pc = "slots"
    /\ LET me == upload[u]
           groups == IF me.plan = "anon" THEN AnonGroups(me.net) ELSE PreviewGroups(me.account, me.net) IN
       IF CanTake({}, groups) THEN Take(ByUpload(u), {}, groups) /\ Go(u, "run")
       ELSE /\ IF me.plan = "preview" /\ credits[me.account] > 0
                 THEN GoAs(u, "run", "credit") ELSE Go(u, "done")
            /\ UNCHANGED claims
    /\ UNCHANGED <<people, credits, rows, opening, attach, lost>>

\* The audit is stored as a locked report, or fails.
Run(u) ==
    /\ upload[u].pc = "run"
    /\ \/ report' = [report EXCEPT ![u] = "locked"] /\ Go(u, "finish")
       \/ UNCHANGED report /\ Go(u, "release")
    /\ UNCHANGED <<people, credits, claims, welcome, previews, pending, held, opening, attach, lost>>

\* grant_welcome, in one transaction: the row of the account is new and the report is locked.
CanGrant(a, u) == ~(\E w \in welcome : w.account = a) /\ report[u] = "locked"
Grant(a, u, m, card) ==
    /\ welcome' = welcome \cup {[account |-> a, upload |-> u, inbox |-> m, card |-> card]}
    /\ report' = [report EXCEPT ![u] = "paid"]

GrantWelcome(u) ==
    /\ upload[u].pc = "finish" /\ upload[u].plan = "welcome"
    /\ LET me == upload[u] IN
       IF CanGrant(me.account, u) THEN Grant(me.account, u, me.inbox, me.card) /\ Go(u, "done")
       ELSE UNCHANGED <<welcome, report>> /\ Go(u, "release")
    /\ UNCHANGED <<people, credits, claims, previews, pending, held, opening, attach, lost>>

\* redeem_with_account.
Redeem(u) ==
    /\ upload[u].pc = "finish" /\ upload[u].plan = "credit"
    /\ LET a == upload[u].account IN
       IF credits[a] > 0
         THEN /\ credits' = [credits EXCEPT ![a] = @ - 1]
              /\ report' = [report EXCEPT ![u] = "paid"] /\ Go(u, "done")
         ELSE UNCHANGED <<credits, report>> /\ Go(u, "release")
    /\ UNCHANGED <<people, claims, welcome, previews, pending, held, opening, attach, lost>>

\* A preview is counted; one without an account waits for a sign-up.
Finish(u) ==
    /\ upload[u].pc = "finish" /\ upload[u].plan \in {"preview", "anon"}
    /\ Go(u, IF upload[u].plan = "preview" THEN "note" ELSE "done")
    /\ pending' = IF upload[u].plan = "anon" THEN pending \cup {<<u, Nobody>>} ELSE pending
    /\ UNCHANGED <<people, credits, claims, report, welcome, previews, held, opening, attach, lost>>

\* A failed upload ends here; a stored one is to be one of the month's previews.
GiveBack(u) ==
    /\ upload[u].pc = "release"
    /\ Release(ByUpload(u))
    /\ Go(u, IF report[u] = "none" THEN "done" ELSE "reclaim")
    /\ UNCHANGED <<people, credits, rows, opening, attach, lost>>

Reclaim(u) ==
    /\ upload[u].pc = "reclaim"
    /\ LET groups == PreviewGroups(upload[u].account, upload[u].net) IN
       IF CanTake({}, groups) THEN Take(ByUpload(u), {}, groups) /\ Go(u, "note")
       ELSE UNCHANGED claims /\ Go(u, "drop")
    /\ UNCHANGED <<people, credits, rows, opening, attach, lost>>

\* delete_audit: there was nothing left to deliver it under.
Drop(u) ==
    /\ upload[u].pc = "drop"
    /\ report' = [report EXCEPT ![u] = "deleted"] /\ Go(u, "done")
    /\ UNCHANGED <<people, credits, claims, welcome, previews, pending, held, opening, attach, lost>>

\* record_free_preview, then _pending_refusal is read.
Note(u) ==
    /\ upload[u].pc = "note"
    /\ LET me == upload[u] IN
       /\ previews' = previews \cup {<<u, me.account>>}
       /\ Go(u, IF me.unverified /\ ~PendingRefused(me.account, u) THEN "pend" ELSE "done")
    /\ UNCHANGED <<people, credits, claims, report, welcome, pending, held, opening, attach, lost>>

\* record_welcome_pending.
Pend(u) ==
    /\ upload[u].pc = "pend"
    /\ pending' = pending \cup {<<u, upload[u].account>>} /\ Go(u, "done")
    /\ UNCHANGED <<people, credits, claims, report, welcome, previews, held, opening, attach, lost>>

------------------------------------------------------------------------------
(* A preview that becomes the free full report: _grant_pending_welcome.     *)

Opens(a, pc) == opening' = [opening EXCEPT ![a].pc = pc]

\* confirm_email_challenge, which nothing else verifies; the grant comes next.
Confirm(a) ==
    /\ a \in open \ verified /\ opening[a].pc = "none"
    /\ verified' = verified \cup {a}
    /\ Opens(a, "read")
    /\ UNCHANGED <<open, inbox, checked, credits, claims, rows, upload, attach, lost>>

\* confirm_email_challenge of a new address, which opens nothing.
ChangeEmail(a, m) ==
    /\ a \in open
    /\ inbox' = [inbox EXCEPT ![a] = m] /\ verified' = verified \cup {a}
    /\ UNCHANGED <<open, checked, credits, claims, rows, upload, opening, attach, lost>>

\* record_card_check: a card that another account holds is taken for ever.
CheckCard(a, card) ==
    /\ a \in open /\ ~HasCard(a)
    /\ ~\E c \in claims : c.key = Key("card", card, 0) /\ c.by # ByCard(a)
    /\ claims' = claims \cup {[key |-> Key("card", card, 0), by |-> ByCard(a)]}
    /\ checked' = [checked EXCEPT ![a] = card]
    /\ UNCHANGED <<open, inbox, verified, credits, rows, upload, opening, attach, lost>>

Choose(a) ==
    /\ opening[a].pc = "read"
    /\ opening' = [opening EXCEPT ![a] =
          IF Grantable(a) = {} THEN [@ EXCEPT !.pc = "clear"]
          ELSE [@ EXCEPT !.pc = "claim", !.upload = LatestOf(Grantable(a))]]
    /\ UNCHANGED <<people, credits, claims, rows, upload, attach, lost>>

\* The card is read again, then the claims are taken with the marks of that upload.
ClaimPending(a) ==
    /\ opening[a].pc = "claim"
    /\ LET u == opening[a].upload
           card == HasCard(a)
           keys == WelcomeKeys(a, inbox[a], upload[u].device, upload[u].file, card) IN
       IF CanTake(keys, WelcomeGroups(upload[u].net, card))
         THEN /\ Take(ByOpening(a), keys, WelcomeGroups(upload[u].net, card))
              /\ opening' = [opening EXCEPT ![a] = [@ EXCEPT !.pc = "grant", !.inbox = inbox[a], !.card = card]]
         ELSE UNCHANGED claims /\ Opens(a, "clear")
    /\ UNCHANGED <<people, credits, rows, upload, attach, lost>>

GrantPending(a) ==
    /\ opening[a].pc = "grant"
    /\ LET u == opening[a].upload IN
       IF CanGrant(a, u) THEN Grant(a, u, opening[a].inbox, opening[a].card) /\ Opens(a, "giveBack")
       ELSE UNCHANGED <<welcome, report>> /\ Opens(a, "release")
    /\ UNCHANGED <<people, credits, claims, previews, pending, held, upload, attach, lost>>

ReleasePending(a) ==
    /\ opening[a].pc = "release"
    /\ Release(ByOpening(a)) /\ Opens(a, "clear")
    /\ UNCHANGED <<people, credits, rows, upload, attach, lost>>

\* delete_free_preview: the row alone.
DeletePreview(a) ==
    /\ opening[a].pc = "giveBack"
    /\ previews' = {p \in previews : p[1] # opening[a].upload} /\ Opens(a, "clear")
    /\ UNCHANGED <<people, credits, claims, report, welcome, pending, held, upload, attach, lost>>

\* clear_welcome_pending: every row of the account, granted or not.
ClearPending(a) ==
    /\ opening[a].pc = "clear"
    /\ pending' = {p \in pending : p[2] # a} /\ opening' = [opening EXCEPT ![a] = Idle]
    /\ UNCHANGED <<people, credits, claims, report, welcome, previews, held, upload, attach, lost>>

------------------------------------------------------------------------------
(* A preview uploaded without an account goes on one: _anon_to_account.     *)

Attaches(a, pc) == attach' = [attach EXCEPT ![a].pc = pc]
HeldBy(u) == {h \in held : h[1] = u}

\* No account holds it, and its row of welcome_pending has none.
Attach(a, u) ==
    /\ a \in open /\ attach[a].pc = "none"
    /\ HeldBy(u) = {} /\ <<u, Nobody>> \in pending
    /\ LET refused == PendingRefused(a, u) IN
       attach' = [attach EXCEPT ![a] = [pc |-> IF refused THEN "count" ELSE "link",
                                        upload |-> u, refused |-> refused, counted |-> FALSE]]
    /\ UNCHANGED <<people, credits, claims, rows, upload, opening, lost>>

\* _claim_month_preview; without a slot it goes on the account as saved, uncounted.
CountAttached(a) ==
    /\ attach[a].pc = "count"
    /\ LET groups == PreviewGroups(a, upload[attach[a].upload].net)
           can == CanTake({}, groups) IN
       /\ IF can THEN Take(ByAttach(a, attach[a].upload), {}, groups) ELSE UNCHANGED claims
       /\ attach' = [attach EXCEPT ![a].pc = "link", ![a].counted = can]
    /\ UNCHANGED <<people, credits, rows, upload, opening, lost>>

\* link_audit: one account per report.
LinkAttached(a) ==
    /\ attach[a].pc = "link"
    /\ LET u == attach[a].upload
           next == IF attach[a].counted THEN "note" ELSE "take" IN
       IF HeldBy(u) = {} THEN held' = held \cup {<<u, a>>} /\ Attaches(a, next)
       ELSE /\ UNCHANGED held
            /\ Attaches(a, IF attach[a].counted THEN "release" ELSE "none")
    /\ UNCHANGED <<people, credits, claims, report, welcome, previews, pending, upload, opening, lost>>

ReleaseAttached(a) ==
    /\ attach[a].pc = "release"
    /\ Release(ByAttach(a, attach[a].upload)) /\ Attaches(a, "none")
    /\ UNCHANGED <<people, credits, rows, upload, opening, lost>>

NoteAttached(a) ==
    /\ attach[a].pc = "note"
    /\ previews' = previews \cup {<<attach[a].upload, a>>} /\ Attaches(a, "take")
    /\ UNCHANGED <<people, credits, claims, report, welcome, pending, held, upload, opening, lost>>

\* welcome_pending_attach; then a confirmed account that was not refused opens it at once.
TakeAttached(a) ==
    /\ attach[a].pc = "take" /\ opening[a].pc = "none"
    /\ LET u == attach[a].upload
           mine == <<u, Nobody>> \in pending IN
       /\ pending' = IF mine THEN (pending \ {<<u, Nobody>>}) \cup {<<u, a>>} ELSE pending
       /\ IF mine /\ ~attach[a].refused /\ a \in verified
            THEN Opens(a, "read") ELSE UNCHANGED opening
    /\ attach' = [attach EXCEPT ![a] = NoAttach]
    /\ UNCHANGED <<people, credits, claims, report, welcome, previews, held, upload, lost>>

------------------------------------------------------------------------------
\* delete_account: what counts for ever stays.
Leave(a) ==
    /\ a \in open
    /\ open' = open \ {a} /\ verified' = verified \ {a}
    /\ checked' = [checked EXCEPT ![a] = Nobody]
    /\ credits' = [credits EXCEPT ![a] = 0]
    /\ pending' = {p \in pending : p[2] # a} /\ held' = {h \in held : h[2] # a}
    /\ UNCHANGED <<inbox, claims, report, welcome, previews, upload, opening, attach, lost>>

\* The process of a request dies, with whatever it holds.
UploadDies(u) ==
    /\ upload[u].pc \notin {"new", "done", "dead"} /\ Cardinality(lost) < MaxDeaths
    /\ Go(u, "dead") /\ lost' = lost \cup {ByUpload(u)}
    /\ UNCHANGED <<people, credits, claims, rows, opening, attach>>

OpeningDies(a) ==
    /\ opening[a].pc \notin {"none", "dead"} /\ Cardinality(lost) < MaxDeaths
    /\ Opens(a, "dead") /\ lost' = lost \cup {ByOpening(a)}
    /\ UNCHANGED <<people, credits, claims, rows, upload, attach>>

AttachDies(a) ==
    /\ attach[a].pc \notin {"none", "dead"} /\ Cardinality(lost) < MaxDeaths
    /\ Attaches(a, "dead") /\ lost' = lost \cup {ByAttach(a, attach[a].upload)}
    /\ UNCHANGED <<people, credits, claims, rows, upload, opening>>

Next ==
    \/ \E u \in Uploads : \E d \in Devices, f \in Files, net \in Nets :
          StartAnon(u, d, f, net) \/ \E a \in Accounts : Start(u, a, d, f, net)
    \/ \E u \in Uploads :
          \/ Check(u) \/ ClaimWelcome(u) \/ ClaimSlots(u) \/ Run(u)
          \/ GrantWelcome(u) \/ Redeem(u) \/ Finish(u)
          \/ GiveBack(u) \/ Reclaim(u) \/ Drop(u) \/ Note(u) \/ Pend(u) \/ UploadDies(u)
    \/ \E a \in Accounts :
          \/ Confirm(a) \/ \E m \in Inboxes : ChangeEmail(a, m)
          \/ \E card \in Cards : CheckCard(a, card)
          \/ Choose(a) \/ ClaimPending(a) \/ GrantPending(a) \/ ReleasePending(a)
          \/ DeletePreview(a) \/ ClearPending(a) \/ OpeningDies(a)
          \/ \E u \in Uploads : Attach(a, u)
          \/ CountAttached(a) \/ LinkAttached(a) \/ ReleaseAttached(a)
          \/ NoteAttached(a) \/ TakeAttached(a) \/ AttachDies(a)
          \/ Leave(a)

Spec == Init /\ [][Next]_vars

------------------------------------------------------------------------------
Kinds == {"account", "inbox", "device", "file", "net", "preview", "previewNet", "anon", "card"}

\* Every variable keeps its shape, and a key is claimed by one reservation at most
\* (store.py: claim_free inserts rows whose key is unique).
TypeOK ==
    /\ open \subseteq Accounts /\ verified \subseteq Accounts
    /\ inbox \in [Accounts -> Inboxes] /\ checked \in [Accounts -> Cards \cup {Nobody}]
    /\ credits \in [Accounts -> Nat]
    /\ \A c \in claims : c.key.kind \in Kinds /\ c.by.act \in {"upload", "open", "attach", "card"}
    /\ \A c, d \in claims : c.key = d.key => c = d
    /\ report \in [Uploads -> {"none", "locked", "paid", "deleted"}]
    /\ welcome \subseteq [account : Accounts, upload : Uploads, inbox : Inboxes, card : BOOLEAN]
    /\ previews \subseteq Uploads \X Accounts
    /\ pending \subseteq Uploads \X Owners /\ held \subseteq Uploads \X Accounts
    /\ upload \in [Uploads -> UploadState]
    /\ opening \in [Accounts -> OpeningState] /\ attach \in [Accounts -> AttachState]

\* One free full report, whatever uploads, confirmations, sign-ups and deletions run at once:
\* two of them never share the account, the inbox or the file, nor the browser unless a
\* verified card stood in for one (web.py: _first_look, _welcome_claim, _grant_pending_welcome).
OneFreeReport ==
    \A v, w \in welcome : v # w =>
        /\ v.account # w.account /\ v.upload # w.upload
        /\ v.inbox # w.inbox
        /\ upload[v.upload].file # upload[w.upload].file
        /\ v.card \/ w.card \/ upload[v.upload].device # upload[w.upload].device

\* The month's limits hold over every interleaving of readings and claims: the free full
\* reports of the network without a card, and the previews counted to the account and to
\* the network (accounts.py: *_PER_MONTH; store.py: claim_free).
FreeCaps ==
    /\ TypeOK
    /\ \A net \in Nets : /\ Cardinality({w \in welcome : ~w.card /\ upload[w.upload].net = net})
                             <= WelcomeCap
                       /\ Cardinality(PreviewsOf(net)) <= NetPreviews
    /\ \A a \in Accounts : Cardinality({p \in previews : p[2] = a}) <= Previews

\* A claim outlives the upload that took it only for what it stands for: the free report it
\* gave, the preview that was counted, the day's preview without an account.  One that failed
\* keeps nothing, unless its process died (web.py: release_free on every way out).  And the
\* other way round: a report that was left to an account as a preview is one of its month's
\* (web.py: create_audit).
NothingLeaks ==
    \A u \in Uploads : upload[u].pc = "done" =>
        /\ \A c \in claims : c.by = ByUpload(u) =>
              CASE c.key.kind \in {"account", "inbox", "device", "file", "net"} ->
                      \E w \in welcome : w.upload = u
                [] c.key.kind \in {"preview", "previewNet"} ->
                      report[u] = "paid" \/ \E p \in previews : p[1] = u
                [] OTHER -> report[u] # "none"
        /\ upload[u].account # Nobody /\ report[u] = "locked" => \E p \in previews : p[1] = u

\* "The month's preview is given back": a report that confirming the e-mail opened in full
\* holds none of the month's preview slots (web.py: _grant_pending_welcome).
PreviewGivenBack ==
    \A a \in Accounts, u \in Uploads :
        (\E w \in welcome : w.account = a /\ w.upload = u) /\ opening[a].pc = "none"
            /\ upload[u].pc = "done" =>
        ~\E c \in claims : c.by = ByUpload(u) /\ c.key.kind \in {"preview", "previewNet"}
=============================================================================
