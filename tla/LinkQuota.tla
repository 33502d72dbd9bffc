------------------------------ MODULE LinkQuota ------------------------------
(***************************************************************************)
(* How many personal links one user may create: the trial limit, the paid  *)
(* subscription and the purchases of bonus links that Perma Payments       *)
(* reports, and the bonus_links that POST spends and moves and deletions   *)
(* give back.                                                              *)
(*                                                                         *)
(* Every request has its own copy of the user's row, read when it is       *)
(* authenticated; POST reads a second one under select_for_update.  Saving *)
(* a field writes the copy's value, whatever the row has become.           *)
(***************************************************************************)
EXTENDS Integers, Sequences, FiniteSets

CONSTANTS
    Requests,      \* web workers that serve the user
    Syncs,         \* workers of sync_subscriptions_from_perma_payments
    NoRequest,     \* holder of a row lock nobody holds
    Links,         \* bound: links the user may create
    NoLink,
    Purchases,     \* bound: purchases of one bonus link each
    Tiers,         \* TIERS['Individual'] and what Payments sold before
    DefaultLimit,  \* DEFAULT_CREATE_LIMIT
    MaxBonus,      \* bound: bonus links of a user who moves a link
    MaxOutages,    \* bound: calls of Perma Payments that fail
    MaxDeals       \* bound: changes of the subscription and of frozen

Workers == Requests \cup Syncs

ASSUME QuotaAssumption ==
    /\ IsFiniteSet(Links) /\ IsFiniteSet(Purchases)
    /\ Syncs \cap Requests = {} /\ NoRequest \notin Workers /\ NoLink \notin Links
    /\ Tiers \subseteq [limit: Nat, rate: Nat, period: {"monthly", "annually"}]
    /\ DefaultLimit \in Nat /\ MaxBonus \in Nat /\ MaxOutages \in Nat /\ MaxDeals \in Nat

VARIABLES
    row,       \* the user's row
    lock,      \* the request that holds the row's lock
    link,      \* where each link is, and whether it is a bonus link
    purchase,  \* purchases at Perma Payments
    sub,       \* the subscription at Perma Payments
    at,        \* what each request does next
    job,       \* its kind, its link and its destination
    me,        \* request.user
    own,       \* POST's second copy, read under the lock
    reply,     \* Perma Payments' answer it is working through
    known,     \* the cached_property subscription_status of the copy in use
    books,     \* history: what has happened that may unbalance the books
    outages,   \* for the bound
    deals      \* for the bound

reqVars == <<at, job, me, own, reply, known>>
vars == <<row, lock, link, purchase, sub, reqVars, books, outages, deals>>

----------------------------------------------------------------------------

Kind == {"post", "move", "patch", "delete", "page", "sync"}
Place == {"none", "personal", "elsewhere", "deleted"}
NoTier == [limit |-> 0, rate |-> 0, period |-> "none"]
Tier == Tiers \cup {NoTier}

\* A subscription as Payments knows it.  A downgrade waits in pending.
NoSub == [status |-> "none", tier |-> NoTier, pending |-> NoTier]
Sub == [status: {"none", "Current", "Hold"}, tier: Tier, pending: Tier]

\* bonus_links of a Python object: a number, or F('bonus_links') + n.
Bonus == [rel: BOOLEAN, n: Int]
Number(n) == [rel |-> FALSE, n |-> n]
Plus(b, n) == [b EXCEPT !.n = @ + n]
Written(b, stored) == IF b.rel THEN stored + b.n ELSE b.n

User == [bonus: Int, frozen: BOOLEAN, nonpaying: BOOLEAN, in_trial: BOOLEAN,
         status: {"none", "Current", "Hold"}, tier: Tier]
Copy == [bonus: Bonus, frozen: BOOLEAN, nonpaying: BOOLEAN, in_trial: BOOLEAN,
         status: {"none", "Current", "Hold"}, tier: Tier]
CopyOf(u) == [u EXCEPT !.bonus = Number(@)]
NoCopy == [bonus |-> Number(0), frozen |-> FALSE, nonpaying |-> TRUE,
           in_trial |-> TRUE, status |-> "none", tier |-> NoTier]

Stage == {"idle", "check", "lock", "locked", "move", "refund", "page", "answer",
          "offer"}
Consult == {"none", "credit"}
Job == [kind: Kind \cup {"none"}, link: Links \cup {NoLink}, dest: Place, bonus: BOOLEAN]
Reply == [phase: Consult, due: SUBSET Purchases, sub: Sub]
LinkRow == [place: Place, bonus: BOOLEAN]
Books == [overlap: BOOLEAN, failedAck: BOOLEAN, relative: BOOLEAN, inPost: BOOLEAN]
NoJob == [kind |-> "none", link |-> NoLink, dest |-> "none", bonus |-> FALSE]
NoReply == [phase |-> "none", due |-> {}, sub |-> NoSub]

TypeOK ==
    /\ row \in User /\ row.bonus >= 0
    /\ lock \in Workers \cup {NoRequest}
    /\ link \in [Links -> LinkRow]
    /\ purchase \in [Purchases -> {"unbought", "due", "acknowledged", "lost"}]
    /\ sub \in Sub
    /\ at \in [Workers -> Stage]
    /\ job \in [Workers -> Job]
    /\ me \in [Workers -> Copy] /\ own \in [Workers -> Copy]
    /\ reply \in [Workers -> Reply]
    /\ known \in [Workers -> {"unknown", "active", "inactive"}]
    /\ books \in Books
    /\ outages \in 0..MaxOutages
    /\ deals \in 0..MaxDeals

Init ==
    /\ row \in {[bonus |-> 0, frozen |-> FALSE, nonpaying |-> n, in_trial |-> TRUE,
                 status |-> "none", tier |-> NoTier] : n \in BOOLEAN}
    /\ lock = NoRequest
    /\ link = [l \in Links |-> [place |-> "none", bonus |-> FALSE]]
    /\ purchase = [p \in Purchases |-> "unbought"]
    /\ sub = NoSub
    /\ at = [r \in Workers |-> "idle"]
    /\ job = [r \in Workers |-> NoJob]
    /\ me = [r \in Workers |-> NoCopy]
    /\ own = [r \in Workers |-> NoCopy]
    /\ reply = [r \in Workers |-> NoReply]
    /\ known = [r \in Workers |-> "unknown"]
    /\ books = [overlap |-> FALSE, failedAck |-> FALSE, relative |-> FALSE, inPost |-> FALSE]
    /\ outages = 0
    /\ deals = 0

----------------------------------------------------------------------------
(* What the copies of the user say.                                        *)

PlainLinks == {l \in Links : link[l].place = "personal" /\ ~link[l].bonus}

\* The copy whose get_links_remaining is called.
Using(r) == IF at[r] = "locked" THEN own[r] ELSE me[r]

LimitOf(u) == IF u.tier = NoTier THEN DefaultLimit ELSE u.tier.limit

\* Users who left the trial without an active subscription get a new user's limit.
Limit(r) ==
    LET u == Using(r) IN
    IF ~u.in_trial /\ ~u.nonpaying /\ known[r] # "active"
    THEN DefaultLimit ELSE LimitOf(u)

Remaining(r) ==
    IF Cardinality(PlainLinks) < Limit(r)
    THEN Limit(r) - Cardinality(PlainLinks) ELSE 0

\* get_links_remaining asks Payments once per copy, and not for everybody.
MustAsk(r) == ~Using(r).in_trial /\ ~Using(r).nonpaying /\ known[r] = "unknown"
Ready(r) == reply[r].phase = "none" /\ ~MustAsk(r)

HasBonus(b) == b.rel \/ b.n > 0

\* Mutant: the last link of the limit is counted as remaining.
AllowedAtLimit(r) ==
    ~me[r].frozen /\ (Remaining(r) >= 0 \/ HasBonus(me[r].bonus))

LinkCreationAllowed(r) ==
    ~me[r].frozen /\ (Remaining(r) > 0 \/ HasBonus(me[r].bonus))

\* Mutant: the count under the lock does not look at bonus_links.
MaySpendAlways(r) == job[r].dest = "personal"

\* POST counts again only for a personal link of a user with bonus links.
MaySpend(r) == job[r].dest = "personal" /\ own[r].bonus.n > 0

\* Mutant: updates do not wait for select_for_update.
NoRowLock(r) == TRUE

\* A statement that updates the row waits for the transaction that locked it.
MayWrite(r) == lock \in {NoRequest, r}

Busy == \E q \in Workers : at[q] # "idle"

Go(r, stage) == at' = [at EXCEPT ![r] = stage]

Finish(r) ==
    /\ Go(r, "idle")
    /\ job' = [job EXCEPT ![r] = NoJob]
    /\ me' = [me EXCEPT ![r] = NoCopy]
    /\ own' = [own EXCEPT ![r] = NoCopy]
    /\ reply' = [reply EXCEPT ![r] = NoReply]
    /\ known' = [known EXCEPT ![r] = "unknown"]

----------------------------------------------------------------------------
(* Perma Payments, an external service, and the staff who freeze accounts. *)

NeedsDeal == deals < MaxDeals /\ deals' = deals + 1

Buy(p) ==
    /\ purchase[p] = "unbought" /\ ~row.nonpaying
    /\ purchase' = [purchase EXCEPT ![p] = "due"]
    /\ UNCHANGED <<row, lock, link, sub, reqVars, books, outages, deals>>

\* A payment fails or succeeds again; at its renewal, a pending change is made.
Bill ==
    /\ NeedsDeal
    /\ sub.status # "none"
    /\ sub' \in {[sub EXCEPT !.status = "Hold"], [sub EXCEPT !.status = "Current"],
                 IF sub.pending = NoTier THEN sub
                 ELSE [sub EXCEPT !.tier = sub.pending, !.pending = NoTier]}
    /\ UNCHANGED <<row, lock, link, purchase, reqVars, books, outages>>

Freeze ==
    /\ NeedsDeal
    /\ MayWrite(NoRequest)
    /\ row' = [row EXCEPT !.frozen = ~@]
    /\ UNCHANGED <<lock, link, purchase, sub, reqVars, books, outages>>

\* Folder.save, of a folder moved to an organization or a sponsor: the bonus links
\* in it are credited in one statement.
MoveFolder(moved) ==
    LET returned == {l \in moved : link[l].bonus} IN
    /\ moved # {} /\ \A l \in moved : link[l].place = "personal"
    /\ lock = NoRequest
    /\ link' = [l \in Links |-> IF l \in moved THEN [place |-> "elsewhere", bonus |-> FALSE]
                               ELSE link[l]]
    /\ row' = [row EXCEPT !.bonus = @ + Cardinality(returned)]
    /\ books' = [books EXCEPT !.overlap = @ \/ Busy]
    /\ UNCHANGED <<lock, purchase, sub, reqVars, outages, deals>>

----------------------------------------------------------------------------
(* get_subscription, for the copy in use.                                  *)

Active(status) == status = "Current"
Knows(status) == IF Active(status) THEN "active" ELSE "inactive"

\* The calls of get_subscription: the usage plan page and the task make it
\* themselves, the others through get_links_remaining.
MayAsk(r) ==
    /\ reply[r].phase = "none"
    /\ \/ at[r] = "page"
       \/ at[r] \in {"check", "answer"} /\ MustAsk(r) /\ job[r].kind # "sync"
       \/ at[r] = "locked" /\ MustAsk(r) /\ MaySpend(r)

Ask(r) ==
    /\ MayAsk(r)
    /\ reply' = [reply EXCEPT ![r] =
                    [phase |-> "credit",
                     due |-> {p \in Purchases : purchase[p] = "due"}, sub |-> sub]]
    /\ UNCHANGED <<row, lock, link, purchase, sub, at, job, me, own, known, books,
                   outages, deals>>

\* PermaPaymentsCommunicationException: the page and the task give up, the
\* others go on with the status the copy has cached.
AskFails(r) ==
    /\ MayAsk(r)
    /\ outages < MaxOutages /\ outages' = outages + 1
    /\ IF at[r] = "page" THEN Finish(r)
       ELSE /\ known' = [known EXCEPT ![r] = Knows(Using(r).status)]
            /\ UNCHANGED <<at, job, me, own, reply>>
    /\ UNCHANGED <<row, lock, link, purchase, sub, books, deals>>

SetBonus(r, b) ==
    IF at[r] = "locked"
    THEN own' = [own EXCEPT ![r].bonus = b] /\ UNCHANGED me
    ELSE me' = [me EXCEPT ![r].bonus = b] /\ UNCHANGED own

\* credit_for_purchased_links: the row is written and the purchase acknowledged
\* in one transaction, which is rolled back when no answer comes.  Payments may
\* have recorded the acknowledgment all the same: it reports the purchase no more,
\* and if nobody had credited it, it is lost.  The copy keeps the sum either way.
Credit(r, p) ==
    LET sum == Plus(Using(r).bonus, 1) IN
    /\ reply[r].phase = "credit" /\ p \in reply[r].due
    /\ MayWrite(r)
    /\ reply' = [reply EXCEPT ![r].due = @ \ {p}]
    /\ SetBonus(r, sum)
    /\ \/ /\ row' = [row EXCEPT !.bonus = Written(sum, @)]
          /\ purchase' = [purchase EXCEPT ![p] = "acknowledged"]
          /\ books' = [books EXCEPT !.relative = @ \/ sum.rel,
                                    !.inPost = @ \/ at[r] = "locked"]
          /\ UNCHANGED outages
       \/ /\ outages < MaxOutages /\ outages' = outages + 1
          /\ \/ UNCHANGED purchase
             \/ purchase' = [purchase EXCEPT ![p] = IF @ = "due" THEN "lost" ELSE @]
          /\ books' = [books EXCEPT !.failedAck = TRUE]
          /\ UNCHANGED row
    /\ UNCHANGED <<lock, link, sub, at, job, known, deals>>

\* Mutant: a pending change is applied at once.
SettledAhead(s, tier) == IF s.pending = NoTier THEN s.tier ELSE s.pending

\* While a change is pending the copy's tier is left alone, and saved as it is.
SettledTier(s, tier) == IF s.pending = NoTier THEN s.tier ELSE tier

\* The subscription Payments reported is saved, and the copy reloaded.
Settle(r) ==
    LET s == reply[r].sub
        settled == [row EXCEPT !.in_trial = FALSE, !.status = s.status,
                               !.tier = SettledTier(s, Using(r).tier)]
    IN
    /\ reply[r].phase = "credit" /\ reply[r].due = {}
    /\ MayWrite(r)
    /\ known' = [known EXCEPT ![r] = IF at[r] = "page" THEN @ ELSE Knows(s.status)]
    /\ IF s = NoSub
       THEN UNCHANGED <<row, me, own>>
       ELSE /\ row' = settled
            /\ IF at[r] = "locked"
               THEN own' = [own EXCEPT ![r] = CopyOf(settled)] /\ UNCHANGED me
               ELSE me' = [me EXCEPT ![r] = CopyOf(settled)] /\ UNCHANGED own
    /\ reply' = [reply EXCEPT ![r] = IF job[r].kind = "page"
                                      THEN [@ EXCEPT !.phase = "none"] ELSE NoReply]
    /\ Go(r, IF at[r] = "page" THEN "answer" ELSE at[r])
    /\ UNCHANGED <<lock, link, purchase, sub, job, books, outages, deals>>

----------------------------------------------------------------------------
(* The requests.                                                           *)

Begin(r, j) ==
    /\ at[r] = "idle"
    /\ job' = [job EXCEPT ![r] = j]
    /\ me' = [me EXCEPT ![r] = CopyOf(row)]
    /\ books' = [books EXCEPT !.overlap = @ \/ Busy]
    /\ UNCHANGED <<row, lock, link, purchase, sub, own, reply, known, outages, deals>>

BeginPost(r, l, dest) ==
    /\ r \in Requests /\ link[l].place = "none"
    /\ \A q \in Workers : job[q].link # l
    /\ Begin(r, [kind |-> "post", link |-> l, dest |-> dest, bonus |-> FALSE])
    /\ Go(r, IF dest = "personal" THEN "check" ELSE "lock")

\* MoveLinkView reads the link without a lock, and later writes what it read; a
\* PATCH with a folder reads it in its transaction.
BeginMove(r, kind, l, dest) ==
    /\ r \in Requests /\ link[l].place \in {"personal", "elsewhere"}
    /\ row.bonus <= MaxBonus
    /\ Begin(r, [kind |-> kind, link |-> l, dest |-> dest, bonus |-> link[l].bonus])
    /\ Go(r, "move")

BeginDelete(r, l) ==
    /\ r \in Requests /\ link[l].place = "personal"
    /\ Begin(r, [kind |-> "delete", link |-> l, dest |-> "deleted",
                 bonus |-> FALSE])
    /\ Go(r, "move")

\* Mutant: the task's query selects users in their trial.
SyncOfTrials(r) ==
    /\ ~row.nonpaying
    /\ r \in Syncs => row.in_trial
    /\ Begin(r, [NoJob EXCEPT !.kind = IF r \in Syncs THEN "sync" ELSE "page"])
    /\ Go(r, "page")

\* The usage plan page, of a user who pays, and the periodic task, whose query
\* leaves out users in their trial.
BeginPage(r) ==
    /\ ~row.nonpaying
    /\ r \in Syncs => ~row.in_trial
    /\ Begin(r, [NoJob EXCEPT !.kind = IF r \in Syncs THEN "sync" ELSE "page"])
    /\ Go(r, "page")

\* The checks of POST before its transaction.
Refuse(r) ==
    /\ at[r] = "check"
    /\ \/ me[r].frozen
       \/ Ready(r) /\ ~LinkCreationAllowed(r)
    /\ Finish(r)
    /\ UNCHANGED <<row, lock, link, purchase, sub, books, outages, deals>>

Admit(r) ==
    /\ at[r] = "check" /\ Ready(r) /\ LinkCreationAllowed(r)
    /\ Go(r, "lock")
    /\ UNCHANGED <<row, lock, link, purchase, sub, job, me, own, reply, known, books,
                   outages, deals>>

\* POST's transaction: select_for_update().get(), on an object of its own.
Lock(r) ==
    /\ at[r] = "lock" /\ lock = NoRequest
    /\ lock' = r
    /\ own' = [own EXCEPT ![r] = CopyOf(row)]
    /\ known' = [known EXCEPT ![r] = "unknown"]
    /\ Go(r, "locked")
    /\ UNCHANGED <<row, link, purchase, sub, job, me, reply, books, outages, deals>>

\* The rest of it: the bonus link is spent through request.user, and
\* move_to_folder_for_user saves request.user's bonus_links in any case.
SpendsBonus(r) == MaySpend(r) /\ Remaining(r) = 0

Create(r) ==
    LET spends == SpendsBonus(r)
        mine == IF spends THEN Plus(own[r].bonus, -1) ELSE me[r].bonus
    IN
    /\ at[r] = "locked" /\ reply[r].phase = "none"
    /\ MaySpend(r) => ~MustAsk(r)
    /\ link' = [link EXCEPT ![job[r].link] = [place |-> job[r].dest, bonus |-> spends]]
    /\ row' = [row EXCEPT !.bonus = Written(mine, @)]
    /\ lock' = NoRequest
    /\ Finish(r)
    /\ UNCHANGED <<purchase, sub, books, outages, deals>>

\* The link's row is locked by a DELETE that has not committed.
Locked(l) == \E q \in Workers : at[q] = "refund" /\ job[q].link = l

\* move_to_folder_for_user, of the link as it was read: the credit for a bonus
\* link that leaves the personal folder is the expression F('bonus_links') + 1,
\* which stays on the copy after it is saved.
Move(r) ==
    LET l == job[r].link
        bonus == IF job[r].kind = "patch" THEN link[l].bonus ELSE job[r].bonus
        refunds == bonus /\ job[r].dest = "elsewhere"
        mine == IF refunds THEN [rel |-> TRUE, n |-> 1] ELSE me[r].bonus
    IN
    /\ at[r] = "move" /\ job[r].kind \in {"move", "patch"}
    /\ MayWrite(r) /\ ~Locked(l)
    /\ job[r].kind = "patch" => link[l].place # "deleted"
    /\ link' = [link EXCEPT
          ![l] = [place |-> IF @.place = "deleted" THEN @.place ELSE job[r].dest,
                  bonus |-> bonus /\ ~refunds]]
    /\ row' = [row EXCEPT !.bonus = Written(mine, @)]
    /\ IF job[r].kind = "patch"
       THEN Finish(r)
       ELSE /\ me' = [me EXCEPT ![r].bonus = mine]
            /\ Go(r, "answer")
            /\ UNCHANGED <<job, own, reply, known>>
    /\ UNCHANGED <<lock, purchase, sub, books, outages, deals>>

\* get_locked_link_for_user does not find a link deleted since: 404.
NotFound(r) ==
    /\ at[r] = "move" /\ job[r].kind \in {"patch", "delete"}
    /\ link[job[r].link].place = "deleted" /\ ~Locked(job[r].link)
    /\ Finish(r)
    /\ UNCHANGED <<row, lock, link, purchase, sub, books, outages, deals>>

\* Mutant: DELETE does not give the bonus link back.
DeleteKeepsBonus(r) ==
    /\ at[r] = "move" /\ job[r].kind = "delete" /\ link[job[r].link].place # "deleted"
    /\ link' = [link EXCEPT ![job[r].link].place = "deleted"]
    /\ Finish(r)
    /\ UNCHANGED <<row, lock, purchase, sub, books, outages, deals>>

\* DELETE, which locks the link until its transaction ends.
Delete(r) ==
    LET l == job[r].link IN
    /\ at[r] = "move" /\ job[r].kind = "delete" /\ link[l].place # "deleted"
    /\ link' = [link EXCEPT ![l].place = "deleted"]
    /\ IF link[l].bonus
       THEN /\ Go(r, "refund")
            /\ me' = [me EXCEPT ![r] = CopyOf(row)]
            /\ UNCHANGED <<job, own, reply, known>>
       ELSE Finish(r)
    /\ UNCHANGED <<row, lock, purchase, sub, books, outages, deals>>

\* link.created_by, read a moment ago, gets its bonus link back.
Refund(r) ==
    /\ at[r] = "refund" /\ MayWrite(r)
    /\ row' = [row EXCEPT !.bonus = me[r].bonus.n + 1]
    /\ Finish(r)
    /\ UNCHANGED <<lock, link, purchase, sub, books, outages, deals>>

\* The move's answer and the page report get_links_remaining.
Answer(r) ==
    /\ at[r] = "answer" /\ (Ready(r) \/ job[r].kind = "sync")
    /\ reply[r].phase = "none"
    /\ IF job[r].kind = "page"
       THEN Go(r, "offer") /\ UNCHANGED <<job, me, own, reply, known>>
       ELSE Finish(r)
    /\ UNCHANGED <<row, lock, link, purchase, sub, books, outages, deals>>

----------------------------------------------------------------------------
(* The offers of the usage plan page.                                      *)

\* annotate_tier, of the subscription get_subscription returned: its tier is the
\* local one.
TierType(t, s, tier) ==
    CASE s.status = "none" -> "upgrade"
      [] s.status # "none" /\ ( \/ s.status # "Current"
                                \/ t.period # tier.period
                                \/ s.pending # NoTier ) -> "unavailable"
      [] OTHER ->
           CASE t.rate = tier.rate /\ t.limit = tier.limit -> "selected"
             [] t.rate <= tier.rate /\ t.limit < tier.limit -> "downgrade"
             [] t.rate > tier.rate /\ t.limit > tier.limit -> "upgrade"
             [] OTHER -> "unavailable"

\* The customer accepts an offer of the page while it is up to date, or leaves.
\* A pending downgrade can only be taken back.
Deal(r, t) ==
    LET s == reply[r].sub
        type == TierType(t, s, me[r].tier)
    IN
    /\ at[r] = "offer" /\ s = sub /\ NeedsDeal
    /\ \/ /\ type = "upgrade"
          /\ sub' = [status |-> "Current", tier |-> t, pending |-> NoTier]
       \/ /\ type = "downgrade"
          /\ sub' = [sub EXCEPT !.pending = t]
       \/ /\ s.pending # NoTier
          /\ sub' = [sub EXCEPT !.pending = NoTier]
    /\ Finish(r)
    /\ UNCHANGED <<row, lock, link, purchase, books, outages>>

Leave(r) ==
    /\ at[r] = "offer"
    /\ Finish(r)
    /\ UNCHANGED <<row, lock, link, purchase, sub, books, outages, deals>>

----------------------------------------------------------------------------

BeginAny(r) ==
    \/ \E l \in Links, dest \in {"personal", "elsewhere"} :
          BeginPost(r, l, dest) \/ \E k \in {"move", "patch"} : BeginMove(r, k, l, dest)
    \/ \E l \in Links : BeginDelete(r, l)

Consulting(r) == Ask(r) \/ AskFails(r) \/ (\E p \in Purchases : Credit(r, p)) \/ Settle(r)

Working(r) ==
    \/ Consulting(r)
    \/ Refuse(r) \/ Admit(r) \/ Lock(r) \/ Create(r)
    \/ Move(r) \/ NotFound(r) \/ Delete(r) \/ Refund(r) \/ Answer(r) \/ Leave(r)

Next ==
    \/ \E p \in Purchases : Buy(p)
    \/ Bill \/ Freeze
    \/ \E moved \in SUBSET Links : MoveFolder(moved)
    \/ \E r \in Workers : BeginAny(r) \/ BeginPage(r) \/ Working(r)
    \/ \E r \in Workers, t \in Tiers : Deal(r, t)

Spec == Init /\ [][Next]_vars

\* Requests end, and celerybeat runs sync_subscriptions_from_perma_payments.
Fairness ==
    /\ \A r \in Workers : WF_vars(Working(r))
    /\ \A r \in Syncs : WF_vars(BeginPage(r))

FairSpec == Spec /\ Fairness

----------------------------------------------------------------------------
(* Properties.                                                             *)

Acknowledged == {p \in Purchases : purchase[p] = "acknowledged"}
BonusLinks == {l \in Links : link[l].bonus /\ link[l].place # "deleted"}
Refunding == {r \in Workers : at[r] = "refund"}

\* Every purchased link is either still to be spent or is one of the user's bonus
\* links, as long as none of four things has happened: two requests overlapped,
\* an acknowledgment failed (credit_for_purchased_links), or a purchase was
\* credited to a copy that still held F('bonus_links') + 1 (MoveLinkView) or to
\* POST's second copy, while the first, which POST saves last, did not know of it.
BooksBalance ==
    ~books.overlap /\ ~books.failedAck /\ ~books.relative /\ ~books.inPost =>
        row.bonus + Cardinality(BonusLinks) + Cardinality(Refunding)
            = Cardinality(Acknowledged)

\* Rows and copies stay of their types: no bonus link is spent that is not there,
\* and the books balance.
QuotaInv == TypeOK /\ BooksBalance

\* What the user may have in personal links, as far as Perma knows.
Allowance ==
    IF ~row.in_trial /\ ~row.nonpaying /\ ~Active(row.status)
    THEN DefaultLimit ELSE LimitOf(row)

Created(l) == link[l].place = "none" /\ link'[l].place = "personal"

\* Without overlapping requests and failed acknowledgments, POST creates a personal
\* link beyond the allowance only by spending a bonus link, through outages, lapses
\* and deals (the checks before and inside POST's transaction).
QuotaKept ==
    [][\A l \in Links :
          Created(l) /\ ~link'[l].bonus /\ ~books.overlap /\ ~books.failedAck
             => Cardinality(PlainLinks) < Allowance]_vars

\* However requests interleave, a bonus link is paid for with exactly one of the
\* bonus links the row holds (select_for_update in POST), unless an acknowledgment
\* failed.
BonusLinkCostsOne ==
    [][\A l \in Links :
          Created(l) /\ link'[l].bonus /\ ~books.failedAck
             => row'.bonus = row.bonus - 1]_vars

\* While a downgrade is pending, Perma's tier is the one the user still has
\* (get_subscription leaves it alone because it "already holds the current tier"),
\* unless requests overlapped.
PendingTierIsCurrent ==
    ~books.overlap /\ sub.pending # NoTier => row.tier = sub.tier

\* A purchase of a customer who has left the trial is acknowledged by a transaction
\* that credits it, through calls that fail and credits that are rolled back (the
\* periodic sync), with one exception: Payments recorded an acknowledgment whose
\* answer did not arrive, and the purchase is lost (credit_for_purchased_links).
\* Whether the credit then stays on the row is BooksBalance's concern.
PurchaseCredited ==
    \A p \in Purchases :
        purchase[p] = "due" /\ ~row.in_trial
            ~> purchase[p] = "acknowledged" \/ purchase[p] = "lost"

=============================================================================
