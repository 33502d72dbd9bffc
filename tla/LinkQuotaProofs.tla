-------------------------- MODULE LinkQuotaProofs --------------------------
(***************************************************************************)
(* Theorems about LinkQuota, for any web workers, links, purchases and     *)
(* tiers.                                                                  *)
(*                                                                         *)
(* The lock of select_for_update keeps POST's own copy of the user true to *)
(* the row, however requests interleave.  While no two requests overlap,   *)
(* the copy of the only one at work agrees with the row as well, and the   *)
(* books balance.                                                          *)
(***************************************************************************)
EXTENDS LinkQuota, FiniteSetTheorems, TLAPS

----------------------------------------------------------------------------
(* The inductive invariant.                                                *)

\* What a copy has of the row besides its bonus links and frozen, as far as
\* get_links_remaining asks for it.
SameUser(copy) ==
    /\ copy.in_trial = row.in_trial /\ copy.nonpaying = row.nonpaying
    /\ copy.status = row.status /\ copy.tier = row.tier

Posting == {"check", "lock", "locked"}

\* What a worker has, for what it does next.
Fit(r) ==
    /\ at[r] = "idle" => job[r] = NoJob /\ reply[r] = NoReply /\ known[r] = "unknown"
    /\ at[r] \in Posting => /\ job[r].kind = "post" /\ job[r].link \in Links
                            /\ job[r].dest \in {"personal", "elsewhere"}
    /\ at[r] = "move" => /\ job[r].kind \in {"move", "patch", "delete"}
                         /\ job[r].link \in Links /\ link[job[r].link].place # "none"
                         /\ job[r].kind # "delete" => job[r].dest \in {"personal", "elsewhere"}
    /\ at[r] = "refund" => job[r].kind = "delete"
    /\ at[r] \in {"page", "offer"} => job[r].kind \in {"page", "sync"}
    /\ at[r] = "answer" => job[r].kind \in {"move", "page", "sync"}
    /\ IF me[r].bonus.rel THEN me[r].bonus.n >= 1 /\ at[r] = "answer" /\ job[r].kind = "move"
       ELSE me[r].bonus.n >= 0
    /\ ~own[r].bonus.rel /\ own[r].bonus.n >= 0
    /\ reply[r].phase = "credit" => at[r] \in {"page", "check", "locked", "answer"}
    /\ reply[r].phase = "credit" /\ at[r] = "locked" => MaySpend(r)
    /\ reply[r].sub.status = "none" => reply[r].sub = NoSub
    /\ reply[r].sub # NoSub => sub # NoSub

\* Only the worker in POST's transaction has the lock, and its own copy is the row.
Holding(r) ==
    /\ lock = r <=> at[r] = "locked"
    /\ at[r] = "locked" => SameUser(own[r])
    /\ at[r] = "locked" /\ ~books.failedAck => own[r].bonus.n = row.bonus

\* What the only worker that is busy knows.
Current(r) ==
    /\ at[r] # "locked" => SameUser(me[r])
    /\ \A p \in reply[r].due : purchase[p] = "due"
    /\ at[r] \in Posting => link[job[r].link].place = "none"
    /\ at[r] = "move" => link[job[r].link].place # "deleted"
    /\ at[r] = "move" /\ job[r].kind = "move" => job[r].bonus = link[job[r].link].bonus
    /\ reply[r].phase = "credit" =>
         /\ sub.pending # NoTier => reply[r].sub.pending # NoTier
         /\ reply[r].sub = NoSub => ~Active(row.status)
    /\ job[r].kind = "page" /\ at[r] \in {"answer", "offer"} /\ reply[r].phase = "none" =>
         reply[r].sub = NoSub \/ reply[r].sub.pending # NoTier \/ row.tier = reply[r].sub.tier
    /\ at[r] = "offer" => reply[r].phase = "none" /\ job[r].kind = "page"
    /\ at[r] \in {"check", "locked"} /\ known[r] # "unknown" =>
         (known[r] = "active" <=> Active(row.status))

\* The bonus links it knows of, and what POST's checks before its transaction saw.
Counts(r) ==
    /\ at[r] # "locked" /\ ~me[r].bonus.rel => me[r].bonus.n = row.bonus
    /\ at[r] = "locked" /\ ~books.inPost => me[r].bonus.n = row.bonus
    /\ at[r] \in {"lock", "locked"} /\ job[r].dest = "personal" =>
         Cardinality(PlainLinks) < Allowance \/ row.bonus > 0

Alone == \A p, q \in Workers : at[p] # "idle" /\ at[q] # "idle" => p = q

\* Links that are not created are not bonus links; Payments keeps a subscription it
\* has, and Perma knows of none before.
Tables ==
    /\ \A l \in Links : link[l].place = "none" => ~link[l].bonus
    /\ sub.status = "none" => sub = NoSub
    /\ sub = NoSub => ~Active(row.status)

Inv ==
    /\ TypeOK
    /\ Tables
    /\ \A r \in Workers : Fit(r) /\ Holding(r)
    /\ ~books.overlap => Alone /\ \A r \in Workers : at[r] # "idle" => Current(r)
    /\ ~books.overlap /\ ~books.failedAck => \A r \in Workers : at[r] # "idle" => Counts(r)
    /\ BooksBalance
    /\ PendingTierIsCurrent

----------------------------------------------------------------------------
(* Types.                                                                  *)

LEMMA CopyTyped ==
    ASSUME NEW u \in User
    PROVE  /\ CopyOf(u) \in Copy
           /\ ~CopyOf(u).bonus.rel /\ CopyOf(u).bonus.n = u.bonus
           /\ CopyOf(u).in_trial = u.in_trial /\ CopyOf(u).nonpaying = u.nonpaying
           /\ CopyOf(u).status = u.status /\ CopyOf(u).tier = u.tier
  BY DEF CopyOf, Number, User, Copy, Bonus

LEMMA NothingTyped ==
    /\ NoCopy \in Copy /\ ~NoCopy.bonus.rel /\ NoCopy.bonus.n = 0
    /\ NoJob \in Job
    /\ NoSub \in Sub /\ NoSub.status = "none" /\ NoSub.tier = NoTier /\ NoSub.pending = NoTier
    /\ NoReply \in Reply /\ NoReply.phase = "none" /\ NoReply.sub = NoSub /\ NoReply.due = {}
  BY DEF NoCopy, Number, Copy, Bonus, Tier, NoJob, Job, Kind, Place, NoSub, Sub, NoReply, Reply,
         Consult

\* Adding a number to bonus_links, and writing the result.
LEMMA PlusTyped ==
    ASSUME NEW b \in Bonus, NEW n \in Int, NEW stored \in Int
    PROVE  /\ Plus(b, n) \in Bonus
           /\ Plus(b, n).rel = b.rel /\ Plus(b, n).n = b.n + n
           /\ Written(b, stored) \in Int
           /\ b.rel => Written(b, stored) = stored + b.n
           /\ ~b.rel => Written(b, stored) = b.n
  BY DEF Bonus, Plus, Written

LEMMA Parts ==
    ASSUME Inv, NEW r \in Workers
    PROVE  /\ TypeOK /\ Tables
           /\ row \in User /\ row.bonus \in Nat /\ row.status \in {"none", "Current", "Hold"}
           /\ row.tier \in Tier /\ row.in_trial \in BOOLEAN /\ row.nonpaying \in BOOLEAN
           /\ me[r] \in Copy /\ me[r].bonus \in Bonus /\ own[r] \in Copy /\ own[r].bonus \in Bonus
           /\ me[r].bonus.rel \in BOOLEAN /\ me[r].bonus.n \in Int
           /\ own[r].bonus.rel \in BOOLEAN /\ own[r].bonus.n \in Int
           /\ job[r] \in Job /\ reply[r] \in Reply
           /\ reply[r].sub \in Sub /\ reply[r].due \subseteq Purchases /\ sub \in Sub
           /\ at[r] \in Stage /\ books \in Books /\ link \in [Links -> LinkRow]
           /\ Fit(r) /\ Holding(r)
  <1>1. TypeOK /\ Tables /\ Fit(r) /\ Holding(r)
    BY DEF Inv
  <1>2. row \in User /\ row.bonus >= 0 /\ me[r] \in Copy /\ own[r] \in Copy /\ reply[r] \in Reply
    BY <1>1 DEF TypeOK
  <1>3. /\ row.bonus \in Nat /\ row.status \in {"none", "Current", "Hold"} /\ row.tier \in Tier
        /\ row.in_trial \in BOOLEAN /\ row.nonpaying \in BOOLEAN
    BY <1>2 DEF User
  <1>4. me[r].bonus \in Bonus /\ own[r].bonus \in Bonus
    BY <1>2 DEF Copy
  <1>5. /\ me[r].bonus.rel \in BOOLEAN /\ me[r].bonus.n \in Int
        /\ own[r].bonus.rel \in BOOLEAN /\ own[r].bonus.n \in Int
    BY <1>4 DEF Bonus
  <1>6. reply[r].sub \in Sub /\ reply[r].due \subseteq Purchases
    BY <1>2 DEF Reply
  <1> QED
    BY <1>1, <1>2, <1>3, <1>4, <1>5, <1>6 DEF TypeOK

\* A worker whose own state a step leaves alone.
Kept(q) ==
    /\ at'[q] = at[q] /\ job'[q] = job[q] /\ me'[q] = me[q] /\ own'[q] = own[q]
    /\ reply'[q] = reply[q] /\ known'[q] = known[q]

\* What get_links_remaining reads of the row, and its bonus links, stay.
SameRow ==
    /\ row'.bonus = row.bonus
    /\ row'.in_trial = row.in_trial /\ row'.nonpaying = row.nonpaying
    /\ row'.status = row.status /\ row'.tier = row.tier

LEMMA KeptFits ==
    ASSUME Inv, NEW q \in Workers, Kept(q),
           \A l \in Links : link[l].place # "none" => link'[l].place # "none",
           sub # NoSub => sub' # NoSub
    PROVE  Fit(q)'
  BY Parts DEF Kept, Fit, MaySpend

LEMMA KeptHolds ==
    ASSUME Inv, NEW q \in Workers, Kept(q), lock = q <=> lock' = q,
           lock = q => SameRow, books.failedAck => books'.failedAck
    PROVE  Holding(q)'
  BY Parts DEF Kept, Holding, SameUser, SameRow

\* A step of one worker, which others have not overlapped with unless it says so.
LEMMA WorkerStep ==
    ASSUME Inv, NEW r \in Workers, TypeOK', Tables',
           \A q \in Workers \ {r} : Kept(q) /\ (lock = q <=> lock' = q),
           \A l \in Links : link[l].place # "none" => link'[l].place # "none",
           sub # NoSub => sub' # NoSub,
           lock \in {NoRequest, r} \/ SameRow,
           books.failedAck => books'.failedAck, books.overlap => books'.overlap,
           ~books'.overlap => \A q \in Workers \ {r} : at[q] = "idle",
           Fit(r)', Holding(r)',
           ~books'.overlap /\ at'[r] # "idle" => Current(r)',
           ~books'.overlap /\ ~books'.failedAck /\ at'[r] # "idle" => Counts(r)',
           BooksBalance', PendingTierIsCurrent'
    PROVE  Inv'
  <1>1. ASSUME NEW q \in Workers \ {r} PROVE Fit(q)' /\ Holding(q)'
    <2>1. q # NoRequest
      BY QuotaAssumption
    <2>2. lock = q => SameRow
      BY <2>1
    <2> QED
      BY <2>2, KeptFits, KeptHolds
  <1>2. \A q \in Workers : Fit(q)' /\ Holding(q)'
    BY <1>1
  <1>3. ~books'.overlap => \A q \in Workers \ {r} : at'[q] = "idle"
    BY DEF Kept
  <1>4. ~books'.overlap => Alone'
    BY <1>3 DEF Alone
  <1>5. ~books'.overlap => \A q \in Workers : at'[q] # "idle" => Current(q)'
    BY <1>3
  <1>6. ~books'.overlap /\ ~books'.failedAck => \A q \in Workers : at'[q] # "idle" => Counts(q)'
    BY <1>3
  <1> QED
    BY <1>2, <1>4, <1>5, <1>6 DEF Inv

\* Whoever is at work while nothing has overlapped is the only one.
LEMMA OnlyOne ==
    ASSUME Inv, NEW r \in Workers, at[r] # "idle", ~books.overlap
    PROVE  \A q \in Workers \ {r} : at[q] = "idle"
  BY DEF Inv, Alone

----------------------------------------------------------------------------
(* The books.                                                              *)

LEMMA Finite ==
    /\ IsFiniteSet(BonusLinks) /\ IsFiniteSet(PlainLinks) /\ IsFiniteSet(Acknowledged)
    /\ Cardinality(BonusLinks) \in Nat /\ Cardinality(PlainLinks) \in Nat
    /\ Cardinality(Acknowledged) \in Nat
  <1>1. BonusLinks \subseteq Links /\ PlainLinks \subseteq Links /\ Acknowledged \subseteq Purchases
    BY DEF BonusLinks, PlainLinks, Acknowledged
  <1>2. IsFiniteSet(BonusLinks) /\ IsFiniteSet(PlainLinks) /\ IsFiniteSet(Acknowledged)
    BY <1>1, QuotaAssumption, FS_Subset
  <1> QED
    BY <1>2, FS_CardinalityType

\* The only worker may be giving a bonus link back.
LEMMA RefundingOf ==
    ASSUME NEW r \in Workers, \A q \in Workers \ {r} : at[q] = "idle"
    PROVE  Cardinality(Refunding) = IF at[r] = "refund" THEN 1 ELSE 0
  <1>1. Refunding = IF at[r] = "refund" THEN {r} ELSE {}
    BY DEF Refunding
  <1> QED
    BY <1>1, FS_EmptySet, FS_Singleton

\* The books before and after a step of the only worker.
LEMMA BooksStep ==
    ASSUME Inv, NEW r \in Workers, at[r] # "idle",
           \A q \in Workers \ {r} : Kept(q),
           books.overlap => books'.overlap, books.failedAck => books'.failedAck,
           books.relative => books'.relative, books.inPost => books'.inPost,
           ~books'.overlap /\ ~books'.failedAck /\ ~books'.relative /\ ~books'.inPost =>
             row'.bonus + Cardinality(BonusLinks)' + (IF at'[r] = "refund" THEN 1 ELSE 0)
                + Cardinality(Acknowledged)
               = row.bonus + Cardinality(BonusLinks) + (IF at[r] = "refund" THEN 1 ELSE 0)
                + Cardinality(Acknowledged)',
           row'.bonus \in Nat
    PROVE  BooksBalance'
  <1> SUFFICES ASSUME ~books'.overlap, ~books'.failedAck, ~books'.relative, ~books'.inPost
               PROVE  row'.bonus + Cardinality(BonusLinks)' + Cardinality(Refunding)'
                        = Cardinality(Acknowledged)'
    BY DEF BooksBalance
  <1>1. \A q \in Workers \ {r} : at[q] = "idle" /\ at'[q] = "idle"
    BY OnlyOne DEF Kept
  <1>2. /\ Cardinality(Refunding) = IF at[r] = "refund" THEN 1 ELSE 0
        /\ Cardinality(Refunding)' = IF at'[r] = "refund" THEN 1 ELSE 0
    <2>1. Cardinality(Refunding) = IF at[r] = "refund" THEN 1 ELSE 0
      BY <1>1, RefundingOf
    <2>2. Refunding' = IF at'[r] = "refund" THEN {r} ELSE {}
      BY <1>1 DEF Refunding
    <2> QED
      BY <2>1, <2>2, FS_EmptySet, FS_Singleton
  <1>3. row.bonus + Cardinality(BonusLinks) + Cardinality(Refunding) = Cardinality(Acknowledged)
    BY DEF Inv, BooksBalance
  <1>4. /\ Cardinality(BonusLinks) \in Nat /\ Cardinality(Acknowledged) \in Nat
        /\ Cardinality(BonusLinks)' \in Nat /\ Cardinality(Acknowledged)' \in Nat
    <2>1. BonusLinks' \subseteq Links /\ Acknowledged' \subseteq Purchases
      BY DEF BonusLinks, Acknowledged
    <2>2. IsFiniteSet(BonusLinks') /\ IsFiniteSet(Acknowledged')
      BY <2>1, QuotaAssumption, FS_Subset
    <2> QED
      BY <2>2, Finite, FS_CardinalityType
  <1>5. row.bonus \in Nat /\ Cardinality(Refunding) \in Nat /\ Cardinality(Refunding)' \in Nat
    BY <1>2, Parts
  <1>6. row'.bonus + Cardinality(BonusLinks)' + Cardinality(Refunding)'
          + Cardinality(Acknowledged)
         = row.bonus + Cardinality(BonusLinks) + Cardinality(Refunding)
          + Cardinality(Acknowledged)'
    BY <1>2
  <1> DEFINE before == row.bonus + Cardinality(BonusLinks) + Cardinality(Refunding)
             after == row'.bonus + Cardinality(BonusLinks)' + Cardinality(Refunding)'
  <1>7. /\ before \in Nat /\ after \in Nat /\ before = Cardinality(Acknowledged)
        /\ after + Cardinality(Acknowledged) = before + Cardinality(Acknowledged)'
    BY <1>3, <1>4, <1>5, <1>6
  <1>8. SUFFICES after = Cardinality(Acknowledged)'
    OBVIOUS
  <1> HIDE DEF before, after
  <1> QED
    BY <1>4, <1>7

\* One link becomes a bonus link, or stops being one.
LEMMA OneLink ==
    ASSUME NEW S \in SUBSET Links, NEW T \in SUBSET Links, NEW l \in Links
    PROVE  /\ l \notin S /\ T = S \cup {l} => Cardinality(T) = Cardinality(S) + 1
           /\ l \in S /\ T = S \ {l} => Cardinality(T) = Cardinality(S) - 1
  <1>1. IsFiniteSet(S)
    BY QuotaAssumption, FS_Subset
  <1> QED
    BY <1>1, FS_AddElement, FS_RemoveElement

----------------------------------------------------------------------------
(* Requests that end.                                                      *)

LEMMA FinishKept ==
    ASSUME Inv, NEW r \in Workers, Finish(r)
    PROVE  /\ at' \in [Workers -> Stage] /\ job' \in [Workers -> Job]
           /\ me' \in [Workers -> Copy] /\ own' \in [Workers -> Copy]
           /\ reply' \in [Workers -> Reply]
           /\ known' \in [Workers -> {"unknown", "active", "inactive"}]
           /\ at'[r] = "idle"
           /\ \A q \in Workers \ {r} : Kept(q)
           /\ Fit(r)'
           /\ lock' # r => Holding(r)'
  <1>1. TypeOK
    BY Parts
  <1>2. /\ at' = [at EXCEPT ![r] = "idle"] /\ job' = [job EXCEPT ![r] = NoJob]
        /\ me' = [me EXCEPT ![r] = NoCopy] /\ own' = [own EXCEPT ![r] = NoCopy]
        /\ reply' = [reply EXCEPT ![r] = NoReply] /\ known' = [known EXCEPT ![r] = "unknown"]
    BY DEF Finish, Go
  <1>3. /\ at'[r] = "idle" /\ job'[r] = NoJob /\ me'[r] = NoCopy /\ own'[r] = NoCopy
        /\ reply'[r] = NoReply /\ known'[r] = "unknown"
    BY <1>1, <1>2 DEF TypeOK
  <1>4. /\ at' \in [Workers -> Stage] /\ job' \in [Workers -> Job]
        /\ me' \in [Workers -> Copy] /\ own' \in [Workers -> Copy]
        /\ reply' \in [Workers -> Reply]
        /\ known' \in [Workers -> {"unknown", "active", "inactive"}]
    BY <1>1, <1>2, NothingTyped DEF TypeOK, Stage
  <1>5. \A q \in Workers \ {r} : Kept(q)
    BY <1>1, <1>2 DEF TypeOK, Kept
  <1>6. Fit(r)'
    BY <1>3, NothingTyped DEF Fit, Posting
  <1>7. lock' # r => Holding(r)'
    BY <1>3 DEF Holding
  <1> QED
    BY <1>3, <1>4, <1>5, <1>6, <1>7

\* The types of what is not a worker's own.
SharedTyped ==
    /\ row \in User /\ row.bonus >= 0
    /\ lock \in Workers \cup {NoRequest}
    /\ link \in [Links -> LinkRow]
    /\ purchase \in [Purchases -> {"unbought", "due", "acknowledged", "lost"}]
    /\ sub \in Sub /\ books \in Books
    /\ outages \in 0..MaxOutages /\ deals \in 0..MaxDeals

LEMMA FinishStep ==
    ASSUME Inv, NEW r \in Workers, at[r] # "idle", Finish(r), SharedTyped', Tables',
           \A q \in Workers \ {r} : lock = q <=> lock' = q, lock' # r,
           \A l \in Links : link[l].place # "none" => link'[l].place # "none",
           sub # NoSub => sub' # NoSub,
           lock \in {NoRequest, r} \/ SameRow, books' = books,
           BooksBalance', PendingTierIsCurrent'
    PROVE  Inv'
  <1>1. TypeOK'
    BY FinishKept DEF SharedTyped, TypeOK
  <1>2. /\ at'[r] = "idle" /\ \A q \in Workers \ {r} : Kept(q)
        /\ Fit(r)' /\ Holding(r)'
    BY FinishKept
  <1>3. ~books.overlap => \A q \in Workers \ {r} : at[q] = "idle"
    BY OnlyOne
  <1> QED
    BY <1>1, <1>2, <1>3, WorkerStep

\* One that ends without a change.
LEMMA QuietFinish ==
    ASSUME Inv, NEW r \in Workers, at[r] \notin {"idle", "locked", "refund"}, Finish(r),
           UNCHANGED <<row, lock, link, purchase, sub, books, deals>>, outages' \in 0..MaxOutages
    PROVE  Inv'
  <1>1. TypeOK /\ Tables /\ Holding(r)
    BY Parts
  <1>2. SharedTyped' /\ Tables' /\ lock' # r /\ SameRow
    BY <1>1 DEF TypeOK, SharedTyped, Tables, Holding, SameRow
  <1>3. PendingTierIsCurrent'
    BY DEF Inv, PendingTierIsCurrent
  <1>4. /\ BonusLinks' = BonusLinks /\ Acknowledged' = Acknowledged
        /\ at'[r] = "idle" /\ \A q \in Workers \ {r} : Kept(q)
    BY FinishKept DEF BonusLinks, Acknowledged
  <1>5. BooksBalance'
    BY <1>4, BooksStep, Parts
  <1> QED
    BY <1>2, <1>3, <1>5, FinishStep

LEMMA EndsStep ==
    ASSUME Inv, NEW r \in Workers,
           \/ Refuse(r) \/ NotFound(r) \/ Leave(r)
           \/ Answer(r) /\ job[r].kind # "page"
    PROVE  Inv'
  <1>1. outages' = outages /\ outages' \in 0..MaxOutages
    BY Parts DEF Refuse, NotFound, Leave, Answer, TypeOK
  <1> QED
    BY <1>1, QuietFinish DEF Refuse, NotFound, Leave, Answer

----------------------------------------------------------------------------
(* POST.                                                                   *)

\* While nothing overlaps, the limit a copy has is what the row allows.
LEMMA LimitIsAllowance ==
    ASSUME Inv, NEW r \in Workers, at[r] \in {"check", "locked"}, Current(r),
           SameUser(Using(r)), ~MustAsk(r)
    PROVE  Limit(r) = Allowance
  BY DEF Limit, Allowance, LimitOf, SameUser, MustAsk, Current

LEMMA LimitTyped ==
    ASSUME Inv, NEW r \in Workers
    PROVE  Limit(r) \in Nat /\ Allowance \in Nat
           /\ (Remaining(r) > 0 <=> Cardinality(PlainLinks) < Limit(r))
  <1>1. Using(r).tier \in Tier /\ row.tier \in Tier
    BY Parts DEF Using, Copy
  <1>2. \A t \in Tier : t # NoTier => t.limit \in Nat
    BY QuotaAssumption DEF Tier
  <1>3. Limit(r) \in Nat /\ Allowance \in Nat
    BY <1>1, <1>2, QuotaAssumption DEF Limit, Allowance, LimitOf
  <1> QED
    BY <1>3, Finite DEF Remaining

LEMMA AdmitStep ==
    ASSUME Inv, NEW r \in Workers, Admit(r)
    PROVE  Inv'
  <1>1. /\ at[r] = "check" /\ Ready(r) /\ LinkCreationAllowed(r)
        /\ at' = [at EXCEPT ![r] = "lock"]
        /\ UNCHANGED <<row, lock, link, purchase, sub, job, me, own, reply, known, books,
                       outages, deals>>
    BY DEF Admit, Go
  <1>2. /\ at' \in [Workers -> Stage] /\ at'[r] = "lock"
        /\ \A q \in Workers \ {r} : Kept(q)
    BY <1>1, Parts DEF TypeOK, Stage, Kept
  <1>3. TypeOK' /\ Tables' /\ SameRow
    BY <1>1, <1>2, Parts DEF TypeOK, Tables, SameRow
  <1>4. Fit(r)' /\ Holding(r)'
    BY <1>1, <1>2, Parts DEF Fit, Holding, Posting, MaySpend, Ready
  <1>5. ~books'.overlap => Current(r)'
    BY <1>1, <1>2, Parts DEF Inv, Current, SameUser, Posting, Ready
  <1>6. ~books'.overlap /\ ~books'.failedAck => Counts(r)'
    <2> SUFFICES ASSUME ~books.overlap, ~books.failedAck PROVE Counts(r)'
      BY <1>1
    <2>1. Current(r) /\ Counts(r) /\ Using(r) = me[r] /\ ~me[r].bonus.rel
      BY <1>1, Parts DEF Inv, Using, Fit
    <2>2. Cardinality(PlainLinks) < Allowance \/ row.bonus > 0
      <3>1. Limit(r) = Allowance
        BY <1>1, <2>1, LimitIsAllowance DEF Current, Ready
      <3>2. CASE Remaining(r) > 0
        BY <3>1, <3>2, LimitTyped
      <3>3. CASE me[r].bonus.n > 0
        BY <1>1, <2>1, <3>3 DEF Counts
      <3> QED
        BY <1>1, <2>1, <3>2, <3>3 DEF LinkCreationAllowed, HasBonus
    <2>3. (Cardinality(PlainLinks) < Allowance)' <=> Cardinality(PlainLinks) < Allowance
      BY <1>1 DEF PlainLinks, Allowance, LimitOf, Active
    <2> QED
      BY <1>1, <1>2, <2>1, <2>2, <2>3 DEF Counts
  <1>7. BooksBalance' /\ PendingTierIsCurrent'
    <2>1. BonusLinks' = BonusLinks /\ Acknowledged' = Acknowledged
      BY <1>1 DEF BonusLinks, Acknowledged
    <2> QED
      BY <1>1, <1>2, <2>1, BooksStep, Parts DEF Inv, PendingTierIsCurrent
  <1> QED
    BY <1>1, <1>2, <1>3, <1>4, <1>5, <1>6, <1>7, OnlyOne, WorkerStep

LEMMA LockStep ==
    ASSUME Inv, NEW r \in Workers, Lock(r)
    PROVE  Inv'
  <1>1. /\ at[r] = "lock" /\ lock = NoRequest /\ lock' = r
        /\ at' = [at EXCEPT ![r] = "locked"] /\ own' = [own EXCEPT ![r] = CopyOf(row)]
        /\ known' = [known EXCEPT ![r] = "unknown"]
        /\ UNCHANGED <<row, link, purchase, sub, job, me, reply, books, outages, deals>>
    BY DEF Lock, Go
  <1>2. /\ at' \in [Workers -> Stage] /\ at'[r] = "locked"
        /\ own' \in [Workers -> Copy] /\ own'[r] = CopyOf(row)
        /\ known' \in [Workers -> {"unknown", "active", "inactive"}] /\ known'[r] = "unknown"
        /\ \A q \in Workers \ {r} : Kept(q)
    BY <1>1, Parts, CopyTyped DEF TypeOK, Stage, Kept
  <1>3. TypeOK' /\ Tables' /\ SameRow
    BY <1>1, <1>2, Parts DEF TypeOK, Tables, SameRow
  <1>4. \A q \in Workers \ {r} : lock = q <=> lock' = q
    BY <1>1, QuotaAssumption
  <1>5. Fit(r)' /\ Holding(r)'
    BY <1>1, <1>2, Parts, CopyTyped DEF Fit, Holding, Posting, SameUser
  <1>6. ~books'.overlap => Current(r)'
    BY <1>1, <1>2, Parts, SMTT(60) DEF Inv, Current, Posting, Fit
  <1>7. ~books'.overlap /\ ~books'.failedAck => Counts(r)'
    <2>1. (Cardinality(PlainLinks) < Allowance)' <=> Cardinality(PlainLinks) < Allowance
      BY <1>1 DEF PlainLinks, Allowance, LimitOf, Active
    <2>2. ~me[r].bonus.rel
      BY <1>1, Parts DEF Fit
    <2> QED
      BY <1>1, <1>2, <2>1, <2>2 DEF Inv, Counts
  <1>8. BooksBalance' /\ PendingTierIsCurrent'
    <2>1. BonusLinks' = BonusLinks /\ Acknowledged' = Acknowledged
      BY <1>1 DEF BonusLinks, Acknowledged
    <2> QED
      BY <1>1, <1>2, <2>1, BooksStep, Parts DEF Inv, PendingTierIsCurrent
  <1> QED
    BY <1>1, <1>2, <1>3, <1>4, <1>5, <1>6, <1>7, <1>8, OnlyOne, WorkerStep

LEMMA CreateStep ==
    ASSUME Inv, NEW r \in Workers, Create(r)
    PROVE  /\ Inv'
           /\ SpendsBonus(r) /\ ~books.failedAck => row'.bonus = row.bonus - 1
           /\ ~books.overlap /\ ~books.failedAck /\ job[r].dest = "personal" /\ ~SpendsBonus(r)
                => Cardinality(PlainLinks) < Allowance
  <1> DEFINE spends == SpendsBonus(r)
             mine == IF spends THEN Plus(own[r].bonus, -1) ELSE me[r].bonus
             l == job[r].link
  <1>1. /\ at[r] = "locked" /\ reply[r].phase = "none"
        /\ MaySpend(r) => ~MustAsk(r)
        /\ link' = [link EXCEPT ![l] = [place |-> job[r].dest, bonus |-> spends]]
        /\ row' = [row EXCEPT !.bonus = Written(mine, @)]
        /\ lock' = NoRequest /\ Finish(r)
        /\ UNCHANGED <<purchase, sub, books, outages, deals>>
    BY DEF Create
  <1>2. /\ lock = r /\ l \in Links /\ job[r].dest \in {"personal", "elsewhere"}
        /\ spends \in BOOLEAN
        /\ spends => own[r].bonus.n > 0 /\ job[r].dest = "personal"
        /\ Using(r) = own[r] /\ SameUser(own[r])
    BY <1>1, Parts DEF Fit, Holding, Posting, SpendsBonus, MaySpend, Using
  <1>3. /\ row' \in User /\ row'.bonus \in Nat
        /\ spends => row'.bonus = own[r].bonus.n - 1
        /\ ~spends => row'.bonus = me[r].bonus.n
        /\ row'.tier = row.tier /\ row'.status = row.status
    <2>1. /\ spends => Written(mine, row.bonus) = own[r].bonus.n - 1
          /\ ~spends => Written(mine, row.bonus) = me[r].bonus.n
      BY <1>1, Parts, PlusTyped DEF Fit
    <2>2. Written(mine, row.bonus) \in Nat
      BY <1>1, <1>2, <2>1, Parts DEF Fit
    <2> HIDE DEF mine
    <2> QED
      BY <1>1, <2>1, <2>2, Parts DEF User
  <1>4. /\ link' \in [Links -> LinkRow]
        /\ \A k \in Links : link[k].place # "none" => link'[k].place # "none"
        /\ \A k \in Links : link'[k].place = "none" => link'[k] = link[k]
    BY <1>1, <1>2, Parts DEF LinkRow, Place
  <1>5. SharedTyped' /\ Tables'
    BY <1>1, <1>3, <1>4, Parts DEF SharedTyped, TypeOK, Tables
  <1>6. \A q \in Workers \ {r} : lock = q <=> lock' = q
    BY <1>1, <1>2, QuotaAssumption
  <1>7. lock' # r
    BY <1>1, QuotaAssumption
  <1>8. PendingTierIsCurrent'
    BY <1>1, <1>3 DEF Inv, PendingTierIsCurrent
  <1>9. BooksBalance'
    <2>1. at'[r] = "idle" /\ \A q \in Workers \ {r} : Kept(q)
      BY <1>1, FinishKept
    <2>2. Acknowledged' = Acknowledged
      BY <1>1 DEF Acknowledged
    <2>3. ASSUME ~books.overlap, ~books.failedAck, ~books.inPost
          PROVE  row'.bonus + Cardinality(BonusLinks)' = row.bonus + Cardinality(BonusLinks)
      <3>1. Current(r) /\ Counts(r)
        BY <1>1, <2>3 DEF Inv
      <3>2. me[r].bonus.n = row.bonus /\ own[r].bonus.n = row.bonus
        BY <1>1, <2>3, <3>1, Parts DEF Counts, Holding
      <3>3. link[l].place = "none" /\ ~link[l].bonus
        BY <1>1, <1>2, <3>1, Parts DEF Current, Posting, Tables
      <3>4. CASE spends
        <4>1. BonusLinks' = BonusLinks \cup {l} /\ l \notin BonusLinks
          BY <1>1, <1>2, <3>3, <3>4, Parts DEF BonusLinks
        <4>2. BonusLinks \in SUBSET Links /\ BonusLinks' \in SUBSET Links
          BY DEF BonusLinks
        <4>3. Cardinality(BonusLinks') = Cardinality(BonusLinks) + 1
          BY <1>2, <4>1, <4>2, OneLink
        <4> QED
          BY <1>3, <3>2, <3>4, <4>3, Finite, Parts
      <3>5. CASE ~spends
        <4>1. BonusLinks' = BonusLinks
          BY <1>1, <1>2, <3>3, <3>5, Parts DEF BonusLinks
        <4> QED
          BY <1>3, <3>2, <3>5, <4>1
      <3> QED
        BY <3>4, <3>5
    <2> QED
      BY <1>1, <1>3, <2>1, <2>2, <2>3, BooksStep
  <1>10. Inv'
    BY <1>1, <1>2, <1>3, <1>4, <1>5, <1>6, <1>7, <1>8, <1>9, FinishStep
  <1>11. spends /\ ~books.failedAck => row'.bonus = row.bonus - 1
    BY <1>1, <1>3, Parts DEF Holding
  <1>12. ASSUME ~books.overlap, ~books.failedAck, job[r].dest = "personal", ~spends
         PROVE  Cardinality(PlainLinks) < Allowance
    <2>1. Current(r) /\ Counts(r)
      BY <1>1, <1>12 DEF Inv
    <2>2. own[r].bonus.n = row.bonus
      BY <1>1, <1>12, Parts DEF Holding
    <2>3. CASE ~MaySpend(r)
      BY <1>1, <1>12, <2>1, <2>2, <2>3 DEF MaySpend, Counts
    <2>4. CASE MaySpend(r)
      <3>1. Limit(r) = Allowance
        BY <1>1, <1>2, <2>1, <2>4, LimitIsAllowance
      <3>2. Remaining(r) # 0
        BY <1>12, <2>4 DEF SpendsBonus
      <3>3. Remaining(r) > 0
        BY <3>2, LimitTyped, Finite DEF Remaining
      <3> QED
        BY <3>1, <3>3, LimitTyped
    <2> QED
      BY <2>3, <2>4
  <1> QED
    BY <1>10, <1>11, <1>12

----------------------------------------------------------------------------
(* Moves and deletions.                                                    *)

LEMMA MoveStep ==
    ASSUME Inv, NEW r \in Workers, Move(r)
    PROVE  Inv' /\ \A l \in Links : link[l].place = "none" => link'[l] = link[l]
  <1> DEFINE l == job[r].link
             bonus == IF job[r].kind = "patch" THEN link[l].bonus ELSE job[r].bonus
             refunds == bonus /\ job[r].dest = "elsewhere"
             mine == IF refunds THEN [rel |-> TRUE, n |-> 1] ELSE me[r].bonus
  <1>1. /\ at[r] = "move" /\ job[r].kind \in {"move", "patch"} /\ MayWrite(r)
        /\ link' = [link EXCEPT
              ![l] = [place |-> IF @.place = "deleted" THEN @.place ELSE job[r].dest,
                      bonus |-> bonus /\ ~refunds]]
        /\ row' = [row EXCEPT !.bonus = Written(mine, @)]
        /\ IF job[r].kind = "patch"
           THEN Finish(r)
           ELSE /\ me' = [me EXCEPT ![r].bonus = mine]
                /\ at' = [at EXCEPT ![r] = "answer"]
                /\ UNCHANGED <<job, own, reply, known>>
        /\ UNCHANGED <<lock, purchase, sub, books, outages, deals>>
    BY DEF Move, Go
  <1>2. /\ lock = NoRequest /\ l \in Links /\ link[l].place # "none"
        /\ job[r].dest \in {"personal", "elsewhere"}
        /\ ~me[r].bonus.rel /\ me[r].bonus.n \in Nat
        /\ bonus \in BOOLEAN
    BY <1>1, Parts DEF Fit, Holding, MayWrite, Job, LinkRow
  <1>3. /\ mine \in Bonus
        /\ refunds => mine.rel /\ mine.n = 1 /\ Written(mine, row.bonus) = row.bonus + 1
        /\ ~refunds => mine = me[r].bonus /\ Written(mine, row.bonus) = me[r].bonus.n
    BY <1>2, Parts DEF Bonus, Written
  <1>4. /\ row' \in User /\ row'.bonus \in Nat
        /\ refunds => row'.bonus = row.bonus + 1
        /\ ~refunds => row'.bonus = me[r].bonus.n
        /\ row'.tier = row.tier /\ row'.status = row.status
        /\ row'.in_trial = row.in_trial /\ row'.nonpaying = row.nonpaying
    <2>1. Written(mine, row.bonus) \in Nat
      BY <1>2, <1>3, Parts
    <2> HIDE DEF mine, refunds
    <2> QED
      BY <1>1, <1>3, <2>1, Parts DEF User
  <1>5. /\ link' \in [Links -> LinkRow]
        /\ \A k \in Links : link[k].place # "none" => link'[k].place # "none"
        /\ \A k \in Links : link[k].place = "none" => link'[k] = link[k]
        /\ \A k \in Links : link'[k].place = "none" => link'[k] = link[k]
    BY <1>1, <1>2, Parts DEF LinkRow, Place
  <1>6. SharedTyped' /\ Tables'
    <2>1. UNCHANGED <<lock, purchase, sub, books, outages, deals>>
      BY <1>1
    <2>2. SharedTyped'
      BY <1>4, <1>5, <2>1, Parts DEF SharedTyped, TypeOK
    <2>3. Tables'
      BY <1>4, <1>5, <2>1, Parts DEF Tables
    <2> QED
      BY <2>2, <2>3
  <1>7. PendingTierIsCurrent'
    BY <1>1, <1>4 DEF Inv, PendingTierIsCurrent
  <1>8. ASSUME ~books.overlap, ~books.failedAck
        PROVE  row'.bonus + Cardinality(BonusLinks)' = row.bonus + Cardinality(BonusLinks)
    <2>1. Current(r) /\ Counts(r)
      BY <1>1, <1>8 DEF Inv
    <2>2. link[l].place # "deleted" /\ bonus = link[l].bonus /\ me[r].bonus.n = row.bonus
      BY <1>1, <1>2, <2>1 DEF Current, Counts
    <2>3. BonusLinks \in SUBSET Links /\ BonusLinks' \in SUBSET Links
      BY DEF BonusLinks
    <2>4. CASE refunds
      <3>1. BonusLinks' = BonusLinks \ {l} /\ l \in BonusLinks
        BY <1>1, <1>2, <2>2, <2>4, Parts DEF BonusLinks
      <3>2. Cardinality(BonusLinks') = Cardinality(BonusLinks) - 1
        BY <1>2, <2>3, <3>1, OneLink
      <3> QED
        BY <1>4, <2>4, <3>2, Finite, Parts
    <2>5. CASE ~refunds
      <3>1. BonusLinks' = BonusLinks
        BY <1>1, <1>2, <2>2, <2>5, Parts DEF BonusLinks
      <3> QED
        BY <1>4, <2>2, <2>5, <3>1
    <2> QED
      BY <2>4, <2>5
  <1>9. Acknowledged' = Acknowledged
    BY <1>1 DEF Acknowledged
  <1>10. CASE job[r].kind = "patch"
    <2>1. Finish(r) /\ at'[r] = "idle" /\ \A q \in Workers \ {r} : Kept(q)
      BY <1>1, <1>10, FinishKept
    <2>2. BooksBalance'
      BY <1>1, <1>4, <1>8, <1>9, <2>1, BooksStep
    <2>3. lock' # r /\ \A q \in Workers \ {r} : lock = q <=> lock' = q
      BY <1>1, <1>2, QuotaAssumption
    <2> QED
      BY <1>1, <1>2, <1>5, <1>6, <1>7, <2>1, <2>2, <2>3, FinishStep
  <1>11. CASE job[r].kind = "move"
    <2>1. me' = [me EXCEPT ![r].bonus = mine] /\ at' = [at EXCEPT ![r] = "answer"]
          /\ UNCHANGED <<job, own, reply, known>>
      BY <1>1, <1>11
    <2>2. /\ me'[r] = [me[r] EXCEPT !.bonus = mine] /\ at'[r] = "answer"
          /\ \A q \in Workers \ {r} : Kept(q)
      BY <2>1, Parts DEF TypeOK, Kept
    <2>3. /\ me'[r] \in Copy /\ me'[r].bonus = mine
          /\ me'[r].in_trial = me[r].in_trial /\ me'[r].nonpaying = me[r].nonpaying
          /\ me'[r].status = me[r].status /\ me'[r].tier = me[r].tier
      BY <1>3, <2>2, Parts DEF Copy
    <2>4. at' \in [Workers -> Stage] /\ me' \in [Workers -> Copy]
      BY <2>1, <2>3, Parts DEF TypeOK, Stage
    <2>5. TypeOK'
      BY <1>1, <1>6, <2>1, <2>4, Parts DEF TypeOK, SharedTyped
    <2>6. Fit(r)' /\ Holding(r)'
      BY <1>1, <1>2, <1>3, <1>11, <2>1, <2>2, <2>3, Parts, SMTT(30)
      DEF Fit, Holding, Posting
    <2>7. ~books'.overlap => Current(r)'
      <3> SUFFICES ASSUME ~books.overlap PROVE Current(r)'
        BY <1>1
      <3>0. Current(r) /\ reply[r].phase # "credit"
        BY <1>1, Parts DEF Inv, Fit
      <3>1. SameUser(me[r])' /\ reply[r].phase # "credit"
        BY <1>1, <1>4, <2>3, <3>0 DEF Current, SameUser
      <3> QED
        BY <1>1, <1>11, <2>1, <2>2, <3>1 DEF Inv, Current, Posting
    <2>8. ~books'.overlap /\ ~books'.failedAck => Counts(r)'
      BY <1>2, <1>3, <1>4, <2>2, <2>3 DEF Counts
    <2>9. BooksBalance'
      BY <1>1, <1>4, <1>8, <1>9, <2>2, BooksStep
    <2> QED
      BY <1>1, <1>2, <1>5, <1>6, <1>7, <2>2, <2>5, <2>6, <2>7, <2>8, <2>9, OnlyOne, WorkerStep
  <1> QED
    BY <1>1, <1>5, <1>10, <1>11

LEMMA DeleteStep ==
    ASSUME Inv, NEW r \in Workers, Delete(r)
    PROVE  Inv' /\ \A l \in Links : link[l].place = "none" => link'[l] = link[l]
  <1> DEFINE l == job[r].link
  <1>1. /\ at[r] = "move" /\ job[r].kind = "delete" /\ link[l].place # "deleted"
        /\ link' = [link EXCEPT ![l].place = "deleted"]
        /\ IF link[l].bonus
           THEN /\ at' = [at EXCEPT ![r] = "refund"]
                /\ me' = [me EXCEPT ![r] = CopyOf(row)]
                /\ UNCHANGED <<job, own, reply, known>>
           ELSE Finish(r)
        /\ UNCHANGED <<row, lock, purchase, sub, books, outages, deals>>
    BY DEF Delete, Go
  <1>2. /\ lock # r /\ l \in Links /\ link[l].place # "none" /\ link[l].bonus \in BOOLEAN
        /\ SameRow /\ row'.bonus \in Nat
    BY <1>1, Parts DEF Fit, Holding, LinkRow, SameRow
  <1>3. /\ link' \in [Links -> LinkRow]
        /\ \A k \in Links : link[k].place # "none" => link'[k].place # "none"
        /\ \A k \in Links : link[k].place = "none" => link'[k] = link[k]
        /\ \A k \in Links : link'[k].place = "none" => link'[k] = link[k]
    BY <1>1, <1>2, Parts DEF LinkRow, Place
  <1>4. SharedTyped' /\ Tables'
    BY <1>1, <1>3, Parts DEF SharedTyped, TypeOK, Tables
  <1>5. PendingTierIsCurrent'
    BY <1>1 DEF Inv, PendingTierIsCurrent
  <1>6. Acknowledged' = Acknowledged
    BY <1>1 DEF Acknowledged
  <1>7. CASE ~link[l].bonus
    <2>1. Finish(r) /\ at'[r] = "idle" /\ \A q \in Workers \ {r} : Kept(q)
      BY <1>1, <1>7, FinishKept
    <2>2. BonusLinks' = BonusLinks
      BY <1>1, <1>2, <1>7, Parts DEF BonusLinks
    <2>3. BooksBalance'
      BY <1>1, <1>2, <1>6, <2>1, <2>2, BooksStep DEF SameRow
    <2> QED
      BY <1>1, <1>2, <1>3, <1>4, <1>5, <2>1, <2>3, FinishStep
  <1>8. CASE link[l].bonus
    <2>1. /\ at' = [at EXCEPT ![r] = "refund"] /\ me' = [me EXCEPT ![r] = CopyOf(row)]
          /\ UNCHANGED <<job, own, reply, known>>
      BY <1>1, <1>8
    <2>2. /\ me'[r] = CopyOf(row) /\ at'[r] = "refund"
          /\ \A q \in Workers \ {r} : Kept(q)
      BY <2>1, Parts DEF TypeOK, Kept
    <2>3. at' \in [Workers -> Stage] /\ me' \in [Workers -> Copy]
      BY <2>1, Parts, CopyTyped DEF TypeOK, Stage
    <2>4. TypeOK'
      BY <1>1, <1>4, <2>1, <2>3, Parts DEF TypeOK, SharedTyped
    <2>5. Fit(r)' /\ Holding(r)'
      BY <1>1, <1>2, <2>1, <2>2, Parts, CopyTyped DEF Fit, Holding, Posting
    <2>6. ~books'.overlap => Current(r)'
      BY <1>1, <2>1, <2>2, Parts, CopyTyped, SMTT(60) DEF Inv, Current, Posting, SameUser, Fit
    <2>7. Counts(r)'
      BY <1>1, <2>1, <2>2, Parts, CopyTyped DEF Counts
    <2>8. BooksBalance'
      <3>1. BonusLinks' = BonusLinks \ {l} /\ l \in BonusLinks
        BY <1>1, <1>2, <1>8, Parts DEF BonusLinks
      <3>2. BonusLinks \in SUBSET Links /\ BonusLinks' \in SUBSET Links
        BY DEF BonusLinks
      <3>3. Cardinality(BonusLinks') = Cardinality(BonusLinks) - 1
        BY <1>2, <3>1, <3>2, OneLink
      <3>4. row'.bonus + Cardinality(BonusLinks)' + 1 = row.bonus + Cardinality(BonusLinks) + 0
        BY <1>1, <3>3, Finite, Parts
      <3> QED
        BY <1>1, <1>2, <1>6, <2>2, <3>4, BooksStep
    <2> QED
      BY <1>1, <1>2, <1>3, <1>4, <1>5, <2>2, <2>4, <2>5, <2>6, <2>7, <2>8, OnlyOne, WorkerStep
  <1> QED
    BY <1>3, <1>7, <1>8

LEMMA RefundStep ==
    ASSUME Inv, NEW r \in Workers, Refund(r)
    PROVE  Inv'
  <1>1. /\ at[r] = "refund" /\ MayWrite(r) /\ Finish(r)
        /\ row' = [row EXCEPT !.bonus = me[r].bonus.n + 1]
        /\ UNCHANGED <<lock, link, purchase, sub, books, outages, deals>>
    BY DEF Refund
  <1>2. lock = NoRequest /\ me[r].bonus.n \in Nat /\ ~me[r].bonus.rel
    BY <1>1, Parts DEF Fit, Holding, MayWrite
  <1>3. /\ row' \in User /\ row'.bonus \in Nat /\ row'.bonus = me[r].bonus.n + 1
        /\ row'.tier = row.tier /\ row'.status = row.status
    <2>1. me[r].bonus.n + 1 \in Nat
      BY <1>2
    <2> QED
      BY <1>1, <2>1, Parts DEF User
  <1>4. SharedTyped' /\ Tables'
    BY <1>1, <1>3, Parts DEF SharedTyped, TypeOK, Tables
  <1>5. PendingTierIsCurrent'
    BY <1>1, <1>3 DEF Inv, PendingTierIsCurrent
  <1>6. BooksBalance'
    <2>1. at'[r] = "idle" /\ \A q \in Workers \ {r} : Kept(q)
      BY <1>1, FinishKept
    <2>2. BonusLinks' = BonusLinks /\ Acknowledged' = Acknowledged
      BY <1>1 DEF BonusLinks, Acknowledged
    <2>3. ~books.overlap /\ ~books.failedAck => row'.bonus = row.bonus + 1
      BY <1>1, <1>2, <1>3 DEF Inv, Counts
    <2>4. ASSUME ~books.overlap, ~books.failedAck
          PROVE  row'.bonus + Cardinality(BonusLinks)' + 0 = row.bonus + Cardinality(BonusLinks) + 1
      BY <2>2, <2>3, <2>4, Finite, Parts
    <2> QED
      BY <1>1, <1>3, <2>1, <2>2, <2>4, BooksStep
  <1>7. lock' # r /\ \A q \in Workers \ {r} : lock = q <=> lock' = q
    BY <1>1, <1>2, QuotaAssumption
  <1> QED
    BY <1>1, <1>2, <1>4, <1>5, <1>6, <1>7, FinishStep

LEMMA OfferStep ==
    ASSUME Inv, NEW r \in Workers, Answer(r), job[r].kind = "page"
    PROVE  Inv'
  <1>1. /\ at[r] = "answer" /\ reply[r].phase = "none"
        /\ at' = [at EXCEPT ![r] = "offer"]
        /\ UNCHANGED <<row, lock, link, purchase, sub, job, me, own, reply, known, books,
                       outages, deals>>
    BY DEF Answer, Go
  <1>2. /\ at' \in [Workers -> Stage] /\ at'[r] = "offer"
        /\ \A q \in Workers \ {r} : Kept(q)
    BY <1>1, Parts DEF TypeOK, Stage, Kept
  <1>3. TypeOK' /\ Tables' /\ SameRow
    BY <1>1, <1>2, Parts DEF TypeOK, Tables, SameRow
  <1>4. Fit(r)' /\ Holding(r)'
    BY <1>1, <1>2, Parts DEF Fit, Holding, Posting
  <1>5. ~books'.overlap => Current(r)'
    BY <1>1, <1>2, Parts DEF Inv, Current, SameUser, Posting
  <1>6. ~books'.overlap /\ ~books'.failedAck => Counts(r)'
    BY <1>1, <1>2 DEF Inv, Counts
  <1>7. BooksBalance' /\ PendingTierIsCurrent'
    <2>1. BonusLinks' = BonusLinks /\ Acknowledged' = Acknowledged
      BY <1>1 DEF BonusLinks, Acknowledged
    <2> QED
      BY <1>1, <1>2, <2>1, BooksStep, Parts DEF Inv, PendingTierIsCurrent
  <1> QED
    BY <1>1, <1>2, <1>3, <1>4, <1>5, <1>6, <1>7, OnlyOne, WorkerStep

----------------------------------------------------------------------------
(* Asking Perma Payments.                                                  *)

\* A step of one worker that changes nothing the books count.
LEMMA SameBooks ==
    ASSUME Inv, NEW r \in Workers, at[r] # "idle", UNCHANGED <<link, books>>,
           purchase' = purchase, row'.bonus = row.bonus,
           at'[r] # "refund", at[r] # "refund",
           \A q \in Workers \ {r} : Kept(q)
    PROVE  BooksBalance'
  <1>1. BonusLinks' = BonusLinks /\ Acknowledged' = Acknowledged
    BY DEF BonusLinks, Acknowledged
  <1> QED
    BY <1>1, BooksStep, Parts

\* What POST saw of its limit stays, while links and the row do.
LEMMA SameLimit ==
    ASSUME UNCHANGED link, SameRow
    PROVE  (Cardinality(PlainLinks) < Allowance)' <=> Cardinality(PlainLinks) < Allowance
  <1>1. PlainLinks' = PlainLinks
    BY DEF PlainLinks
  <1>2. Allowance' = Allowance
    BY DEF Allowance, LimitOf, Active, SameRow
  <1> QED
    BY <1>1, <1>2

LEMMA AskStep ==
    ASSUME Inv, NEW r \in Workers, Ask(r)
    PROVE  Inv'
  <1> DEFINE asked == [phase |-> "credit", due |-> {p \in Purchases : purchase[p] = "due"},
                       sub |-> sub]
  <1>1. /\ MayAsk(r) /\ reply' = [reply EXCEPT ![r] = asked]
        /\ UNCHANGED <<row, lock, link, purchase, sub, at, job, me, own, known, books,
                       outages, deals>>
    BY DEF Ask
  <1>2. /\ at[r] \in {"page", "check", "answer", "locked"}
        /\ at[r] = "locked" => MaySpend(r)
    BY <1>1 DEF MayAsk
  <1>3. /\ asked \in Reply /\ asked.phase = "credit" /\ asked.sub = sub
        /\ \A p \in asked.due : purchase[p] = "due"
    BY Parts DEF Reply, Consult
  <1> HIDE DEF asked
  <1>4. /\ reply' \in [Workers -> Reply] /\ reply'[r] = asked
        /\ \A q \in Workers \ {r} : Kept(q)
    BY <1>1, <1>3, Parts DEF TypeOK, Kept
  <1>5. TypeOK' /\ Tables' /\ SameRow
    BY <1>1, <1>4, Parts DEF TypeOK, Tables, SameRow
  <1>6. Fit(r)' /\ Holding(r)'
    BY <1>1, <1>2, <1>3, <1>4, Parts DEF Fit, Holding, Posting, MaySpend, Tables, SameUser
  <1>7. ~books'.overlap => Current(r)'
    BY <1>1, <1>2, <1>3, <1>4, Parts DEF Inv, Current, SameUser, Posting, Tables
  <1>8. ~books'.overlap /\ ~books'.failedAck => Counts(r)'
    BY <1>1, <1>2, <1>5, SameLimit DEF Inv, Counts
  <1>9. BooksBalance' /\ PendingTierIsCurrent'
    BY <1>1, <1>2, <1>4, SameBooks DEF Inv, PendingTierIsCurrent
  <1> QED
    BY <1>1, <1>2, <1>4, <1>5, <1>6, <1>7, <1>8, <1>9, OnlyOne, WorkerStep

LEMMA AskFailsStep ==
    ASSUME Inv, NEW r \in Workers, AskFails(r)
    PROVE  Inv'
  <1>1. /\ MayAsk(r) /\ outages' \in 0..MaxOutages
        /\ UNCHANGED <<row, lock, link, purchase, sub, books, deals>>
    BY Parts, QuotaAssumption DEF AskFails, TypeOK
  <1>2. at[r] \in {"page", "check", "answer", "locked"}
    BY <1>1 DEF MayAsk
  <1>3. CASE at[r] = "page"
    BY <1>1, <1>3, QuietFinish DEF AskFails
  <1>4. CASE at[r] # "page"
    <2>1. /\ known' = [known EXCEPT ![r] = Knows(Using(r).status)]
          /\ UNCHANGED <<at, job, me, own, reply>>
      BY <1>4 DEF AskFails
    <2>2. /\ known' \in [Workers -> {"unknown", "active", "inactive"}]
          /\ known'[r] = "active" <=> Active(Using(r).status)
          /\ \A q \in Workers \ {r} : Kept(q)
      BY <2>1, Parts DEF TypeOK, Kept, Knows
    <2>3. TypeOK' /\ Tables' /\ SameRow
      BY <1>1, <2>1, <2>2, Parts DEF TypeOK, Tables, SameRow
    <2>4. Fit(r)' /\ Holding(r)'
      BY <1>1, <1>2, <2>1, Parts DEF Fit, Holding, Posting, MaySpend, SameUser
    <2>5. ~books'.overlap => Current(r)'
      <3> SUFFICES ASSUME ~books.overlap PROVE Current(r)'
        BY <1>1
      <3>1. Current(r) /\ SameUser(Using(r))
        BY <1>2, Parts DEF Inv, Current, Using, Holding
      <3>2. known'[r] = "active" <=> Active(row.status)
        BY <2>2, <3>1 DEF SameUser
      <3> QED
        BY <1>1, <2>1, <3>1, <3>2 DEF Current, SameUser, Posting
    <2>6. ~books'.overlap /\ ~books'.failedAck => Counts(r)'
      BY <1>1, <1>2, <2>1, <2>3, SameLimit DEF Inv, Counts
    <2>7. BooksBalance' /\ PendingTierIsCurrent'
      BY <1>1, <1>2, <2>1, <2>2, SameBooks DEF Inv, PendingTierIsCurrent
    <2> QED
      BY <1>1, <1>2, <2>2, <2>3, <2>4, <2>5, <2>6, <2>7, OnlyOne, WorkerStep
  <1> QED
    BY <1>3, <1>4

LEMMA CreditStep ==
    ASSUME Inv, NEW r \in Workers, NEW p \in Purchases, Credit(r, p)
    PROVE  Inv'
  <1>1. PICK sum \in Bonus : sum = Plus(Using(r).bonus, 1)
    <2>1. Using(r).bonus \in Bonus
      BY Parts DEF Using
    <2> QED
      BY <2>1, PlusTyped
  <1>2. /\ sum.rel = Using(r).bonus.rel /\ sum.n = Using(r).bonus.n + 1
        /\ sum.rel => Written(sum, row.bonus) = row.bonus + sum.n
        /\ ~sum.rel => Written(sum, row.bonus) = sum.n
    <2>1. Using(r).bonus \in Bonus /\ row.bonus \in Int
      BY Parts DEF Using
    <2> QED
      BY <1>1, <2>1, PlusTyped, SMTT(30)
  <1>3. /\ reply[r].phase = "credit" /\ p \in reply[r].due /\ MayWrite(r)
        /\ reply' = [reply EXCEPT ![r].due = @ \ {p}]
        /\ IF at[r] = "locked"
           THEN own' = [own EXCEPT ![r].bonus = sum] /\ UNCHANGED me
           ELSE me' = [me EXCEPT ![r].bonus = sum] /\ UNCHANGED own
        /\ UNCHANGED <<lock, link, sub, at, job, known, deals>>
    BY <1>1 DEF Credit, SetBonus
  <1>4. \/ /\ row' = [row EXCEPT !.bonus = Written(sum, @)]
           /\ purchase' = [purchase EXCEPT ![p] = "acknowledged"]
           /\ books' = [books EXCEPT !.relative = @ \/ sum.rel,
                                     !.inPost = @ \/ at[r] = "locked"]
           /\ UNCHANGED outages
        \/ /\ outages' \in 0..MaxOutages
           /\ \/ UNCHANGED purchase
              \/ purchase' = [purchase EXCEPT ![p] = IF @ = "due" THEN "lost" ELSE @]
           /\ books' = [books EXCEPT !.failedAck = TRUE]
           /\ UNCHANGED row
    BY <1>1, Parts, QuotaAssumption DEF Credit, TypeOK
  <1>5. /\ at[r] \in {"page", "check", "locked", "answer"}
        /\ at[r] = "locked" => MaySpend(r) /\ own[r].bonus.n > 0 /\ Using(r) = own[r]
        /\ at[r] # "locked" => Using(r) = me[r]
        /\ lock \in {NoRequest, r}
        /\ IF sum.rel THEN sum.n >= 1 /\ at[r] = "answer" /\ job[r].kind = "move" ELSE sum.n >= 1
        /\ at[r] = "locked" => ~sum.rel
    BY <1>2, <1>3, Parts DEF Fit, MaySpend, Using, MayWrite
  <1>6. /\ books' \in Books
        /\ books'.overlap = books.overlap
        /\ books.failedAck => books'.failedAck
        /\ books.relative => books'.relative
        /\ books.inPost => books'.inPost
    BY <1>4, Parts DEF Books
  <1>7. ~books'.failedAck =>
           /\ ~books.failedAck
           /\ row'.bonus = Written(sum, row.bonus)
           /\ purchase' = [purchase EXCEPT ![p] = "acknowledged"]
           /\ ~books'.relative => ~sum.rel
           /\ ~books'.inPost => at[r] # "locked"
    BY <1>4, <1>5, Parts DEF Books, User
  <1>8. /\ row' \in User /\ row'.bonus \in Nat
        /\ row'.in_trial = row.in_trial /\ row'.nonpaying = row.nonpaying
        /\ row'.status = row.status /\ row'.tier = row.tier
    <2>1. Written(sum, row.bonus) \in Nat
      BY <1>2, <1>5, Parts
    <2> QED
      BY <1>4, <2>1, Parts DEF User
  <1>9. /\ purchase' \in [Purchases -> {"unbought", "due", "acknowledged", "lost"}]
        /\ \A o \in Purchases : o # p => purchase'[o] = purchase[o]
        /\ outages' \in 0..MaxOutages
    BY <1>4, Parts DEF TypeOK
  <1>10. /\ reply'[r] \in Reply /\ reply'[r].due = reply[r].due \ {p}
         /\ reply'[r].phase = "credit" /\ reply'[r].sub = reply[r].sub
         /\ reply' \in [Workers -> Reply]
    <2>1. reply'[r] = [reply[r] EXCEPT !.due = @ \ {p}]
      BY <1>3, Parts DEF TypeOK
    <2>2. /\ reply'[r] \in Reply /\ reply'[r].due = reply[r].due \ {p}
          /\ reply'[r].phase = "credit" /\ reply'[r].sub = reply[r].sub
      BY <1>3, <2>1, Parts DEF Reply
    <2> QED
      BY <1>3, <2>2, Parts DEF TypeOK
  <1>11. /\ me'[r] \in Copy /\ own'[r] \in Copy
         /\ IF at[r] = "locked" THEN own'[r].bonus = sum /\ me'[r] = me[r]
            ELSE me'[r].bonus = sum /\ own'[r] = own[r]
         /\ me'[r].in_trial = me[r].in_trial /\ me'[r].nonpaying = me[r].nonpaying
         /\ me'[r].status = me[r].status /\ me'[r].tier = me[r].tier
         /\ own'[r].in_trial = own[r].in_trial /\ own'[r].nonpaying = own[r].nonpaying
         /\ own'[r].status = own[r].status /\ own'[r].tier = own[r].tier
    <2>1. CASE at[r] = "locked"
      <3>1. own'[r] = [own[r] EXCEPT !.bonus = sum] /\ me'[r] = me[r]
        BY <1>3, <2>1, Parts DEF TypeOK
      <3> QED
        BY <2>1, <3>1, Parts DEF Copy
    <2>2. CASE at[r] # "locked"
      <3>1. me'[r] = [me[r] EXCEPT !.bonus = sum] /\ own'[r] = own[r]
        BY <1>3, <2>2, Parts DEF TypeOK
      <3> QED
        BY <2>2, <3>1, Parts DEF Copy
    <2> QED
      BY <2>1, <2>2
  <1>12. \A q \in Workers \ {r} : Kept(q)
    BY <1>3, Parts DEF TypeOK, Kept
  <1>13. me' \in [Workers -> Copy] /\ own' \in [Workers -> Copy]
    BY <1>3, <1>11, Parts DEF TypeOK
  <1>14. TypeOK' /\ Tables'
    <2>1. TypeOK'
      BY <1>3, <1>6, <1>8, <1>9, <1>10, <1>13, Parts DEF TypeOK
    <2>2. Tables'
      BY <1>3, <1>8, Parts DEF Tables
    <2> QED
      BY <2>1, <2>2
  <1>15. Fit(r)'
    <2>1. Fit(r) /\ me[r].bonus.n \in Int /\ sum.n \in Nat /\ at'[r] = at[r] /\ job'[r] = job[r]
      BY <1>3, <1>5, Parts DEF Bonus
    <2>2. CASE at[r] = "locked"
      <3>1. own'[r].bonus = sum /\ me'[r] = me[r] /\ ~sum.rel /\ sum.n > 0 /\ MaySpend(r)'
        BY <1>5, <1>11, <2>1, <2>2 DEF MaySpend
      <3> QED
        BY <1>3, <1>10, <2>1, <2>2, <3>1 DEF Fit, Posting
    <2>3. CASE at[r] # "locked"
      <3>1. own'[r] = own[r] /\ me'[r].bonus = sum
        BY <1>11, <2>3
      <3> QED
        BY <1>3, <1>5, <1>10, <2>1, <2>3, <3>1 DEF Fit, Posting
    <2> QED
      BY <2>2, <2>3
  <1>16. Holding(r)'
    BY <1>2, <1>3, <1>5, <1>7, <1>8, <1>11, Parts DEF Holding, SameUser
  <1>17. ~books'.overlap => Current(r)'
    <2> SUFFICES ASSUME ~books.overlap PROVE Current(r)'
      BY <1>6
    <2>1. Current(r)
      BY <1>5 DEF Inv
    <2>2. at'[r] # "locked" => SameUser(me[r])'
      BY <1>3, <1>8, <1>11, <2>1 DEF Current, SameUser
    <2>3. \A o \in reply'[r].due : purchase'[o] = "due"
      BY <1>9, <1>10, <2>1, Parts DEF Current
    <2> QED
      BY <1>3, <1>5, <1>8, <1>10, <2>1, <2>2, <2>3 DEF Current, Posting
  <1>18. ~books'.overlap /\ ~books'.failedAck => Counts(r)'
    <2> SUFFICES ASSUME ~books'.failedAck PROVE Counts(r)'
      OBVIOUS
    <2>1. row'.bonus = Written(sum, row.bonus) /\ (~sum.rel => row'.bonus = sum.n) /\ sum.n \in Int
      BY <1>2, <1>7 DEF Bonus
    <2>2. CASE at[r] = "locked"
      <3>1. row'.bonus > 0 /\ books'.inPost
        BY <1>5, <1>7, <2>1, <2>2
      <3> QED
        BY <1>3, <2>2, <3>1 DEF Counts
    <2>3. CASE at[r] # "locked"
      BY <1>3, <1>5, <1>11, <2>1, <2>3 DEF Counts
    <2> QED
      BY <2>2, <2>3
  <1>19. PendingTierIsCurrent'
    BY <1>3, <1>6, <1>8 DEF Inv, PendingTierIsCurrent
  <1>20. BooksBalance'
    <2>1. BonusLinks' = BonusLinks
      BY <1>3 DEF BonusLinks
    <2>2. ASSUME ~books'.overlap, ~books'.failedAck, ~books'.relative, ~books'.inPost
          PROVE  row'.bonus + Cardinality(BonusLinks)' + 0 + Cardinality(Acknowledged)
                   = row.bonus + Cardinality(BonusLinks) + 0 + Cardinality(Acknowledged)'
      <3>1. Current(r) /\ Counts(r)
        BY <1>5, <1>6, <1>7, <2>2 DEF Inv
      <3>2. row'.bonus = row.bonus + 1
        BY <1>2, <1>5, <1>7, <2>2, <3>1 DEF Counts
      <3>3. Acknowledged' = Acknowledged \cup {p} /\ p \notin Acknowledged
        BY <1>3, <1>7, <2>2, <3>1, Parts DEF Acknowledged, Current, TypeOK
      <3>4. Cardinality(Acknowledged') = Cardinality(Acknowledged) + 1
        BY <3>3, Finite, FS_AddElement
      <3> QED
        BY <2>1, <3>2, <3>4, Finite, Parts
    <2> QED
      BY <1>3, <1>5, <1>6, <1>8, <1>12, <2>2, BooksStep
  <1>21. ~books'.overlap => \A q \in Workers \ {r} : at[q] = "idle"
    BY <1>5, <1>6, OnlyOne
  <1> QED
    BY <1>3, <1>5, <1>6, <1>12, <1>14, <1>15, <1>16, <1>17, <1>18, <1>19, <1>20, <1>21, WorkerStep

LEMMA SettleStep ==
    ASSUME Inv, NEW r \in Workers, Settle(r)
    PROVE  Inv'
  <1>1. PICK s \in Sub : s = reply[r].sub
    BY Parts
  <1>2. PICK settled \in User :
           /\ settled = [row EXCEPT !.in_trial = FALSE, !.status = s.status,
                                    !.tier = SettledTier(s, Using(r).tier)]
           /\ settled.bonus = row.bonus /\ settled.nonpaying = row.nonpaying
           /\ settled.in_trial = FALSE /\ settled.status = s.status
           /\ settled.tier = SettledTier(s, Using(r).tier)
    <2> DEFINE u == [row EXCEPT !.in_trial = FALSE, !.status = s.status,
                                !.tier = SettledTier(s, Using(r).tier)]
    <2>1. Using(r).tier \in Tier
      BY Parts DEF Using, Copy
    <2>2. SettledTier(s, Using(r).tier) \in Tier /\ s.status \in {"none", "Current", "Hold"}
      BY <2>1, Parts DEF SettledTier, Sub
    <2>3. /\ u \in User /\ u.bonus = row.bonus /\ u.nonpaying = row.nonpaying
          /\ u.in_trial = FALSE /\ u.status = s.status
          /\ u.tier = SettledTier(s, Using(r).tier)
      BY <2>2, Parts DEF User
    <2> QED
      BY <2>3
  <1>3. /\ reply[r].phase = "credit" /\ reply[r].due = {} /\ MayWrite(r)
        /\ known' = [known EXCEPT ![r] = IF at[r] = "page" THEN @ ELSE Knows(s.status)]
        /\ IF s = NoSub
           THEN UNCHANGED <<row, me, own>>
           ELSE /\ row' = settled
                /\ IF at[r] = "locked"
                   THEN own' = [own EXCEPT ![r] = CopyOf(settled)] /\ UNCHANGED me
                   ELSE me' = [me EXCEPT ![r] = CopyOf(settled)] /\ UNCHANGED own
        /\ reply' = [reply EXCEPT ![r] = IF job[r].kind = "page"
                                          THEN [@ EXCEPT !.phase = "none"] ELSE NoReply]
        /\ at' = [at EXCEPT ![r] = IF at[r] = "page" THEN "answer" ELSE at[r]]
        /\ UNCHANGED <<lock, link, purchase, sub, job, books, outages, deals>>
    BY <1>1, <1>2 DEF Settle, Go
  <1>4. /\ at[r] \in {"page", "check", "locked", "answer"}
        /\ at[r] = "locked" => MaySpend(r) /\ own[r].bonus.n > 0
        /\ lock \in {NoRequest, r}
        /\ at[r] = "page" => job[r].kind \in {"page", "sync"}
        /\ s.status = "none" => s = NoSub
        /\ s # NoSub => sub # NoSub
    BY <1>1, <1>3, Parts DEF Fit, MaySpend, MayWrite
  <1>5. /\ row' \in User /\ row'.bonus = row.bonus /\ row'.nonpaying = row.nonpaying
        /\ s = NoSub => row' = row
        /\ s # NoSub => /\ row'.in_trial = FALSE /\ row'.status = s.status
                        /\ row'.tier = SettledTier(s, Using(r).tier)
    BY <1>2, <1>3, Parts
  <1>6. /\ me'[r] \in Copy /\ own'[r] \in Copy
        /\ me' \in [Workers -> Copy] /\ own' \in [Workers -> Copy]
        /\ at[r] = "locked" => me'[r] = me[r]
        /\ at[r] # "locked" => own'[r] = own[r]
        /\ s = NoSub => me'[r] = me[r] /\ own'[r] = own[r]
        /\ s # NoSub /\ at[r] = "locked" => own'[r] = CopyOf(row')
        /\ s # NoSub /\ at[r] # "locked" => me'[r] = CopyOf(row')
    <2>1. CopyOf(settled) \in Copy
      BY CopyTyped
    <2>2. me \in [Workers -> Copy] /\ own \in [Workers -> Copy]
      BY Parts DEF TypeOK
    <2> QED
      BY <1>3, <2>1, <2>2, SMTT(30)
  <1>7. /\ reply'[r] \in Reply /\ reply' \in [Workers -> Reply]
        /\ reply'[r].phase = "none" /\ reply'[r].due = {}
        /\ reply'[r].sub \in {s, NoSub}
        /\ job[r].kind = "page" => reply'[r].sub = s
    <2>1. reply'[r] = IF job[r].kind = "page" THEN [reply[r] EXCEPT !.phase = "none"] ELSE NoReply
      BY <1>3, Parts DEF TypeOK
    <2>2. /\ reply'[r] \in Reply /\ reply'[r].phase = "none" /\ reply'[r].due = {}
          /\ reply'[r].sub \in {s, NoSub}
          /\ job[r].kind = "page" => reply'[r].sub = s
      BY <1>1, <1>3, <2>1, Parts, NothingTyped DEF Reply, Consult
    <2> QED
      BY <1>3, <2>1, <2>2, Parts DEF TypeOK
  <1>8. /\ at'[r] = IF at[r] = "page" THEN "answer" ELSE at[r]
        /\ at' \in [Workers -> Stage]
        /\ known' \in [Workers -> {"unknown", "active", "inactive"}]
        /\ at[r] # "page" => (known'[r] = "active" <=> Active(s.status))
        /\ \A q \in Workers \ {r} : Kept(q)
    BY <1>3, Parts DEF TypeOK, Stage, Knows, Kept
  <1>9. TypeOK' /\ Tables'
    <2>1. TypeOK'
      BY <1>3, <1>5, <1>6, <1>7, <1>8, Parts DEF TypeOK
    <2>2. Tables'
      BY <1>3, <1>4, <1>5, Parts DEF Tables
    <2> QED
      BY <2>1, <2>2
  <1>10. Fit(r)'
    <2>1. Fit(r) /\ job'[r] = job[r] /\ row'.bonus \in Nat
      BY <1>3, <1>5, Parts
    <2>2. IF me'[r].bonus.rel THEN me'[r].bonus.n >= 1 /\ at[r] = "answer" /\ job[r].kind = "move"
          ELSE me'[r].bonus.n >= 0
      BY <1>4, <1>5, <1>6, <2>1, CopyTyped DEF Fit
    <2>3. ~own'[r].bonus.rel /\ own'[r].bonus.n >= 0
      BY <1>5, <1>6, <2>1, CopyTyped DEF Fit
    <2>4. /\ reply'[r].sub.status = "none" => reply'[r].sub = NoSub
          /\ reply'[r].sub # NoSub => sub' # NoSub
      BY <1>3, <1>4, <1>7, NothingTyped
    <2> QED
      BY <1>3, <1>4, <1>7, <1>8, <2>1, <2>2, <2>3, <2>4 DEF Fit, Posting
  <1>11. Holding(r)'
    BY <1>3, <1>4, <1>5, <1>6, <1>8, Parts, CopyTyped DEF Holding, SameUser
  <1>12. ~books'.overlap => Current(r)'
    <2> SUFFICES ASSUME ~books.overlap PROVE Current(r)'
      BY <1>3
    <2>1. Current(r)
      BY <1>4 DEF Inv
    <2>2. at'[r] # "locked" => SameUser(me[r])'
      BY <1>4, <1>5, <1>6, <1>8, <2>1, CopyTyped DEF Current, SameUser
    <2>3. job'[r].kind = "page" /\ at'[r] \in {"answer", "offer"} /\ reply'[r].phase = "none" =>
            \/ reply'[r].sub = NoSub \/ reply'[r].sub.pending # NoTier
            \/ row'.tier = reply'[r].sub.tier
      BY <1>3, <1>5, <1>7 DEF SettledTier
    <2>4. at'[r] \in {"check", "locked"} /\ known'[r] # "unknown" =>
            (known'[r] = "active" <=> Active(row'.status))
      BY <1>1, <1>3, <1>5, <1>8, <2>1, NothingTyped DEF Current, Active
    <2> QED
      BY <1>3, <1>4, <1>7, <1>8, <2>1, <2>2, <2>3, <2>4 DEF Current, Posting
  <1>13. ~books'.overlap /\ ~books'.failedAck => Counts(r)'
    <2> SUFFICES ASSUME ~books.overlap, ~books.failedAck PROVE Counts(r)'
      BY <1>3
    <2>1. Counts(r)
      BY <1>4 DEF Inv
    <2>2. CASE at[r] = "locked"
      <3>1. row.bonus > 0
        BY <1>4, <2>2, Parts DEF Holding
      <3> QED
        BY <1>3, <1>5, <1>6, <1>8, <2>1, <2>2, <3>1 DEF Counts
    <2>3. CASE at[r] # "locked"
      BY <1>4, <1>5, <1>6, <1>8, <2>1, <2>3, CopyTyped DEF Counts
    <2> QED
      BY <2>2, <2>3
  <1>14. BooksBalance'
    BY <1>3, <1>4, <1>5, <1>8, SameBooks
  <1>15. PendingTierIsCurrent'
    <2> SUFFICES ASSUME ~books.overlap, sub.pending # NoTier PROVE row'.tier = sub.tier
      BY <1>3 DEF PendingTierIsCurrent
    <2>1. s.pending # NoTier /\ row.tier = sub.tier
      BY <1>1, <1>3, <1>4 DEF Inv, Current, PendingTierIsCurrent
    <2>2. Using(r).tier = row.tier
      <3>1. CASE at[r] = "locked"
        BY <3>1, Parts DEF Using, Holding, SameUser
      <3>2. CASE at[r] # "locked"
        BY <1>4, <3>2 DEF Using, Inv, Current, SameUser
      <3> QED
        BY <3>1, <3>2
    <2> QED
      BY <1>5, <2>1, <2>2 DEF SettledTier
  <1>16. ~books'.overlap => \A q \in Workers \ {r} : at[q] = "idle"
    BY <1>3, <1>4, OnlyOne
  <1> QED
    BY <1>3, <1>4, <1>8, <1>9, <1>10, <1>11, <1>12, <1>13, <1>14, <1>15, <1>16, WorkerStep

----------------------------------------------------------------------------
(* Requests that begin.                                                    *)

\* What a request has at its first step.
First(j, stage) ==
    /\ stage \in {"check", "lock", "move", "page"}
    /\ stage \in {"check", "lock"} => /\ j.kind = "post" /\ j.link \in Links
                                      /\ j.dest \in {"personal", "elsewhere"}
                                      /\ link[j.link].place = "none"
    /\ stage = "lock" => j.dest # "personal"
    /\ stage = "move" => /\ j.kind \in {"move", "patch", "delete"} /\ j.link \in Links
                         /\ link[j.link].place \notin {"none", "deleted"}
                         /\ j.kind # "delete" => j.dest \in {"personal", "elsewhere"}
                         /\ j.kind = "move" => j.bonus = link[j.link].bonus
    /\ stage = "page" => j.kind \in {"page", "sync"}

LEMMA BeginStep ==
    ASSUME Inv, NEW r \in Workers, NEW j \in Job, NEW stage, First(j, stage),
           Begin(r, j), Go(r, stage)
    PROVE  Inv'
  <1>1. /\ at[r] = "idle" /\ job' = [job EXCEPT ![r] = j] /\ me' = [me EXCEPT ![r] = CopyOf(row)]
        /\ books' = [books EXCEPT !.overlap = @ \/ Busy] /\ at' = [at EXCEPT ![r] = stage]
        /\ UNCHANGED <<row, lock, link, purchase, sub, own, reply, known, outages, deals>>
    BY DEF Begin, Go
  <1>2. /\ at' \in [Workers -> Stage] /\ at'[r] = stage
        /\ job' \in [Workers -> Job] /\ job'[r] = j
        /\ me' \in [Workers -> Copy] /\ me'[r] = CopyOf(row)
        /\ \A q \in Workers \ {r} : Kept(q)
    BY <1>1, Parts, CopyTyped DEF TypeOK, First, Stage, Kept
  <1>3. /\ books' \in Books
        /\ books.overlap => books'.overlap
        /\ ~books'.overlap => \A q \in Workers : at[q] = "idle"
        /\ books'.failedAck = books.failedAck /\ books'.relative = books.relative
        /\ books'.inPost = books.inPost
    <2>1. Busy \in BOOLEAN
      BY DEF Busy
    <2>2. ~Busy => \A q \in Workers : at[q] = "idle"
      BY DEF Busy
    <2> HIDE DEF Busy
    <2> QED
      BY <1>1, <2>1, <2>2, Parts DEF Books
  <1>4. TypeOK' /\ Tables' /\ SameRow
    BY <1>1, <1>2, <1>3, Parts DEF TypeOK, Tables, SameRow
  <1>5. /\ reply'[r] = NoReply /\ known'[r] = "unknown" /\ own'[r] = own[r]
        /\ Fit(r) /\ lock # r /\ row.bonus \in Nat
    BY <1>1, Parts DEF Fit, Holding
  <1>6. Fit(r)' /\ Holding(r)'
    BY <1>1, <1>2, <1>5, Parts, CopyTyped, NothingTyped DEF First, Fit, Holding, Posting
  <1>7. Current(r)'
    BY <1>1, <1>2, <1>5, Parts, CopyTyped, NothingTyped DEF First, Current, Posting, SameUser
  <1>8. Counts(r)'
    BY <1>1, <1>2, Parts, CopyTyped DEF First, Counts
  <1>9. BooksBalance'
    <2>1. /\ BonusLinks' = BonusLinks /\ Acknowledged' = Acknowledged
      BY <1>1 DEF BonusLinks, Acknowledged
    <2>2. Refunding' = Refunding
      BY <1>1, <1>2 DEF Refunding, First, Kept
    <2> QED
      BY <1>1, <1>3, <2>1, <2>2 DEF Inv, BooksBalance
  <1>10. PendingTierIsCurrent'
    BY <1>1, <1>3 DEF Inv, PendingTierIsCurrent
  <1> QED
    BY <1>1, <1>2, <1>3, <1>4, <1>6, <1>7, <1>8, <1>9, <1>10, WorkerStep

LEMMA BeginAnyStep ==
    ASSUME Inv, NEW r \in Workers, BeginAny(r)
    PROVE  Inv'
  <1>1. ASSUME NEW l \in Links, NEW dest \in {"personal", "elsewhere"}, BeginPost(r, l, dest)
        PROVE  Inv'
    <2> DEFINE j == [kind |-> "post", link |-> l, dest |-> dest, bonus |-> FALSE]
               stage == IF dest = "personal" THEN "check" ELSE "lock"
    <2>1. j \in Job /\ First(j, stage) /\ Begin(r, j) /\ Go(r, stage)
      BY <1>1 DEF BeginPost, First, Job, Kind, Place
    <2> QED
      BY <2>1, BeginStep
  <1>2. ASSUME NEW l \in Links, NEW dest \in {"personal", "elsewhere"},
               NEW k \in {"move", "patch"}, BeginMove(r, k, l, dest)
        PROVE  Inv'
    <2> DEFINE j == [kind |-> k, link |-> l, dest |-> dest, bonus |-> link[l].bonus]
    <2>1. j \in Job /\ First(j, "move") /\ Begin(r, j) /\ Go(r, "move")
      BY <1>2, Parts DEF BeginMove, First, Job, Kind, Place, LinkRow
    <2> QED
      BY <2>1, BeginStep
  <1>3. ASSUME NEW l \in Links, BeginDelete(r, l)
        PROVE  Inv'
    <2> DEFINE j == [kind |-> "delete", link |-> l, dest |-> "deleted", bonus |-> FALSE]
    <2>1. j \in Job /\ First(j, "move") /\ Begin(r, j) /\ Go(r, "move")
      BY <1>3 DEF BeginDelete, First, Job, Kind, Place
    <2> QED
      BY <2>1, BeginStep
  <1> QED
    BY <1>1, <1>2, <1>3 DEF BeginAny

LEMMA BeginPageStep ==
    ASSUME Inv, NEW r \in Workers, BeginPage(r)
    PROVE  Inv'
  <1> DEFINE j == [NoJob EXCEPT !.kind = IF r \in Syncs THEN "sync" ELSE "page"]
  <1>1. j \in Job /\ First(j, "page") /\ Begin(r, j) /\ Go(r, "page")
    BY DEF BeginPage, First, NoJob, Job, Kind, Place
  <1> QED
    BY <1>1, BeginStep

LEMMA DealStep ==
    ASSUME Inv, NEW r \in Workers, NEW t \in Tiers, Deal(r, t)
    PROVE  Inv'
  <1> DEFINE s == reply[r].sub
  <1>1. /\ at[r] = "offer" /\ s = sub /\ Finish(r) /\ deals' \in 0..MaxDeals
        /\ UNCHANGED <<row, lock, link, purchase, books, outages>>
    BY Parts, QuotaAssumption DEF Deal, NeedsDeal, TypeOK
  <1>2. \/ sub' = [status |-> "Current", tier |-> t, pending |-> NoTier]
        \/ sub.status # "none" /\ sub.pending = NoTier /\ sub' = [sub EXCEPT !.pending = t]
        \/ sub.pending # NoTier /\ sub' = [sub EXCEPT !.pending = NoTier]
    <2>1. TierType(t, s, me[r].tier) = "downgrade" => s.status # "none" /\ s.pending = NoTier
      BY DEF TierType
    <2> QED
      BY <1>1, <2>1 DEF Deal
  <1>3. t \in Tier /\ NoTier \in Tier /\ sub.pending # NoTier => sub.status # "none"
    BY Parts, NothingTyped DEF Tier, Tables
  <1>4. sub' \in Sub /\ sub'.status # "none" /\ sub' # NoSub
    <2>1. sub' \in Sub /\ sub'.status # "none"
      BY <1>2, <1>3, Parts DEF Sub, Tier
    <2> QED
      BY <2>1, NothingTyped
  <1>5. SharedTyped' /\ Tables' /\ SameRow /\ lock' # r
    BY <1>1, <1>4, Parts DEF SharedTyped, TypeOK, Tables, SameRow, Holding
  <1>6. BooksBalance'
    <2>1. at'[r] = "idle" /\ \A q \in Workers \ {r} : Kept(q)
      BY <1>1, FinishKept
    <2> QED
      BY <1>1, <2>1, SameBooks
  <1>7. PendingTierIsCurrent'
    <2> SUFFICES ASSUME ~books.overlap, sub'.pending # NoTier PROVE row.tier = sub'.tier
      BY <1>1 DEF PendingTierIsCurrent
    <2>1. Current(r)
      BY <1>1 DEF Inv
    <2>2. sub.status # "none" /\ sub.pending = NoTier /\ sub' = [sub EXCEPT !.pending = t]
      BY <1>2, Parts DEF Sub
    <2>3. row.tier = sub.tier
      BY <1>1, <2>1, <2>2, NothingTyped DEF Current
    <2> QED
      BY <2>2, <2>3, Parts DEF Sub
  <1> QED
    BY <1>1, <1>4, <1>5, <1>6, <1>7, FinishStep

----------------------------------------------------------------------------
(* Perma Payments, the staff and folders.                                  *)

LEMMA OutsideStep ==
    ASSUME Inv, UNCHANGED <<reqVars, lock>>, TypeOK', Tables',
           \A l \in Links : link[l].place # "none" => link'[l].place # "none",
           sub # NoSub => sub' # NoSub,
           lock = NoRequest \/ SameRow,
           books.failedAck => books'.failedAck, books.overlap => books'.overlap,
           \A q \in Workers : ~books'.overlap /\ at[q] # "idle" => Current(q)',
           \A q \in Workers : ~books'.overlap /\ ~books'.failedAck /\ at[q] # "idle" => Counts(q)',
           BooksBalance', PendingTierIsCurrent'
    PROVE  Inv'
  <1>1. \A q \in Workers : Kept(q) /\ (lock = q <=> lock' = q) /\ (lock = q => SameRow)
    BY QuotaAssumption DEF Kept, reqVars
  <1>2. \A q \in Workers : Fit(q)' /\ Holding(q)'
    BY <1>1, KeptFits, KeptHolds
  <1>3. ~books'.overlap => Alone'
    BY DEF Inv, Alone, reqVars
  <1> QED
    BY <1>2, <1>3 DEF Inv, reqVars

\* One after which every request knows what it knew.
LEMMA QuietOutside ==
    ASSUME Inv, UNCHANGED <<reqVars, lock, link, books>>, TypeOK', Tables', SameRow,
           sub # NoSub => sub' # NoSub, sub'.pending # NoTier => sub.pending # NoTier,
           \A p \in Purchases : purchase[p] = "due" => purchase'[p] = "due",
           Acknowledged' = Acknowledged, PendingTierIsCurrent'
    PROVE  Inv'
  <1>1. \A q \in Workers : ~books'.overlap /\ at[q] # "idle" => Current(q)'
    BY Parts DEF Inv, Current, SameUser, SameRow, Posting, reqVars
  <1>2. (Cardinality(PlainLinks) < Allowance)' <=> Cardinality(PlainLinks) < Allowance
    BY SameLimit
  <1>3. \A q \in Workers : ~books'.overlap /\ ~books'.failedAck /\ at[q] # "idle" => Counts(q)'
    BY <1>2 DEF Inv, Counts, SameRow, reqVars
  <1>4. BooksBalance'
    <2>1. BonusLinks' = BonusLinks /\ Refunding' = Refunding
      BY DEF BonusLinks, Refunding, reqVars
    <2> QED
      BY <2>1 DEF Inv, BooksBalance, SameRow
  <1> QED
    BY <1>1, <1>3, <1>4, OutsideStep

LEMMA BuyStep ==
    ASSUME Inv, NEW p \in Purchases, Buy(p)
    PROVE  Inv'
  <1>1. /\ purchase[p] = "unbought" /\ purchase' = [purchase EXCEPT ![p] = "due"]
        /\ UNCHANGED <<row, lock, link, sub, reqVars, books, outages, deals>>
    BY DEF Buy
  <1>2. TypeOK /\ Tables
    BY DEF Inv
  <1>3. TypeOK' /\ Tables' /\ SameRow
    BY <1>1, <1>2 DEF TypeOK, Tables, SameRow, reqVars
  <1>4. /\ Acknowledged' = Acknowledged
        /\ \A o \in Purchases : purchase[o] = "due" => purchase'[o] = "due"
    BY <1>1, <1>2 DEF Acknowledged, TypeOK
  <1>5. PendingTierIsCurrent'
    BY <1>1 DEF Inv, PendingTierIsCurrent
  <1> QED
    BY <1>1, <1>3, <1>4, <1>5, QuietOutside

LEMMA BillStep ==
    ASSUME Inv, Bill
    PROVE  Inv'
  <1>1. /\ sub.status # "none" /\ deals' \in 0..MaxDeals
        /\ sub' \in {[sub EXCEPT !.status = "Hold"], [sub EXCEPT !.status = "Current"],
                     IF sub.pending = NoTier THEN sub
                     ELSE [sub EXCEPT !.tier = sub.pending, !.pending = NoTier]}
        /\ UNCHANGED <<row, lock, link, purchase, reqVars, books, outages>>
    BY QuotaAssumption DEF Inv, TypeOK, Bill, NeedsDeal
  <1>2. TypeOK /\ Tables /\ sub \in Sub
    BY DEF Inv, TypeOK
  <1>3. /\ sub' \in Sub /\ sub'.status # "none"
        /\ sub'.pending # NoTier => sub.pending # NoTier /\ sub'.tier = sub.tier
    BY <1>1, <1>2, NothingTyped DEF Sub
  <1>4. sub' # NoSub
    BY <1>3, NothingTyped
  <1>5. TypeOK' /\ Tables' /\ SameRow
    BY <1>1, <1>2, <1>3, <1>4 DEF TypeOK, Tables, SameRow, reqVars
  <1>6. Acknowledged' = Acknowledged
    BY <1>1 DEF Acknowledged
  <1>7. PendingTierIsCurrent'
    BY <1>1, <1>3 DEF Inv, PendingTierIsCurrent
  <1> QED
    BY <1>1, <1>3, <1>4, <1>5, <1>6, <1>7, QuietOutside

LEMMA FreezeStep ==
    ASSUME Inv, Freeze
    PROVE  Inv'
  <1>1. /\ row' = [row EXCEPT !.frozen = ~@] /\ deals' \in 0..MaxDeals
        /\ UNCHANGED <<lock, link, purchase, sub, reqVars, books, outages>>
    BY QuotaAssumption DEF Inv, TypeOK, Freeze, NeedsDeal
  <1>2. TypeOK /\ Tables /\ row \in User
    BY DEF Inv, TypeOK
  <1>3. row' \in User /\ SameRow
    BY <1>1, <1>2 DEF User, SameRow
  <1>4. TypeOK' /\ Tables'
    BY <1>1, <1>2, <1>3 DEF TypeOK, Tables, SameRow, reqVars
  <1>5. Acknowledged' = Acknowledged
    BY <1>1 DEF Acknowledged
  <1>6. PendingTierIsCurrent'
    BY <1>1, <1>3 DEF Inv, PendingTierIsCurrent, SameRow
  <1> QED
    BY <1>1, <1>3, <1>4, <1>5, <1>6, QuietOutside

LEMMA MoveFolderStep ==
    ASSUME Inv, NEW moved \in SUBSET Links, MoveFolder(moved)
    PROVE  Inv' /\ \A l \in Links : link[l].place = "none" => link'[l] = link[l]
  <1> DEFINE returned == {l \in moved : link[l].bonus}
  <1>1. /\ \A l \in moved : link[l].place = "personal"
        /\ lock = NoRequest
        /\ link' = [l \in Links |-> IF l \in moved THEN [place |-> "elsewhere", bonus |-> FALSE]
                                   ELSE link[l]]
        /\ row' = [row EXCEPT !.bonus = @ + Cardinality(returned)]
        /\ books' = [books EXCEPT !.overlap = @ \/ Busy]
        /\ UNCHANGED <<lock, purchase, sub, reqVars, outages, deals>>
    BY DEF MoveFolder
  <1>2. TypeOK /\ Tables /\ row \in User /\ row.bonus \in Nat /\ link \in [Links -> LinkRow]
        /\ books \in Books
    <2>1. TypeOK /\ Tables /\ row \in User /\ row.bonus >= 0
      BY DEF Inv, TypeOK
    <2> QED
      BY <2>1 DEF TypeOK, User
  <1>3. returned \in SUBSET Links /\ IsFiniteSet(returned) /\ Cardinality(returned) \in Nat
    BY QuotaAssumption, FS_Subset, FS_CardinalityType
  <1>4. /\ row' \in User /\ row'.bonus = row.bonus + Cardinality(returned) /\ row'.bonus \in Nat
        /\ row'.status = row.status /\ row'.tier = row.tier
    <2> HIDE DEF returned
    <2>1. row.bonus + Cardinality(returned) \in Nat
      BY <1>2, <1>3
    <2> QED
      BY <1>1, <1>2, <2>1 DEF User
  <1>5. /\ books' \in Books
        /\ books.overlap => books'.overlap
        /\ ~books'.overlap => \A q \in Workers : at[q] = "idle"
        /\ books'.failedAck = books.failedAck /\ books'.relative = books.relative
        /\ books'.inPost = books.inPost
    <2>1. Busy \in BOOLEAN
      BY DEF Busy
    <2>2. ~Busy => \A q \in Workers : at[q] = "idle"
      BY DEF Busy
    <2> HIDE DEF Busy
    <2> QED
      BY <1>1, <1>2, <2>1, <2>2 DEF Books
  <1>6. /\ link' \in [Links -> LinkRow]
        /\ \A l \in Links : link[l].place # "none" => link'[l].place # "none"
        /\ \A l \in Links : link[l].place = "none" => link'[l] = link[l]
        /\ \A l \in Links : link'[l].place = "none" => link'[l] = link[l]
    BY <1>1, <1>2 DEF LinkRow, Place
  <1>7. TypeOK' /\ Tables'
    <2>1. UNCHANGED <<lock, purchase, sub, reqVars, outages, deals>>
      BY <1>1
    <2>2. TypeOK'
      BY <1>2, <1>4, <1>5, <1>6, <2>1 DEF TypeOK, reqVars
    <2>3. Tables'
      BY <1>2, <1>4, <1>6, <2>1 DEF Tables
    <2> QED
      BY <2>2, <2>3
  <1>8. BooksBalance'
    <2> SUFFICES ASSUME ~books'.overlap, ~books'.failedAck, ~books'.relative, ~books'.inPost
                 PROVE  row'.bonus + Cardinality(BonusLinks)' + Cardinality(Refunding)'
                          = Cardinality(Acknowledged)'
      BY DEF BooksBalance
    <2>1. Refunding' = Refunding /\ Acknowledged' = Acknowledged
      BY <1>1 DEF Refunding, Acknowledged, reqVars
    <2>2. BonusLinks' = BonusLinks \ returned /\ BonusLinks \cap returned = returned
      BY <1>1, <1>2 DEF BonusLinks
    <2>3. Cardinality(BonusLinks') = Cardinality(BonusLinks) - Cardinality(returned)
      <3> HIDE DEF returned
      <3>1. Cardinality(BonusLinks \ returned)
              = Cardinality(BonusLinks) - Cardinality(BonusLinks \cap returned)
        BY Finite, FS_Difference, Zenon
      <3> QED
        BY <2>2, <3>1
    <2>4. row.bonus + Cardinality(BonusLinks) + Cardinality(Refunding) = Cardinality(Acknowledged)
      BY <1>5 DEF Inv, BooksBalance
    <2>5. Refunding = {} /\ Cardinality(Refunding) = 0
      BY <1>5, FS_EmptySet DEF Refunding
    <2> HIDE DEF returned
    <2> QED
      BY <1>2, <1>3, <1>4, <2>1, <2>3, <2>4, <2>5, Finite
  <1>9. PendingTierIsCurrent'
    BY <1>1, <1>4, <1>5 DEF Inv, PendingTierIsCurrent
  <1>10. Inv'
    BY <1>1, <1>5, <1>6, <1>7, <1>8, <1>9, OutsideStep
  <1> QED
    BY <1>6, <1>10

----------------------------------------------------------------------------
(* The theorems.                                                           *)

LEMMA InvInit ==
    ASSUME Init
    PROVE  Inv
  <1>1. /\ row \in User /\ row.bonus = 0 /\ row.tier = NoTier /\ row.status = "none"
        /\ link = [l \in Links |-> [place |-> "none", bonus |-> FALSE]]
        /\ \A r \in Workers : /\ at[r] = "idle" /\ job[r] = NoJob /\ me[r] = NoCopy
                              /\ own[r] = NoCopy /\ reply[r] = NoReply /\ known[r] = "unknown"
    <2>1. PICK n \in BOOLEAN :
             row = [bonus |-> 0, frozen |-> FALSE, nonpaying |-> n, in_trial |-> TRUE,
                    status |-> "none", tier |-> NoTier]
      BY DEF Init
    <2>2. row \in User /\ row.bonus = 0 /\ row.tier = NoTier /\ row.status = "none"
      BY <2>1 DEF User, Tier
    <2> QED
      BY <2>2 DEF Init
  <1>2. TypeOK
    <2>1. /\ me \in [Workers -> Copy] /\ own \in [Workers -> Copy] /\ job \in [Workers -> Job]
          /\ reply \in [Workers -> Reply] /\ sub \in Sub
      BY NothingTyped DEF Init
    <2>2. books \in Books /\ link \in [Links -> LinkRow] /\ at \in [Workers -> Stage]
      BY DEF Init, Books, LinkRow, Place, Stage
    <2> QED
      BY <1>1, <2>1, <2>2, QuotaAssumption DEF Init, TypeOK
  <1>3. Tables
    BY <1>1 DEF Init, Tables, Active
  <1>4. \A r \in Workers : Fit(r) /\ Holding(r)
    <2>1. lock = NoRequest
      BY DEF Init
    <2> QED
      BY <1>1, <2>1, NothingTyped, QuotaAssumption DEF Fit, Holding, Posting
  <1>5. Alone
    BY <1>1 DEF Alone
  <1>6. BooksBalance
    <2>1. BonusLinks = {} /\ Refunding = {} /\ Acknowledged = {}
      BY <1>1 DEF Init, BonusLinks, Refunding, Acknowledged
    <2> QED
      BY <1>1, <2>1, FS_EmptySet DEF BooksBalance
  <1>7. PendingTierIsCurrent
    BY NothingTyped DEF Init, PendingTierIsCurrent
  <1> QED
    BY <1>1, <1>2, <1>3, <1>4, <1>5, <1>6, <1>7 DEF Inv

LEMMA InvStep ==
    ASSUME Inv, [Next]_vars
    PROVE  Inv'
  <1>1. CASE \E p \in Purchases : Buy(p)
    BY <1>1, BuyStep
  <1>2. CASE Bill \/ Freeze
    BY <1>2, BillStep, FreezeStep
  <1>3. CASE \E moved \in SUBSET Links : MoveFolder(moved)
    BY <1>3, MoveFolderStep
  <1>4. CASE \E r \in Workers, t \in Tiers : Deal(r, t)
    BY <1>4, DealStep
  <1>5. ASSUME NEW r \in Workers, BeginAny(r) \/ BeginPage(r)
        PROVE  Inv'
    BY <1>5, BeginAnyStep, BeginPageStep
  <1>6. ASSUME NEW r \in Workers, Consulting(r)
        PROVE  Inv'
    BY <1>6, AskStep, AskFailsStep, CreditStep, SettleStep DEF Consulting
  <1>7. ASSUME NEW r \in Workers, Working(r), ~Consulting(r)
        PROVE  Inv'
    BY <1>7, EndsStep, AdmitStep, LockStep, CreateStep, MoveStep, DeleteStep, RefundStep,
       OfferStep DEF Working
  <1>8. CASE UNCHANGED vars
    <2>1. /\ UNCHANGED <<reqVars, lock, link, books>> /\ SameRow
          /\ UNCHANGED <<purchase, sub, outages, deals, row>>
      BY <1>8 DEF vars, SameRow
    <2>2. TypeOK /\ Tables /\ PendingTierIsCurrent
      BY DEF Inv
    <2>3. TypeOK' /\ Tables'
      BY <2>1, <2>2 DEF TypeOK, Tables, reqVars
    <2>4. Acknowledged' = Acknowledged /\ PendingTierIsCurrent'
      BY <2>1, <2>2 DEF Acknowledged, PendingTierIsCurrent
    <2> QED
      BY <2>1, <2>3, <2>4, QuietOutside
  <1> QED
    BY <1>1, <1>2, <1>3, <1>4, <1>5, <1>6, <1>7, <1>8 DEF Next

\* However web workers, the sync, moves of folders and outages of Perma Payments
\* interleave, the inductive invariant holds.
THEOREM Invariant == Spec => []Inv
  <1>1. Init => Inv
    BY InvInit
  <1>2. Inv /\ [Next]_vars => Inv'
    BY InvStep
  <1> QED
    BY <1>1, <1>2, PTL DEF Spec

\* Rows and copies keep their types, so bonus_links never goes below zero, and unless
\* requests overlap, an acknowledgment fails or a purchase is credited to a copy that
\* POST or a move is about to overwrite, every purchased bonus link can be accounted for.
THEOREM BooksAlwaysBalance == Spec => []QuotaInv
  <1>1. Inv => QuotaInv
    BY DEF Inv, QuotaInv
  <1> QED
    BY <1>1, Invariant, PTL

\* While a downgrade waits at Perma Payments, get_subscription leaves the user the tier
\* that is paid for.
THEOREM DowngradesAlwaysWait == Spec => []PendingTierIsCurrent
  <1>1. Inv => PendingTierIsCurrent
    BY DEF Inv
  <1> QED
    BY <1>1, Invariant, PTL

\* A link that comes to be in a personal folder was created by POST.
LEMMA OnlyPostCreates ==
    ASSUME Inv, Next, NEW l \in Links, Created(l)
    PROVE  \E r \in Workers : Create(r) /\ l = job[r].link
  <1>1. link'[l] # link[l] /\ link[l].place = "none"
    BY DEF Created
  <1>2. ASSUME NEW r \in Workers, Create(r), l # job[r].link
        PROVE  FALSE
    BY <1>1, <1>2, Parts DEF Create
  <1>3. \A p \in Purchases : ~Buy(p)
    BY <1>1 DEF Buy
  <1>4. ~Bill /\ ~Freeze
    BY <1>1 DEF Bill, Freeze
  <1>5. \A moved \in SUBSET Links : ~MoveFolder(moved)
    BY <1>1, MoveFolderStep
  <1>6. \A r \in Workers : ~BeginAny(r) /\ ~BeginPage(r)
    BY <1>1 DEF BeginAny, BeginPost, BeginMove, BeginDelete, BeginPage, Begin
  <1>7. \A r \in Workers : ~Consulting(r)
    BY <1>1 DEF Consulting, Ask, AskFails, Credit, Settle
  <1>8. \A r \in Workers : /\ ~Refuse(r) /\ ~Admit(r) /\ ~Lock(r) /\ ~NotFound(r)
                           /\ ~Refund(r) /\ ~Answer(r) /\ ~Leave(r)
    BY <1>1 DEF Refuse, Admit, Lock, NotFound, Refund, Answer, Leave
  <1>9. \A r \in Workers : ~Move(r) /\ ~Delete(r)
    BY <1>1, MoveStep, DeleteStep
  <1>10. \A r \in Workers, t \in Tiers : ~Deal(r, t)
    BY <1>1 DEF Deal
  <1> QED
    BY <1>2, <1>3, <1>4, <1>5, <1>6, <1>7, <1>8, <1>9, <1>10 DEF Next, Working

\* What Create did for the link it created.
LEMMA CreatedLink ==
    ASSUME Inv, NEW r \in Workers, Create(r), NEW l \in Links, l = job[r].link, Created(l)
    PROVE  link'[l].bonus = SpendsBonus(r) /\ job[r].dest = "personal"
  <1>1. link'[l] = [place |-> job[r].dest, bonus |-> SpendsBonus(r)]
    BY Parts DEF Create
  <1> QED
    BY <1>1 DEF Created

\* However many requests spend bonus links at once, select_for_update makes each one
\* cost exactly one of those the row holds, unless an acknowledgment failed.
THEOREM BonusLinksAlwaysCostOne == Spec => BonusLinkCostsOne
  <1> DEFINE A == \A l \in Links :
                     Created(l) /\ link'[l].bonus /\ ~books.failedAck
                        => row'.bonus = row.bonus - 1
  <1>1. Inv /\ [Next]_vars => [A]_vars
    <2> SUFFICES ASSUME Inv, Next, NEW l \in Links, Created(l), link'[l].bonus, ~books.failedAck
                 PROVE  row'.bonus = row.bonus - 1
      OBVIOUS
    <2>1. PICK r \in Workers : Create(r) /\ l = job[r].link
      BY OnlyPostCreates
    <2>2. SpendsBonus(r)
      BY <2>1, CreatedLink
    <2> QED
      BY <2>1, <2>2, CreateStep
  <1>2. Spec => [][A]_vars
    BY <1>1, Invariant, PTL DEF Spec
  <1> QED
    BY <1>2 DEF BonusLinkCostsOne

\* While requests do not overlap and acknowledgments come back, POST never creates a
\* personal link beyond what Perma knows the user may have, except for a bonus link.
THEOREM QuotaAlwaysKept == Spec => QuotaKept
  <1> DEFINE A == \A l \in Links :
                     Created(l) /\ ~link'[l].bonus /\ ~books.overlap /\ ~books.failedAck
                        => Cardinality(PlainLinks) < Allowance
  <1>1. Inv /\ [Next]_vars => [A]_vars
    <2> SUFFICES ASSUME Inv, Next, NEW l \in Links, Created(l), ~link'[l].bonus,
                        ~books.overlap, ~books.failedAck
                 PROVE  Cardinality(PlainLinks) < Allowance
      OBVIOUS
    <2>1. PICK r \in Workers : Create(r) /\ l = job[r].link
      BY OnlyPostCreates
    <2>2. ~SpendsBonus(r) /\ job[r].dest = "personal"
      BY <2>1, CreatedLink
    <2> QED
      BY <2>1, <2>2, CreateStep
  <1>2. Spec => [][A]_vars
    BY <1>1, Invariant, PTL DEF Spec
  <1> QED
    BY <1>2 DEF QuotaKept

=============================================================================
