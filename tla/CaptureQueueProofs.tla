------------------------- MODULE CaptureQueueProofs -------------------------
(***************************************************************************)
(* Theorems about CaptureQueue, for any users, web workers, Celery workers *)
(* and number of jobs.                                                     *)
(*                                                                         *)
(* That the queue is a round robin is a statement about counts.  What is   *)
(* inductive is a statement about any three jobs, from which the counts    *)
(* follow: of two jobs of another user that run before a job, at least the *)
(* second waits for a job of its own user.                                 *)
(***************************************************************************)
EXTENDS CaptureQueue, FunctionTheorems, FiniteSetTheorems, SequenceTheorems,
        WellFoundedInduction, TLAPS

----------------------------------------------------------------------------
(* The inductive invariant.                                                *)

IsPending(j) == jobs[j].status = "pending"
\* It has been pending ever since it was queued.
Awaited(j) == IsPending(j) /\ j \notin past.revived
Placed(r) == request[r].at \in {"save", "queue"}

\* What each web worker has, for what it does next.
Fit(r) ==
    /\ request[r].at # "idle" => request[r].user \in Users
    /\ request[r].at = "idle" => request[r].job = 0
    /\ Placed(r) => request[r].order >= 1
    /\ request[r].job \in {0} \cup DOMAIN jobs
    /\ request[r].at = "next" =>
         /\ request[r].job # 0
         /\ jobs[request[r].job].user = request[r].user
    /\ request[r].at \in {"next", "save"} /\ request[r].job # 0 =>
         jobs[request[r].job].human = request[r].human
    /\ request[r].at = "save" /\ request[r].job # 0 /\ Awaited(request[r].job) =>
         jobs[request[r].job].order <= request[r].order
    /\ request[r].at = "queue" =>
         /\ request[r].job # 0
         /\ jobs[request[r].job].status = "invalid"
         /\ jobs[request[r].job].user = request[r].user
         /\ jobs[request[r].job].human = request[r].human
         /\ jobs[request[r].job].order = request[r].order

\* No two have one job, and no batch has gone on before its job's turn to be queued.
Apart ==
    /\ \A q, r \in Requests : q # r /\ request[q].job = request[r].job => request[r].job = 0
    /\ \A r \in Requests, j \in DOMAIN jobs :
          request[r].at = "queue" => jobs[j].prev # request[r].job

\* A job of a batch comes after the one before it.
Batches ==
    \A j \in DOMAIN jobs : jobs[j].prev # 0 =>
       /\ jobs[j].prev < j
       /\ jobs[jobs[j].prev].human = jobs[j].human
       /\ Awaited(jobs[j].prev) => jobs[jobs[j].prev].order <= jobs[j].order

\* A job that a worker has read comes after no pending job of its batch.
Chosen(w) ==
    worker[w] # 0 =>
       /\ worker[w] \in DOMAIN jobs
       /\ jobs[worker[w]].status # "invalid"
       /\ jobs[worker[w]].prev # 0 => ~Awaited(jobs[worker[w]].prev)

\* Only jobs that have been queued are patched.
Held == \A j \in patches : j \in DOMAIN jobs /\ jobs[j].status # "invalid"

\* POSTs to one queue do not overlap.
OneAtATime ==
    \A q, r \in Requests :
       Placed(q) /\ Placed(r) /\ request[q].human = request[r].human => q = r

Distinct(human) ==
    \A j, k \in Pending(human) : jobs[j].order = jobs[k].order => j = k

\* Before a job, of two jobs of another user one of its own user runs after the first.
TurnsKept(human) ==
    \A j, k, l \in Pending(human) :
       jobs[k].user = jobs[l].user /\ jobs[j].user # jobs[k].user
          /\ jobs[k].order < jobs[l].order /\ jobs[l].order < jobs[j].order
       => \E m \in Pending(human) :
             /\ jobs[m].user = jobs[j].user
             /\ jobs[k].order < jobs[m].order /\ jobs[m].order < jobs[j].order

\* An order no pending job has.
IsNew(human, order) == \A k \in Pending(human) : jobs[k].order # order

\* A place for a job of this user at which turns would be kept: after its own jobs,
\* not after two of another user since, and not between a job of its own and one of a
\* user who has not had a turn since.
KeepsTurns(human, user, order) ==
    /\ \A k \in Pending(human) : jobs[k].user = user => jobs[k].order < order
    /\ \A k, l \in Pending(human) :
         jobs[k].user = jobs[l].user /\ jobs[k].user # user
            /\ jobs[k].order < jobs[l].order /\ jobs[l].order < order
         => \E m \in Pending(human) :
               jobs[m].user = user /\ jobs[k].order < jobs[m].order
    /\ \A k, j \in Pending(human) :
         jobs[k].user = user /\ jobs[j].user # user /\ order < jobs[j].order
         => \E m \in Pending(human) :
               /\ jobs[m].user = jobs[j].user
               /\ jobs[k].order < jobs[m].order /\ jobs[m].order < jobs[j].order

Ordered ==
    /\ \A human \in BOOLEAN : Distinct(human)
    /\ \A r \in Requests : Placed(r) => IsNew(request[r].human, request[r].order)

Fair ==
    /\ \A j \in DOMAIN jobs : ~jobs[j].gone
    /\ \A human \in BOOLEAN : TurnsKept(human)
    /\ \A r \in Requests :
          Placed(r) => KeepsTurns(request[r].human, request[r].user, request[r].order)

Inv ==
    /\ TypeOK
    /\ \A r \in Requests : Fit(r)
    /\ Apart
    /\ Batches
    /\ \A w \in Workers : Chosen(w)
    /\ Held
    /\ ~past.overlap => OneAtATime
    /\ ~past.overlap /\ ~past.rounded /\ past.revived = {} => Ordered
    /\ ~past.overlap /\ ~past.rounded /\ ~past.deleted /\ ~past.passed /\ past.revived = {} =>
         Fair

----------------------------------------------------------------------------
(* Numbers and jobs.                                                       *)

LEMMA Least ==
    ASSUME NEW S \in SUBSET Nat, S # {}
    PROVE  Min(S) \in S /\ \A x \in S : Min(S) <= x
  <1>1. PICK n \in S : \A m \in S : ~(<<m, n>> \in OpToRel(<, Nat))
    BY NatLessThanWellFounded, WFMin
  <1>2. \A m \in S : ~(m < n)
    BY <1>1 DEF OpToRel
  <1>3. n \in S /\ \A m \in S : n <= m
    BY <1>2
  <1> QED
    BY <1>3 DEF Min

\* A bounded set of numbers that is not empty has a greatest one.
LEMMA Greatest ==
    ASSUME NEW S \in SUBSET Nat, S # {}, NEW b \in Nat, \A x \in S : x <= b
    PROVE  Max(S) \in S /\ \A x \in S : x <= Max(S)
  <1> DEFINE Bounds == {n \in Nat : \A x \in S : x <= n}
  <1>1. Bounds \in SUBSET Nat /\ Bounds # {}
    OBVIOUS
  <1>2. Min(Bounds) \in Bounds /\ \A n \in Bounds : Min(Bounds) <= n
    <2> HIDE DEF Bounds
    <2> QED
      BY <1>1, Least
  <1>3. PICK n \in Nat : (\A x \in S : x <= n) /\ (\A m \in Bounds : n <= m)
    BY <1>2
  <1>4. n \in S
    <2> SUFFICES ASSUME n \notin S PROVE FALSE
      OBVIOUS
    <2>1. \A x \in S : x < n
      BY <1>3
    <2>2. n > 0
      <3>1. PICK x \in S : TRUE
        OBVIOUS
      <3> QED
        BY <2>1, <3>1
    <2>3. n - 1 \in Bounds
      BY <2>1, <2>2
    <2> QED
      BY <1>3, <2>2, <2>3
  <1> QED
    BY <1>3, <1>4 DEF Max

LEMMA JobTyped ==
    ASSUME jobs \in Seq(Job)
    PROVE  /\ Len(jobs) \in Nat /\ DOMAIN jobs = 1..Len(jobs)
           /\ \A j \in DOMAIN jobs :
                /\ jobs[j] \in Job /\ jobs[j].user \in Users /\ jobs[j].human \in BOOLEAN
                /\ jobs[j].order \in Nat /\ jobs[j].order >= 1
                /\ jobs[j].gone \in BOOLEAN /\ jobs[j].prev \in 0..MaxJobs
           /\ \A human \in BOOLEAN :
                /\ Pending(human) \subseteq DOMAIN jobs
                /\ IsFiniteSet(Pending(human)) /\ Cardinality(Pending(human)) \in Nat
  <1>1. Len(jobs) \in Nat /\ DOMAIN jobs = 1..Len(jobs) /\ \A j \in DOMAIN jobs : jobs[j] \in Job
    OBVIOUS
  <1>2. IsFiniteSet(DOMAIN jobs)
    BY <1>1, FS_Interval
  <1>3. \A human \in BOOLEAN : Pending(human) \in SUBSET DOMAIN jobs
    BY DEF Pending
  <1>4. \A human \in BOOLEAN : IsFiniteSet(Pending(human)) /\ Cardinality(Pending(human)) \in Nat
    BY <1>2, <1>3, FS_Subset, FS_CardinalityType
  <1>5. \A j \in DOMAIN jobs :
          /\ jobs[j].user \in Users /\ jobs[j].human \in BOOLEAN
          /\ jobs[j].order \in Nat /\ jobs[j].order >= 1
          /\ jobs[j].gone \in BOOLEAN /\ jobs[j].prev \in 0..MaxJobs
    BY <1>1 DEF Job
  <1> QED
    BY <1>1, <1>3, <1>4, <1>5

\* Some job of a set runs before all others.
LEMMA SomeFirst ==
    ASSUME jobs \in Seq(Job), NEW P \in SUBSET DOMAIN jobs, P # {}
    PROVE  \E j \in P : \A k \in P \ {j} : RunsBefore(j, k)
  <1> DEFINE H == IF \E j \in P : jobs[j].human THEN {j \in P : jobs[j].human} ELSE P
             O == {jobs[j].order : j \in H}
  <1>1. H \in SUBSET P /\ H # {}
    OBVIOUS
  <1>2. ASSUME NEW j \in H, NEW k \in P
        PROVE  \/ jobs[j].human /\ ~jobs[k].human
               \/ jobs[j].human = jobs[k].human /\ k \in H
    <2>1. jobs[j].human \in BOOLEAN /\ jobs[k].human \in BOOLEAN
      BY <1>1, JobTyped
    <2> QED
      BY <1>2, <2>1
  <1>3. O \in SUBSET Nat /\ O # {}
    BY <1>1, JobTyped
  <1> HIDE DEF H
  <1>4. PICK o \in Nat : o \in O /\ \A x \in O : o <= x
    <2> HIDE DEF O
    <2> QED
      BY <1>3, Least
  <1> DEFINE C == {j \in H : jobs[j].order = o}
  <1>5. C \in SUBSET Nat /\ C # {}
    BY <1>1, <1>4, JobTyped
  <1>6. PICK j \in C : \A k \in C : j <= k
    <2> HIDE DEF C
    <2> QED
      BY <1>5, Least
  <1>7. j \in H /\ jobs[j].order = o /\ \A k \in H : o <= jobs[k].order
    BY <1>4, <1>6
  <1>8. ASSUME NEW k \in P \ {j} PROVE RunsBefore(j, k)
    <2>1. j \in Nat /\ k \in Nat /\ jobs[k].order \in Nat /\ jobs[j].order \in Nat
      BY <1>1, <1>7, JobTyped, SMTT(30)
    <2>2. CASE k \notin H
      BY <1>2, <1>7, <2>2 DEF RunsBefore
    <2>3. CASE k \in H
      <3>1. jobs[k].order = o => j <= k
        BY <1>6, <2>3
      <3> QED
        BY <1>1, <1>2, <1>7, <2>1, <2>3, <3>1 DEF RunsBefore
    <2> QED
      BY <2>2, <2>3
  <1> QED
    BY <1>1, <1>7, <1>8

----------------------------------------------------------------------------
(* CaptureJob.save: the place of a new job.                                *)

\* A listing has each pending job of its queue once.
LEMMA Listed ==
    ASSUME jobs \in Seq(Job), NEW human \in BOOLEAN, NEW s \in Listings(human)
    PROVE  /\ s \in Seq(Pending(human)) /\ Len(s) \in Nat
           /\ \A i \in 1..Len(s) : s[i] \in Pending(human)
           /\ \A p \in Pending(human) : \E i \in 1..Len(s) : s[i] = p
           /\ \A i, k \in 1..Len(s) : i < k => s[i] # s[k] /\ jobs[s[i]].order <= jobs[s[k]].order
  <1> DEFINE n == Cardinality(Pending(human))
  <1>1. n \in Nat /\ IsFiniteSet(Pending(human))
    BY JobTyped
  <1>2. /\ s \in [1..n -> Pending(human)]
        /\ \A i, k \in 1..n : i < k => s[i] # s[k] /\ jobs[s[i]].order <= jobs[s[k]].order
    BY DEF Listings
  <1> HIDE DEF n
  <1>3. s \in Seq(Pending(human)) /\ Len(s) = n
    BY <1>1, <1>2
  <1>4. \A i, k \in 1..n : s[i] = s[k] => i = k
    <2> TAKE i, k \in 1..n
    <2> HAVE s[i] = s[k]
    <2>1. ~(i < k) /\ ~(k < i)
      BY <1>2
    <2> QED
      BY <1>1, <2>1
  <1>5. s \in Injection(1..n, Pending(human))
    BY <1>2, <1>4, Fun_IsInj
  <1>6. Cardinality(1..n) = n
    BY <1>1, FS_Interval
  <1>7. s \in Surjection(1..n, Pending(human))
    BY <1>1, <1>5, <1>6, FS_Injection DEF n
  <1>8. \A p \in Pending(human) : \E i \in 1..n : s[i] = p
    BY <1>7 DEF Surjection
  <1> QED
    BY <1>1, <1>2, <1>3, <1>8

\* What takewhile leaves: the jobs listed after the user's last one.
LEMMA Rest ==
    ASSUME jobs \in Seq(Job), NEW human \in BOOLEAN, NEW s \in Listings(human), NEW user,
           NEW t, t = AfterOwn(s, user)
    PROVE  /\ Len(t) \in Nat /\ DOMAIN t = 1..Len(t) /\ (t = <<>> <=> Len(t) = 0)
           /\ \A i \in 1..Len(t) : t[i] \in Pending(human) /\ jobs[t[i]].user # user
           /\ \A i, k \in 1..Len(t) : i < k => t[i] # t[k] /\ jobs[t[i]].order <= jobs[t[k]].order
           /\ \A p \in Pending(human) :
                \/ \E i \in 1..Len(t) : t[i] = p
                \/ \E own \in Pending(human) :
                     /\ jobs[own].user = user /\ jobs[p].order <= jobs[own].order
                     /\ \A i \in 1..Len(t) : jobs[own].order <= jobs[t[i]].order
  <1> DEFINE A == {0} \cup {i \in DOMAIN s : jobs[s[i]].user = user}
  <1>1. /\ s \in Seq(Pending(human)) /\ Len(s) \in Nat /\ DOMAIN s = 1..Len(s)
        /\ \A i \in 1..Len(s) : s[i] \in Pending(human)
        /\ \A p \in Pending(human) : \E i \in 1..Len(s) : s[i] = p
        /\ \A i, k \in 1..Len(s) : i < k => s[i] # s[k] /\ jobs[s[i]].order <= jobs[s[k]].order
    BY Listed
  <1>2. A \in SUBSET Nat /\ A # {} /\ \A x \in A : x <= Len(s)
    BY <1>1
  <1>3. PICK a \in 0..Len(s) : a = Max(A) /\ a \in A /\ \A x \in A : x <= a
    <2>1. Max(A) \in A /\ \A x \in A : x <= Max(A)
      <3> HIDE DEF A
      <3> QED
        BY <1>1, <1>2, Greatest
    <2>2. Max(A) \in 0..Len(s)
      <3>1. Len(s) \in Nat
        BY <1>1
      <3>2. Max(A) <= Len(s)
        BY ONLY <1>2, <2>1
      <3>3. Max(A) \in Nat
        BY ONLY <1>2, <2>1
      <3> HIDE DEF A
      <3> QED
        BY <3>1, <3>2, <3>3
    <2> QED
      BY <2>1, <2>2
  <1>4. /\ a # 0 => jobs[s[a]].user = user
        /\ \A i \in 1..Len(s) : i > a => jobs[s[i]].user # user
    <2>1. a = 0 \/ jobs[s[a]].user = user
      BY <1>3
    <2>2. ASSUME NEW i \in 1..Len(s), i > a, jobs[s[i]].user = user
          PROVE  FALSE
      <3>1. i \in A
        BY <1>1, <2>2
      <3> QED
        BY <1>3, <2>2, <3>1
    <2> QED
      BY <2>1, <2>2
  <1>5. t = SubSeq(s, 1 + a, Len(s))
    BY <1>3 DEF AfterOwn
  <1> HIDE DEF A
  <1>6. Len(t) = Len(s) - a /\ DOMAIN t = 1..Len(t) /\ t \in Seq(Pending(human))
        /\ \A i \in 1..Len(t) : t[i] = s[a + i]
    <2>1. 1 + a \in Int /\ \A i \in (1 + a)..Len(s) : s[i] \in Pending(human)
      BY <1>1, <1>3
    <2>2. /\ t \in Seq(Pending(human))
          /\ Len(t) = IF 1 + a <= Len(s) THEN Len(s) - (1 + a) + 1 ELSE 0
          /\ \A i \in 1..(Len(s) - (1 + a) + 1) : t[i] = s[(1 + a) + i - 1]
      BY <1>1, <1>5, <2>1, SubSeqProperties
    <2>3. Len(t) = Len(s) - a /\ DOMAIN t = 1..Len(t)
      BY <1>1, <1>3, <2>2
    <2>4. ASSUME NEW i \in 1..Len(t) PROVE t[i] = s[a + i]
      <3>1. i \in 1..(Len(s) - (1 + a) + 1) /\ (1 + a) + i - 1 = a + i
        BY <1>1, <1>3, <2>3, SMTT(30)
      <3> QED
        BY <2>2, <3>1
    <2> QED
      BY <2>2, <2>3, <2>4
  <1>7. \A i \in 1..Len(t) : a + i \in 1..Len(s) /\ a + i > a
    BY <1>1, <1>3, <1>6, SMTT(30)
  <1>8. \A i \in 1..Len(t) : t[i] \in Pending(human) /\ jobs[t[i]].user # user
    BY <1>1, <1>4, <1>6, <1>7, SMTT(30)
  <1>9. \A i, k \in 1..Len(t) : i < k => t[i] # t[k] /\ jobs[t[i]].order <= jobs[t[k]].order
    <2> TAKE i, k \in 1..Len(t)
    <2> HAVE i < k
    <2>1. a + i \in 1..Len(s) /\ a + k \in 1..Len(s) /\ a + i < a + k
      BY <1>3, <1>7
    <2>2. s[a + i] # s[a + k] /\ jobs[s[a + i]].order <= jobs[s[a + k]].order
      BY <1>1, <2>1
    <2> QED
      BY <1>6, <2>2
  <1>10. ASSUME NEW p \in Pending(human), ~\E i \in 1..Len(t) : t[i] = p
         PROVE  \E own \in Pending(human) :
                  /\ jobs[own].user = user /\ jobs[p].order <= jobs[own].order
                  /\ \A i \in 1..Len(t) : jobs[own].order <= jobs[t[i]].order
    <2>1. PICK q \in 1..Len(s) : s[q] = p
      BY <1>1
    <2>2. ~(q > a)
      <3> SUFFICES ASSUME q > a PROVE FALSE
        OBVIOUS
      <3>1. q - a \in 1..Len(t) /\ a + (q - a) = q
        BY <1>1, <1>3, <1>6
      <3> QED
        BY <1>6, <1>10, <2>1, <3>1
    <2>3. a \in 1..Len(s) /\ q <= a
      BY <1>1, <1>3, <2>2
    <2>4. s[a] \in Pending(human) /\ jobs[s[a]].user = user /\ jobs[s[a]].order \in Nat
      <3>1. s[a] \in Pending(human)
        BY <1>1, <2>3
      <3> QED
        BY <1>4, <2>3, <3>1, JobTyped
    <2>5. jobs[p].order <= jobs[s[a]].order
      BY <1>1, <2>1, <2>3, <2>4
    <2>6. \A i \in 1..Len(t) : jobs[s[a]].order <= jobs[t[i]].order
      <3> TAKE i \in 1..Len(t)
      <3>1. a + i \in 1..Len(s) /\ a + i > a /\ t[i] = s[a + i]
        BY <1>6, <1>7
      <3>2. jobs[s[a]].order <= jobs[s[a + i]].order
        BY <1>1, <2>3, <3>1
      <3> QED
        BY <3>1, <3>2
    <2> QED
      BY <2>4, <2>5, <2>6
  <1>11. Len(t) \in Nat /\ (t = <<>> <=> Len(t) = 0)
    BY <1>6, EmptySeq
  <1> QED
    BY <1>6, <1>8, <1>9, <1>10, <1>11

LEMMA Halfway ==
    ASSUME NEW last \in Nat, NEW next \in Nat, last <= next
    PROVE  /\ Midpoint(last, next) \in Nat
           /\ last <= Midpoint(last, next) /\ Midpoint(last, next) <= next
           /\ (last + next) % 2 # 1 => 2 * Midpoint(last, next) = last + next
  <1> DEFINE sum == last + next
  <1>1. PICK low \in Nat, bit \in {0, 1} :
           /\ low = sum \div 2 /\ bit = sum % 2 /\ sum = 2 * low + bit
    OBVIOUS
  <1>2. Midpoint(last, next) = IF bit = 0 \/ low % 2 = 0 THEN low ELSE low + 1
    BY <1>1 DEF Midpoint
  <1> QED
    BY <1>1, <1>2

LEMMA OrdersBounded ==
    ASSUME NEW n \in Nat, \A j \in 1..n : jobs[j].order \in Nat
    PROVE  \E b \in Nat : \A j \in 1..n : jobs[j].order <= b
  <1> DEFINE Bounded(m) == \E b \in Nat : \A j \in 1..m : jobs[j].order <= b
             S == {m \in 0..n : ~Bounded(m)}
  <1>1. S \in SUBSET Nat
    OBVIOUS
  <1>2. ASSUME S # {} PROVE FALSE
    <2>1. PICK m \in S : \A l \in S : m <= l
      <3> HIDE DEF S
      <3> QED
        BY <1>1, <1>2, Least
    <2>2. m \in 0..n /\ ~Bounded(m) /\ \A l \in 0..n : ~Bounded(l) => m <= l
      BY <2>1
    <2>3. m # 0
      <3>1. Bounded(0)
        OBVIOUS
      <3> HIDE DEF Bounded
      <3> QED
        BY <2>2, <3>1
    <2>4. Bounded(m - 1)
      <3> HIDE DEF Bounded
      <3> QED
        BY <2>2, <2>3
    <2>5. PICK b \in Nat : \A j \in 1..(m - 1) : jobs[j].order <= b
      BY <2>4
    <2>6. jobs[m].order \in Nat /\ \A j \in 1..m : j \in 1..(m - 1) \/ j = m
      <3>1. m \in 0..n
        BY <2>2
      <3> HIDE DEF Bounded, S
      <3>2. m \in 1..n
        BY <2>3, <3>1
      <3> QED
        BY <3>2
    <2>7. \A j \in 1..m : jobs[j].order \in Nat
      BY <2>2
    <2>8. \A j \in 1..m : jobs[j].order <= b + jobs[m].order
      <3> TAKE j \in 1..m
      <3>1. jobs[j].order \in Nat /\ (jobs[j].order <= b \/ j = m)
        BY <2>5, <2>6, <2>7
      <3> QED
        BY <2>6, <3>1
    <2> QED
      BY <2>2, <2>6, <2>8
  <1>3. n \notin S
    BY <1>2
  <1> QED
    BY <1>3

\* Every job's order is at most the greatest of the table.
LEMMA GreatestOrder ==
    ASSUME jobs \in Seq(Job)
    PROVE  /\ Max({0} \cup Orders(DOMAIN jobs)) \in Nat
           /\ \A j \in DOMAIN jobs : jobs[j].order <= Max({0} \cup Orders(DOMAIN jobs))
  <1> DEFINE O == {0} \cup Orders(DOMAIN jobs)
  <1>1. O \in SUBSET Nat /\ O # {} /\ \A j \in DOMAIN jobs : jobs[j].order \in O
    BY JobTyped DEF Orders
  <1>2. PICK b \in Nat : \A j \in 1..Len(jobs) : jobs[j].order <= b
    BY JobTyped, OrdersBounded
  <1>3. \A x \in O : x <= b
    BY <1>2, JobTyped DEF Orders
  <1> HIDE DEF O
  <1> QED
    BY <1>1, <1>2, <1>3, Greatest DEF O

\* An order is between the n-th and the next of the jobs t; no two of the first n are
\* of one user, and the next one, if any, is its user's second.
Between(t, order, n) ==
    /\ \A m \in 1..n : jobs[t[m]].order < order
    /\ \A m \in (n + 1)..Len(t) : order < jobs[t[m]].order
    /\ \A k, m \in 1..n : k < m => jobs[t[k]].user # jobs[t[m]].user
    /\ n < Len(t) => \E k \in 1..n : jobs[t[k]].user = jobs[t[n + 1]].user

\* Where a new job is placed: after the first n jobs of those after the user's own.
LEMMA PlaceOf ==
    ASSUME jobs \in Seq(Job), NEW human \in BOOLEAN, NEW user \in Users,
           NEW s \in Listings(human), NEW t, t = AfterOwn(s, user),
           NEW fair, fair = FairOrder(s, user)
    PROVE  /\ fair.order \in Nat /\ fair.order >= 1 /\ fair.rounded \in BOOLEAN
           /\ \A p \in Pending(human) : jobs[p].user = user => jobs[p].order <= fair.order
           /\ Distinct(human) /\ ~fair.rounded =>
                /\ \A p \in Pending(human) :
                     (\E m \in 1..Len(t) : t[m] = p) \/ jobs[p].order < fair.order
                /\ \E n \in 0..Len(t) : Between(t, fair.order, n)
  <1>1. /\ Len(t) \in Nat /\ DOMAIN t = 1..Len(t) /\ (t = <<>> <=> Len(t) = 0)
        /\ \A i \in 1..Len(t) : t[i] \in Pending(human) /\ jobs[t[i]].user # user
        /\ \A i, k \in 1..Len(t) : i < k => t[i] # t[k] /\ jobs[t[i]].order <= jobs[t[k]].order
        /\ \A p \in Pending(human) :
             \/ \E i \in 1..Len(t) : t[i] = p
             \/ \E own \in Pending(human) :
                  /\ jobs[own].user = user /\ jobs[p].order <= jobs[own].order
                  /\ \A i \in 1..Len(t) : jobs[own].order <= jobs[t[i]].order
    BY Rest, SMTT(150)
  <1>0. Len(t) \in Nat
    BY <1>1
  <1>2. \A p \in Pending(human) : jobs[p].order \in Nat /\ jobs[p].order >= 1
    BY JobTyped
  <1>3. \A i \in 1..Len(t) : jobs[t[i]].order \in Nat /\ jobs[t[i]].order >= 1
    BY <1>1, <1>2
  <1>4. SecondJobs(t) \in SUBSET (1..Len(t))
    BY <1>1 DEF SecondJobs
  \* A job that is not in t comes before all of t.
  <1>5. ASSUME NEW p \in Pending(human), ~\E m \in 1..Len(t) : t[m] = p, NEW i \in 1..Len(t)
        PROVE  jobs[p].order <= jobs[t[i]].order
    <2>1. PICK own \in Pending(human) :
             jobs[p].order <= jobs[own].order /\ jobs[own].order <= jobs[t[i]].order
      BY <1>1, <1>5
    <2> QED
      BY <1>2, <1>3, <2>1
  <1>6. CASE SecondJobs(t) # {}
    <2>1. PICK i \in 1..Len(t) : i = Min(SecondJobs(t)) /\ i \in SecondJobs(t)
                                 /\ \A m \in SecondJobs(t) : i <= m
      <3>1. SecondJobs(t) \in SUBSET Nat
        BY <1>4
      <3>2. Min(SecondJobs(t)) \in SecondJobs(t) /\ \A m \in SecondJobs(t) : Min(SecondJobs(t)) <= m
        BY <1>6, <3>1, Least
      <3> QED
        BY <1>4, <3>2
    <2>2. PICK k \in 1..(i - 1) : jobs[t[k]].user = jobs[t[i]].user
      BY <2>1 DEF SecondJobs
    <2>3. i - 1 \in 1..Len(t) /\ k <= i - 1
      BY <1>1, <2>2
    <2>4. PICK last \in Nat, next \in Nat :
             /\ last = jobs[t[i - 1]].order /\ next = jobs[t[i]].order
             /\ last >= 1 /\ last <= next
      BY <1>1, <1>3, <2>3, SMTT(30)
    <2>5. fair = [order |-> Midpoint(last, next), rounded |-> (last + next) % 2 = 1]
      BY <1>6, <2>1, <2>4 DEF FairOrder
    <2>6. PICK mid \in Nat :
             /\ mid = fair.order /\ last <= mid /\ mid <= next
             /\ ~fair.rounded => 2 * mid = last + next
      <3>1. fair.order = Midpoint(last, next)
        BY <2>5
      <3>2. fair.rounded = ((last + next) % 2 = 1)
        BY <2>5
      <3>3. ~fair.rounded => (last + next) % 2 # 1
        BY <3>2
      <3> QED
        BY <2>4, <3>1, <3>3, Halfway, ZenonT(60)
    <2>7. /\ \A m \in 1..(i - 1) : jobs[t[m]].order <= last
          /\ \A m \in i..Len(t) : next <= jobs[t[m]].order
      <3>1. ASSUME NEW m \in 1..(i - 1) PROVE jobs[t[m]].order <= last
        <4>1. m \in 1..Len(t) /\ (m = i - 1 \/ m < i - 1)
          BY <1>1, <2>3
        <4>2. CASE m = i - 1
          BY <2>4, <4>2
        <4>3. CASE m < i - 1
          BY <1>1, <2>3, <2>4, <4>1, <4>3
        <4> QED
          BY <4>1, <4>2, <4>3
      <3>2. ASSUME NEW m \in i..Len(t) PROVE next <= jobs[t[m]].order
        <4>1. m \in 1..Len(t) /\ (m = i \/ i < m)
          BY <1>1, <2>3
        <4> QED
          BY <1>1, <2>4, <4>1
      <3> QED
        BY <3>1, <3>2
    <2>8. \A p \in Pending(human) : (\E m \in 1..Len(t) : t[m] = p) \/ jobs[p].order <= last
      BY <1>5, <2>3, <2>4
    <2>9. \A p \in Pending(human) : jobs[p].user = user => jobs[p].order <= mid
      BY <1>1, <1>2, <2>4, <2>6, <2>8, SMTT(30)
    <2>10. ASSUME Distinct(human), ~fair.rounded
           PROVE  last < mid /\ mid < next
      <3>1. t[i - 1] \in Pending(human) /\ t[i] \in Pending(human) /\ t[i - 1] # t[i]
        BY <1>1, <2>3
      <3>2. last # next
        BY <2>4, <2>10, <3>1 DEF Distinct
      <3>3. last < next /\ 2 * mid = last + next
        BY <2>4, <2>6, <2>10, <3>2, SMTT(30)
      <3> QED
        BY <3>3
    <2>11. ASSUME NEW m \in 1..(i - 1), NEW q \in 1..(i - 1), q < m
           PROVE  jobs[t[q]].user # jobs[t[m]].user
      <3>0. i \in Nat /\ m \in Nat /\ q \in Nat /\ i <= Len(t) /\ m <= i - 1 /\ q >= 1
        BY <1>0, <2>1
      <3>1. m \in 1..Len(t) /\ q \in 1..(m - 1) /\ m < i
        BY <1>0, <2>11, <3>0
      <3>2. m \notin SecondJobs(t)
        BY <2>1, <3>1
      <3> QED
        BY <1>1, <3>1, <3>2 DEF SecondJobs
    <2>12. ASSUME Distinct(human), ~fair.rounded
           PROVE  /\ \A p \in Pending(human) :
                       (\E m \in 1..Len(t) : t[m] = p) \/ jobs[p].order < mid
                  /\ \A m \in 1..(i - 1) : jobs[t[m]].order < mid
                  /\ \A m \in i..Len(t) : mid < jobs[t[m]].order
      <3>1. last < mid /\ mid < next
        BY <2>10, <2>12
      <3>2. \A m \in 1..(i - 1) : jobs[t[m]].order \in Nat
        BY <1>3, <2>3
      <3>3. \A m \in i..Len(t) : jobs[t[m]].order \in Nat
        BY <1>3, <2>3
      <3>4. \A p \in Pending(human) : (\E m \in 1..Len(t) : t[m] = p) \/ jobs[p].order < mid
        BY <1>2, <2>8, <3>1
      <3>5. \A m \in 1..(i - 1) : jobs[t[m]].order < mid
        BY <2>7, <3>1, <3>2
      <3>6. \A m \in i..Len(t) : mid < jobs[t[m]].order
        BY <2>7, <3>1, <3>3
      <3> QED
        BY <3>4, <3>5, <3>6
    <2>13. PICK n \in 0..Len(t) : n = i - 1 /\ n + 1 = i
      BY <2>3
    <2>14. fair.rounded \in BOOLEAN /\ fair.order \in Nat /\ fair.order >= 1
      <3>1. fair.rounded = ((last + next) % 2 = 1)
        BY <2>5
      <3>2. fair.rounded \in BOOLEAN
        BY <3>1
      <3>3. fair.order \in Nat /\ fair.order >= 1
        BY <2>4, <2>6
      <3> QED
        BY <3>2, <3>3
    <2>15. /\ \A k1, m \in 1..n : k1 < m => jobs[t[k1]].user # jobs[t[m]].user
           /\ n < Len(t) => \E k1 \in 1..n : jobs[t[k1]].user = jobs[t[n + 1]].user
      BY <2>2, <2>11, <2>13
    <2>16. Distinct(human) /\ ~fair.rounded =>
             /\ \A m \in 1..n : jobs[t[m]].order < fair.order
             /\ \A m \in (n + 1)..Len(t) : fair.order < jobs[t[m]].order
      BY <2>6, <2>12, <2>13
    <2>17. Distinct(human) /\ ~fair.rounded =>
             \A p \in Pending(human) :
                (\E m \in 1..Len(t) : t[m] = p) \/ jobs[p].order < fair.order
      BY <2>6, <2>12
    <2>18. \A p \in Pending(human) : jobs[p].user = user => jobs[p].order <= fair.order
      BY <2>6, <2>9
    <2>19. Distinct(human) /\ ~fair.rounded => Between(t, fair.order, n)
      BY <2>15, <2>16 DEF Between
    <2> QED
      BY <2>14, <2>17, <2>18, <2>19
  <1>7. CASE SecondJobs(t) = {}
    <2> DEFINE top == IF t # <<>> THEN jobs[t[Len(t)]].order ELSE Max({0} \cup Orders(DOMAIN jobs))
    <2>1. fair = [order |-> Unit + top, rounded |-> FALSE]
      BY <1>7 DEF FairOrder
    <2>2. top \in Nat /\ \A p \in Pending(human) : jobs[p].order <= top
      <3>1. CASE t = <<>>
        <4>1. \A p \in Pending(human) : p \in DOMAIN jobs
          BY JobTyped
        <4> QED
          BY <3>1, <4>1, GreatestOrder
      <3>2. CASE t # <<>>
        <4>1. Len(t) \in 1..Len(t)
          BY <1>1, <3>2
        <4>2. \A m \in 1..Len(t) : jobs[t[m]].order <= jobs[t[Len(t)]].order
          <5>1. \A m \in 1..Len(t) : m = Len(t) \/ m < Len(t)
            BY <1>0
          <5>2. jobs[t[Len(t)]].order \in Nat
            BY <1>3, <4>1
          <5> QED
            <6> TAKE m \in 1..Len(t)
            <6>1. CASE m = Len(t)
              BY <5>2, <6>1
            <6>2. CASE m < Len(t)
              BY <1>1, <4>1, <6>2
            <6> QED
              BY <5>1, <6>1, <6>2
        <4> QED
          BY <1>3, <1>5, <3>2, <4>1, <4>2
      <3> QED
        BY <3>1, <3>2
    <2> HIDE DEF top
    <2>3. fair.order = Unit + top /\ fair.rounded = FALSE /\ Unit \in Nat /\ Unit >= 1
      BY <2>1, QueueAssumption
    <2>4. fair.order \in Nat /\ fair.order >= 1
          /\ \A p \in Pending(human) : jobs[p].order < fair.order
      BY <1>2, <2>2, <2>3
    <2>5. \A p \in Pending(human) : jobs[p].order <= fair.order
      BY <1>2, <2>4
    <2>6. \A k, m \in 1..Len(t) : k < m => jobs[t[k]].user # jobs[t[m]].user
      <3> TAKE k, m \in 1..Len(t)
      <3> HAVE k < m
      <3>1. k \in 1..(m - 1) /\ m \notin SecondJobs(t)
        BY <1>7
      <3> QED
        BY <1>1, <3>1 DEF SecondJobs
    <2>7. /\ Len(t) \in 0..Len(t) /\ \A m \in 1..Len(t) : jobs[t[m]].order < fair.order
          /\ \A m \in (Len(t) + 1)..Len(t) : FALSE
          /\ ~(Len(t) < Len(t))
      BY <1>1, <2>4
    <2>8. Between(t, fair.order, Len(t))
      BY <2>6, <2>7 DEF Between
    <2>9. fair.rounded \in BOOLEAN
      BY <2>3
    <2> QED
      BY <2>4, <2>5, <2>7, <2>8, <2>9
  <1> QED
    BY <1>6, <1>7

\* Such a place is one of its own, at which turns are kept.
LEMMA FairPlace ==
    ASSUME jobs \in Seq(Job), NEW human \in BOOLEAN, NEW user \in Users,
           NEW s \in Listings(human), NEW fair, fair = FairOrder(s, user),
           Distinct(human), ~fair.rounded
    PROVE  /\ IsNew(human, fair.order)
           /\ TurnsKept(human) => KeepsTurns(human, user, fair.order)
  <1>0. PICK t : t = AfterOwn(s, user)
    OBVIOUS
  <1>1. /\ Len(t) \in Nat
        /\ \A i \in 1..Len(t) : t[i] \in Pending(human) /\ jobs[t[i]].user # user
        /\ \A i, k \in 1..Len(t) : i < k => t[i] # t[k] /\ jobs[t[i]].order <= jobs[t[k]].order
        /\ \A p \in Pending(human) :
             \/ \E i \in 1..Len(t) : t[i] = p
             \/ \E own \in Pending(human) :
                  /\ jobs[own].user = user /\ jobs[p].order <= jobs[own].order
                  /\ \A i \in 1..Len(t) : jobs[own].order <= jobs[t[i]].order
    BY <1>0, Rest
  <1>2. \A p \in Pending(human) : jobs[p].order \in Nat
    BY JobTyped
  <1>3. /\ fair.order \in Nat
        /\ \A p \in Pending(human) :
             (\E m \in 1..Len(t) : t[m] = p) \/ jobs[p].order < fair.order
    BY <1>0, PlaceOf
  <1>8. \E n \in 0..Len(t) : Between(t, fair.order, n)
    BY <1>0, PlaceOf
  <1>4. PICK n \in 0..Len(t) :
           /\ \A m \in 1..n : jobs[t[m]].order < fair.order
           /\ \A m \in (n + 1)..Len(t) : fair.order < jobs[t[m]].order
           /\ \A k, m \in 1..n : k < m => jobs[t[k]].user # jobs[t[m]].user
           /\ n < Len(t) => \E k \in 1..n : jobs[t[k]].user = jobs[t[n + 1]].user
    BY <1>8 DEF Between
  \* A job of t is before the place if and only if it is among its first n.
  <1>5. ASSUME NEW m \in 1..Len(t)
        PROVE  /\ m \in 1..n \/ m \in (n + 1)..Len(t)
               /\ jobs[t[m]].order < fair.order => m \in 1..n
               /\ fair.order < jobs[t[m]].order => m \in (n + 1)..Len(t)
               /\ jobs[t[m]].order # fair.order
    <2>1. m \in 1..n \/ m \in (n + 1)..Len(t)
      BY <1>1
    <2>2. jobs[t[m]].order \in Nat
      BY <1>1, <1>2
    <2> QED
      BY <1>3, <1>4, <2>1, <2>2
  <1>6. IsNew(human, fair.order)
    BY <1>2, <1>3, <1>5 DEF IsNew
  <1>7. ASSUME TurnsKept(human)
        PROVE  KeepsTurns(human, user, fair.order)
    <2>1. \A k \in Pending(human) : jobs[k].user = user => jobs[k].order < fair.order
      BY <1>1, <1>3
    <2>2. ASSUME NEW k \in Pending(human), NEW l \in Pending(human),
                 jobs[k].user = jobs[l].user, jobs[k].user # user,
                 jobs[k].order < jobs[l].order, jobs[l].order < fair.order
          PROVE  \E m \in Pending(human) : jobs[m].user = user /\ jobs[k].order < jobs[m].order
      <3>1. ASSUME NEW p \in Pending(human), p \in {k, l}, ~\E m \in 1..Len(t) : t[m] = p
            PROVE  \E m \in Pending(human) : jobs[m].user = user /\ jobs[k].order < jobs[m].order
        <4>1. PICK own \in Pending(human) :
                 jobs[own].user = user /\ jobs[p].order <= jobs[own].order
          BY <1>1, <3>1
        <4>2. jobs[k].order <= jobs[own].order
          BY <1>2, <2>2, <3>1, <4>1
        <4>3. jobs[k].order # jobs[own].order
          BY <2>2, <4>1 DEF Distinct
        <4> QED
          BY <1>2, <4>1, <4>2, <4>3
      <3>2. ASSUME NEW x \in 1..Len(t), NEW y \in 1..Len(t), t[x] = k, t[y] = l
            PROVE  FALSE
        <4>1. x \in 1..n /\ y \in 1..n
          BY <1>2, <1>3, <1>5, <2>2, <3>2, SMTT(30)
        <4>2. x < y
          <5>1. ~(y < x) /\ x # y
            BY <1>1, <1>2, <2>2, <3>2, SMTT(30)
          <5> QED
            BY <5>1
        <4> QED
          BY <1>4, <2>2, <3>2, <4>1, <4>2
      <3> QED
        BY <3>1, <3>2
    <2>3. ASSUME NEW k \in Pending(human), NEW j \in Pending(human),
                 jobs[k].user = user, jobs[j].user # user, fair.order < jobs[j].order
          PROVE  \E m \in Pending(human) :
                    /\ jobs[m].user = jobs[j].user
                    /\ jobs[k].order < jobs[m].order /\ jobs[m].order < jobs[j].order
      <3>1. PICK y \in 1..Len(t) : t[y] = j
        BY <1>2, <1>3, <2>3, SMTT(30)
      <3>2. y \in (n + 1)..Len(t)
        BY <1>5, <2>3, <3>1
      <3>3. n + 1 \in 1..Len(t) /\ n < Len(t) /\ (y = n + 1 \/ n + 1 < y)
        BY <1>1, <3>2
      <3>4. PICK q \in 1..n : jobs[t[q]].user = jobs[t[n + 1]].user
        BY <1>4, <3>3
      <3>5. q \in 1..Len(t) /\ q < n + 1
        BY <1>1, <3>3
      <3>6. PICK a \in Pending(human), b \in Pending(human) :
               /\ a = t[q] /\ b = t[n + 1] /\ jobs[a].user = jobs[b].user
               /\ jobs[a].order < fair.order /\ fair.order < jobs[b].order
        <4>1. n + 1 \in (n + 1)..Len(t)
          BY <3>3
        <4> QED
          BY <1>1, <1>4, <3>3, <3>4, <3>5, <4>1
      \* All of t is after the user's own jobs.
      <3>7. jobs[k].order < jobs[a].order
        <4>1. ~\E m \in 1..Len(t) : t[m] = k
          BY <1>1, <2>3
        <4>2. PICK own \in Pending(human) :
                 /\ jobs[own].user = user /\ jobs[k].order <= jobs[own].order
                 /\ jobs[own].order <= jobs[a].order
          BY <1>1, <3>5, <3>6, <4>1
        <4>3. k # a
          BY <1>1, <2>3, <3>5, <3>6
        <4>4. jobs[k].order # jobs[a].order
          BY <4>3 DEF Distinct
        <4> QED
          BY <1>2, <4>2, <4>4
      <3>8. jobs[b].order <= jobs[j].order
        BY <1>1, <1>2, <3>1, <3>3, <3>6
      <3>9. jobs[a].order < jobs[b].order /\ jobs[a].order < jobs[j].order
        BY <1>2, <1>3, <3>6, <3>8, SMTT(30)
      <3>10. CASE jobs[j].user = jobs[a].user
        BY <3>7, <3>9, <3>10
      <3>11. CASE jobs[j].user # jobs[a].user
        <4>1. j # b
          BY <3>6, <3>11
        <4>2. jobs[b].order < jobs[j].order
          <5>1. jobs[b].order # jobs[j].order
            BY <4>1 DEF Distinct
          <5> QED
            BY <1>2, <3>8, <5>1
        <4>3. PICK m \in Pending(human) :
                 /\ jobs[m].user = jobs[j].user
                 /\ jobs[a].order < jobs[m].order /\ jobs[m].order < jobs[j].order
          BY <1>7, <3>6, <3>9, <3>11, <4>2 DEF TurnsKept
        <4> QED
          BY <1>2, <3>7, <4>3
      <3> QED
        BY <3>10, <3>11
    <2> QED
      BY <2>1, <2>2, <2>3 DEF KeepsTurns
  <1> QED
    BY <1>6, <1>7

----------------------------------------------------------------------------
(* The invariant is kept by every step.                                    *)

LEMMA RequestTyped ==
    ASSUME request \in [Requests -> Request], NEW r \in Requests
    PROVE  /\ request[r] \in Request
           /\ request[r].at \in {"idle", "next", "save", "queue"}
           /\ request[r].user \in Users \cup {NoUser} /\ request[r].human \in BOOLEAN
           /\ request[r].order \in Nat /\ request[r].job \in 0..MaxJobs
  BY DEF Request

LEMMA InvInit == Init => Inv
  <1> SUFFICES ASSUME Init PROVE Inv
    OBVIOUS
  <1>1. jobs = <<>> /\ jobs \in Seq(Job) /\ Len(jobs) = 0 /\ DOMAIN jobs = {}
    BY DEF Init
  <1>2. \A human \in BOOLEAN : Pending(human) = {}
    BY <1>1 DEF Pending
  <1>3. \A r \in Requests : request[r] = Idle
    BY DEF Init
  <1>4. Idle \in Request /\ Idle.at = "idle" /\ Idle.job = 0
    BY QueueAssumption DEF Idle, Request
  <1>5. TypeOK
    BY <1>1, <1>4, QueueAssumption DEF Init, TypeOK, Past
  <1>6. \A r \in Requests : Fit(r) /\ ~Placed(r)
    BY <1>3, <1>4 DEF Fit, Placed
  <1>7. Apart /\ Batches /\ OneAtATime
    BY <1>1, <1>3, <1>4, <1>6 DEF Apart, Batches, OneAtATime
  <1>8. \A w \in Workers : Chosen(w)
    BY DEF Init, Chosen
  <1>9. Ordered /\ Fair
    BY <1>1, <1>2, <1>6 DEF Ordered, Fair, Distinct, TurnsKept
  <1>10. Held
    BY DEF Init, Held
  <1> QED
    BY <1>5, <1>6, <1>7, <1>8, <1>9, <1>10 DEF Inv

\* The place of a new job is looked up.
LEMMA InvPlace ==
    ASSUME Inv, NEW r \in Requests, NEW user \in Users, NEW human \in BOOLEAN,
           Place(r, user, human)
    PROVE  Inv'
  <1>1. /\ jobs \in Seq(Job) /\ Len(jobs) <= MaxJobs /\ request \in [Requests -> Request]
        /\ worker \in [Workers -> 0..MaxJobs] /\ past \in Past
    BY DEF Inv, TypeOK
  <1>2. PICK s \in Listings(human) :
           LET fair == FairOrder(s, user) IN
           /\ request' = [request EXCEPT ![r] =
                [@ EXCEPT !.at = "save", !.user = user, !.human = human, !.order = fair.order]]
           /\ past' = [past EXCEPT
                !.rounded = @ \/ fair.rounded,
                !.overlap = @ \/ \E q \in Requests :
                                   request[q].at \in {"save", "queue"} /\ request[q].human = human]
    BY DEF Place
  <1>3. PICK fair : fair = FairOrder(s, user)
    OBVIOUS
  <1>4. /\ fair.order \in Nat /\ fair.order >= 1 /\ fair.rounded \in BOOLEAN
        /\ \A p \in Pending(human) : jobs[p].user = user => jobs[p].order <= fair.order
    <2>1. PICK t : t = AfterOwn(s, user)
      OBVIOUS
    <2> QED
      BY <1>1, <1>3, <2>1, PlaceOf
  <1>5. jobs' = jobs /\ worker' = worker /\ patches' = patches
    BY DEF Place
  <1>6. /\ request'[r].at = "save" /\ request'[r].user = user /\ request'[r].human = human
        /\ request'[r].order = fair.order /\ request'[r].job = request[r].job
        /\ request'[r] \in Request /\ request' \in [Requests -> Request]
        /\ \A q \in Requests : q # r => request'[q] = request[q]
    <2>1. request'[r] = [request[r] EXCEPT !.at = "save", !.user = user, !.human = human,
                                           !.order = fair.order]
          /\ request' = [request EXCEPT ![r] = request'[r]]
      BY <1>1, <1>2, <1>3
    <2>2. request[r] \in Request
      BY <1>1
    <2>3. /\ request'[r].at = "save" /\ request'[r].user = user /\ request'[r].human = human
          /\ request'[r].order = fair.order /\ request'[r].job = request[r].job
          /\ request'[r] \in Request
      BY <1>4, <2>1, <2>2 DEF Request
    <2> QED
      BY <1>1, <2>1, <2>3
  <1>7. /\ past' \in Past /\ past'.deleted = past.deleted /\ past'.passed = past.passed
        /\ past'.revived = past.revived
        /\ ~past'.rounded => ~past.rounded /\ ~fair.rounded
        /\ ~past'.overlap =>
             ~past.overlap /\ \A q \in Requests : Placed(q) => request[q].human # human
    <2> DEFINE met == \E q \in Requests :
                         request[q].at \in {"save", "queue"} /\ request[q].human = human
    <2>1. past' = [past EXCEPT !.rounded = @ \/ fair.rounded, !.overlap = @ \/ met]
      BY <1>2, <1>3
    <2>2. met \in BOOLEAN /\ (~met => \A q \in Requests : Placed(q) => request[q].human # human)
      BY DEF Placed
    <2> HIDE DEF met
    <2>3. /\ past.overlap \in BOOLEAN /\ past.rounded \in BOOLEAN
          /\ past.deleted \in BOOLEAN /\ past.passed \in BOOLEAN
      BY <1>1 DEF Past
    <2>4. /\ past'.overlap = (past.overlap \/ met) /\ past'.rounded = (past.rounded \/ fair.rounded)
          /\ past'.deleted = past.deleted /\ past'.passed = past.passed
          /\ past'.revived = past.revived
      BY <1>1, <2>1 DEF Past
    <2>5. past' \in Past
      BY <1>1, <1>4, <2>1, <2>2, <2>3 DEF Past
    <2> QED
      BY <2>2, <2>3, <2>4, <2>5
  <1>8. /\ Fit(r) /\ request[r].at \in {"idle", "next"}
        /\ request[r].at # "idle" => request[r].user = user
        /\ request[r].at # "idle" => request[r].human = human
    <2>1. Fit(r)
      BY DEF Inv
    <2>2. request[r].at \in {"idle", "next"}
      BY DEF Place
    <2>3. request[r].at # "idle" => request[r].user = user
      BY DEF Place
    <2>4. request[r].at # "idle" => request[r].human = human
      BY <1>1, RequestTyped DEF Place
    <2> QED
      BY <2>1, <2>2, <2>3, <2>4
  <1>9. TypeOK'
    BY <1>1, <1>5, <1>6, <1>7 DEF Inv, TypeOK
  <1>10. \A q \in Requests : Fit(q)'
    <2>1. ASSUME NEW q \in Requests, q # r PROVE Fit(q)'
      BY <1>5, <1>6, <1>7, <2>1 DEF Inv, Fit, Placed, Awaited, IsPending
    <2>2. request[r].job # 0 =>
             /\ request[r].job \in DOMAIN jobs /\ jobs[request[r].job].human = human
             /\ jobs[request[r].job].user = user
      BY <1>8 DEF Fit
    <2>3. request[r].job # 0 /\ Awaited(request[r].job) =>
             jobs[request[r].job].order <= fair.order
      BY <1>4, <2>2 DEF Pending, Awaited, IsPending
    <2>4. Fit(r)'
      BY <1>4, <1>5, <1>6, <1>7, <1>8, <2>2, <2>3 DEF Fit, Placed, Awaited, IsPending
    <2> QED
      BY <2>1, <2>4
  <1>11. Apart' /\ Batches'
    <2>1. \A q \in Requests : request'[q].job = request[q].job
                              /\ (request'[q].at = "queue" => request[q].at = "queue")
      BY <1>6
    <2> QED
      BY <1>5, <1>7, <2>1 DEF Inv, Apart, Batches, Awaited, IsPending
  <1>12. (\A w \in Workers : Chosen(w)') /\ Held'
    BY <1>5, <1>7 DEF Inv, Chosen, Held, Awaited, IsPending
  <1>13. ~past'.overlap => OneAtATime'
    BY <1>6, <1>7 DEF Inv, OneAtATime, Placed
  <1>14. ~past'.overlap /\ ~past'.rounded /\ past'.revived = {} => Ordered'
    <2> SUFFICES ASSUME ~past'.overlap, ~past'.rounded, past'.revived = {}
                 PROVE  Ordered'
      OBVIOUS
    <2>1. Ordered
      BY <1>7 DEF Inv
    <2>2. IsNew(human, fair.order)
      BY <1>1, <1>3, <1>7, <2>1, FairPlace DEF Ordered
    <2>3. \A h \in BOOLEAN : Distinct(h)'
      BY <1>5, <2>1 DEF Ordered, Distinct, Pending
    <2>4. ASSUME NEW q \in Requests, Placed(q)'
          PROVE  IsNew(request[q].human, request[q].order)'
      <3>1. CASE q = r
        BY <1>5, <1>6, <2>2, <3>1 DEF IsNew, Pending
      <3>2. CASE q # r
        BY <1>5, <1>6, <2>1, <2>4, <3>2 DEF Ordered, IsNew, Pending, Placed
      <3> QED
        BY <3>1, <3>2
    <2> QED
      BY <2>3, <2>4 DEF Ordered
  <1>15. ~past'.overlap /\ ~past'.rounded /\ ~past'.deleted /\ ~past'.passed
          /\ past'.revived = {} => Fair'
    <2> SUFFICES ASSUME ~past'.overlap, ~past'.rounded, ~past'.deleted, ~past'.passed,
                        past'.revived = {}
                 PROVE  Fair'
      OBVIOUS
    <2>1. Ordered /\ Fair
      BY <1>7 DEF Inv
    <2>2. KeepsTurns(human, user, fair.order)
      BY <1>1, <1>3, <1>7, <2>1, FairPlace DEF Ordered, Fair
    <2>3. \A h \in BOOLEAN : TurnsKept(h)'
      BY <1>5, <2>1 DEF Fair, TurnsKept, Pending
    <2>4. ASSUME NEW q \in Requests, Placed(q)'
          PROVE  KeepsTurns(request[q].human, request[q].user, request[q].order)'
      <3>1. CASE q = r
        BY <1>5, <1>6, <2>2, <3>1 DEF KeepsTurns, Pending
      <3>2. CASE q # r
        BY <1>5, <1>6, <2>1, <2>4, <3>2 DEF Fair, KeepsTurns, Pending, Placed
      <3> QED
        BY <3>1, <3>2
    <2>5. \A j \in DOMAIN jobs' : ~jobs'[j].gone
      BY <1>5, <2>1 DEF Fair
    <2> QED
      BY <2>3, <2>4, <2>5 DEF Fair
  <1> QED
    BY <1>9, <1>10, <1>11, <1>12, <1>13, <1>14, <1>15 DEF Inv

\* After a job of its own a web worker has the next url of the batch or nothing to do.
LEMMA NextTyped ==
    ASSUME TypeOK, NEW r \in Requests, Fit(r), request[r].at = "queue", NextUrl(r)
    PROVE  /\ request' \in [Requests -> Request]
           /\ \A q \in Requests : q # r => request'[q] = request[q]
           /\ \/ request'[r].at = "idle" /\ request'[r].job = 0
              \/ /\ request'[r].at = "next" /\ request'[r].job = request[r].job
                 /\ request'[r].user = request[r].user /\ request'[r].human = request[r].human
                 /\ request'[r].user \in Users
  <1>1. request \in [Requests -> Request] /\ request[r] \in Request /\ request[r].user \in Users
    BY DEF TypeOK, Fit
  <1>2. CASE request' = [request EXCEPT ![r] = Idle]
    <2>1. Idle \in Request /\ Idle.at = "idle" /\ Idle.job = 0
      BY QueueAssumption DEF Idle, Request
    <2> QED
      BY <1>1, <1>2, <2>1
  <1>3. CASE request' = [request EXCEPT ![r].at = "next", ![r].order = 0]
    <2>1. request'[r] = [request[r] EXCEPT !.at = "next", !.order = 0]
          /\ request' = [request EXCEPT ![r] = request'[r]]
      BY <1>1, <1>3
    <2>2. /\ request'[r].at = "next" /\ request'[r].job = request[r].job
          /\ request'[r].user = request[r].user /\ request'[r].human = request[r].human
      BY <1>1, <2>1 DEF Request
    <2>3. \A q \in Request : [q EXCEPT !.at = "next", !.order = 0] \in Request
      BY DEF Request
    <2>4. request'[r] \in Request
      BY <1>1, <2>1, <2>3
    <2> QED
      BY <1>1, <2>1, <2>2, <2>4
  <1> QED
    BY <1>2, <1>3 DEF NextUrl

\* The job stays invalid.
LEMMA InvRefuse ==
    ASSUME Inv, NEW r \in Requests, Refuse(r)
    PROVE  Inv'
  <1>1. TypeOK /\ Fit(r) /\ request[r].at = "queue"
    BY DEF Inv, Refuse
  <1>2. jobs' = jobs /\ worker' = worker /\ past' = past /\ NextUrl(r)
        /\ patches' = patches
    BY DEF Refuse
  <1>3. /\ request' \in [Requests -> Request]
        /\ \A q \in Requests : q # r => request'[q] = request[q]
        /\ \/ request'[r].at = "idle" /\ request'[r].job = 0
           \/ /\ request'[r].at = "next" /\ request'[r].job = request[r].job
              /\ request'[r].user = request[r].user /\ request'[r].human = request[r].human
              /\ request'[r].user \in Users
    BY <1>1, <1>2, NextTyped
  <1>4. TypeOK'
    BY <1>1, <1>2, <1>3 DEF TypeOK
  <1>5. \A q \in Requests : Fit(q)'
    <2>1. ASSUME NEW q \in Requests, q # r PROVE Fit(q)'
      BY <1>2, <1>3, <2>1 DEF Inv, Fit, Placed, Awaited, IsPending
    <2>2. Fit(r)'
      BY <1>1, <1>2, <1>3 DEF Fit, Placed, Awaited, IsPending
    <2> QED
      BY <2>1, <2>2
  <1>6. \A q \in Requests : /\ request'[q].job = 0 \/ request'[q].job = request[q].job
                            /\ Placed(q)' => q # r /\ Placed(q) /\ request'[q] = request[q]
    BY <1>3 DEF Placed
  <1>7. Apart' /\ Batches'
    <2>1. Apart /\ Batches
      BY DEF Inv
    <2>2. Batches'
      BY <1>2, <2>1 DEF Batches, Awaited, IsPending
    <2>3. \A q \in Requests : request'[q].at = "queue" => request'[q] = request[q]
      BY <1>3
    <2>4. Apart'
      BY <1>2, <1>6, <2>1, <2>3 DEF Apart
    <2> QED
      BY <2>2, <2>4
  <1>8. (\A w \in Workers : Chosen(w)') /\ Held'
    BY <1>2 DEF Inv, Chosen, Held, Awaited, IsPending
  <1>9. ~past'.overlap => OneAtATime'
    BY <1>2, <1>6 DEF Inv, OneAtATime
  <1>10. ~past'.overlap /\ ~past'.rounded /\ past'.revived = {} => Ordered'
    BY <1>2, <1>6 DEF Inv, Ordered, Distinct, IsNew, Pending
  <1>11. ~past'.overlap /\ ~past'.rounded /\ ~past'.deleted /\ ~past'.passed
          /\ past'.revived = {} => Fair'
    <2> SUFFICES ASSUME ~past'.overlap, ~past'.rounded, ~past'.deleted, ~past'.passed,
                        past'.revived = {}
                 PROVE  Fair'
      OBVIOUS
    <2>1. Fair
      BY <1>2 DEF Inv
    <2>2. \A h \in BOOLEAN : TurnsKept(h)'
      BY <1>2, <2>1 DEF Fair, TurnsKept, Pending
    <2>3. ASSUME NEW q \in Requests, Placed(q)'
          PROVE  KeepsTurns(request[q].human, request[q].user, request[q].order)'
      <3>1. KeepsTurns(request[q].human, request[q].user, request[q].order)
            /\ request'[q] = request[q]
        BY <1>6, <2>1, <2>3 DEF Fair
      <3> QED
        BY <1>2, <3>1 DEF KeepsTurns, Pending
    <2>4. \A j \in DOMAIN jobs' : ~jobs'[j].gone
      BY <1>2, <2>1 DEF Fair
    <2> QED
      BY <2>2, <2>3, <2>4 DEF Fair
  <1> QED
    BY <1>4, <1>5, <1>7, <1>8, <1>9, <1>10, <1>11 DEF Inv

\* The job is inserted; it is not pending.
LEMMA InvSave ==
    ASSUME Inv, NEW r \in Requests, Save(r)
    PROVE  Inv'
  <1>1. TypeOK /\ Fit(r) /\ Placed(r) /\ request[r].at = "save" /\ Len(jobs) < MaxJobs
    BY DEF Inv, Save, Placed
  <1>2. PICK n \in Nat : n = Len(jobs) + 1
    BY <1>1, JobTyped DEF TypeOK
  <1>3. PICK new \in Job :
           /\ new.user = request[r].user /\ new.human = request[r].human
           /\ new.order = request[r].order /\ ~new.gone
           /\ new.prev = request[r].job /\ new.status = "invalid"
           /\ jobs' = Append(jobs, new)
    <2>1. PICK new : new = [user |-> request[r].user, human |-> request[r].human,
                            order |-> request[r].order, gone |-> FALSE,
                            prev |-> request[r].job, status |-> "invalid"]
      OBVIOUS
    <2>2. request[r].user \in Users /\ request[r].order >= 1
      BY <1>1 DEF Fit
    <2>3. request[r].human \in BOOLEAN /\ request[r].order \in Nat /\ request[r].job \in 0..MaxJobs
      BY <1>1, RequestTyped DEF TypeOK
    <2>4. new \in Job
      BY <2>1, <2>2, <2>3 DEF Job
    <2>5. jobs' = Append(jobs, new)
      BY <2>1 DEF Save
    <2> QED
      BY <2>1, <2>4, <2>5
  <1>4. /\ jobs' \in Seq(Job) /\ Len(jobs') = n /\ DOMAIN jobs = 1..(n - 1)
        /\ DOMAIN jobs' = 1..n /\ jobs'[n] = new /\ n \notin DOMAIN jobs /\ n # 0 /\ n <= MaxJobs
        /\ \A j \in DOMAIN jobs : j \in DOMAIN jobs' /\ jobs'[j] = jobs[j]
        /\ \A j \in DOMAIN jobs' : j \in DOMAIN jobs \/ j = n
    <2>1. jobs \in Seq(Job) /\ Len(jobs) \in Nat /\ DOMAIN jobs = 1..Len(jobs)
      BY <1>1 DEF TypeOK
    <2>2. jobs' \in Seq(Job) /\ Len(jobs') = n /\ DOMAIN jobs' = 1..n /\ jobs'[n] = new
          /\ \A j \in DOMAIN jobs : jobs'[j] = jobs[j]
      BY <1>2, <1>3, <2>1
    <2>3. n <= MaxJobs /\ MaxJobs \in Nat
      BY <1>1, <1>2, <2>1, QueueAssumption
    <2> QED
      BY <1>2, <2>1, <2>2, <2>3
  <1>5. /\ request'[r].at = "queue" /\ request'[r].job = n
        /\ request'[r].user = request[r].user /\ request'[r].human = request[r].human
        /\ request'[r].order = request[r].order
        /\ request' \in [Requests -> Request]
        /\ \A q \in Requests : q # r => request'[q] = request[q]
    <2>1. request \in [Requests -> Request] /\ request[r] \in Request
      BY <1>1 DEF TypeOK
    <2>2. request'[r] = [request[r] EXCEPT !.at = "queue", !.job = n]
          /\ request' = [request EXCEPT ![r] = request'[r]]
      BY <1>4, <2>1 DEF Save
    <2>3. n \in 0..MaxJobs
      BY <1>4
    <2>4. \A q \in Request : [q EXCEPT !.at = "queue", !.job = n] \in Request
      BY <2>3 DEF Request
    <2>5. request'[r] \in Request
      BY <2>1, <2>2, <2>4
    <2>6. /\ request'[r].at = "queue" /\ request'[r].job = n
          /\ request'[r].user = request[r].user /\ request'[r].human = request[r].human
          /\ request'[r].order = request[r].order
      BY <2>1, <2>2 DEF Request
    <2> QED
      BY <2>1, <2>2, <2>5, <2>6
  <1>6. worker' = worker /\ past' = past /\ patches' = patches
    BY DEF Save
  <1>7. TypeOK'
    BY <1>1, <1>4, <1>5, <1>6 DEF TypeOK
  <1>8. \A h : Pending(h)' = Pending(h)
    BY <1>3, <1>4 DEF Pending
  <1>9. \A q \in Requests : Fit(q)'
    <2>1. ASSUME NEW q \in Requests, q # r PROVE Fit(q)'
      <3>1. Fit(q) /\ request'[q] = request[q]
        BY <1>5, <2>1 DEF Inv
      <3>2. request[q].job \in {0} \cup DOMAIN jobs
        BY <3>1 DEF Fit
      <3>3. request[q].job # 0 => request[q].job \in DOMAIN jobs'
                                  /\ jobs'[request[q].job] = jobs[request[q].job]
        BY <1>4, <3>2
      <3> QED
        BY <1>6, <3>1, <3>2, <3>3 DEF Fit, Placed, Awaited, IsPending
    <2>2. Fit(r)'
      <3>1. n \in DOMAIN jobs' /\ jobs'[n] = new
        BY <1>2, <1>4
      <3>2. request[r].user \in Users /\ request[r].order >= 1
        BY <1>1 DEF Fit
      <3> QED
        BY <1>3, <1>4, <1>5, <3>1, <3>2 DEF Fit, Placed
    <2> QED
      BY <2>1, <2>2
  <1>10. \A q \in Requests : q # r => request'[q] = request[q] /\ request'[q].job # n
    BY <1>4, <1>5 DEF Inv, Fit
  <1>11. \A j \in DOMAIN jobs : jobs[j].prev # n
    <2> TAKE j \in DOMAIN jobs
    <2>1. jobs[j].prev # 0 => jobs[j].prev < j
      BY DEF Inv, Batches
    <2>2. jobs[j].prev \in Nat /\ j \in 1..(n - 1)
      BY <1>1, <1>4, JobTyped DEF TypeOK
    <2> QED
      BY <1>2, <2>1, <2>2
  <1>12. Apart'
    <2>1. Apart /\ \A q \in Requests : Fit(q)
      BY DEF Inv
    <2>2. ASSUME NEW q \in Requests, NEW p \in Requests, q # p, request'[q].job = request'[p].job
          PROVE  request'[p].job = 0
      BY <1>5, <1>10, <2>1, <2>2 DEF Apart
    <2>3. ASSUME NEW q \in Requests, NEW j \in DOMAIN jobs', request'[q].at = "queue"
          PROVE  jobs'[j].prev # request'[q].job
      <3>1. CASE q = r /\ j # n
        BY <1>4, <1>5, <1>11, <3>1
      <3>2. CASE q = r /\ j = n
        BY <1>1, <1>3, <1>4, <1>5, <3>2 DEF Fit
      <3>3. CASE q # r /\ j # n
        BY <1>4, <1>10, <2>1, <2>3, <3>3 DEF Apart
      <3>4. CASE q # r /\ j = n
        <4>1. request[q].at = "queue" /\ request[q].job # 0 /\ request'[q].job = request[q].job
          BY <1>10, <2>1, <2>3, <3>4 DEF Fit
        <4>2. request[q].job # request[r].job
          BY <2>1, <3>4, <4>1 DEF Apart
        <4> QED
          BY <1>3, <1>4, <3>4, <4>1, <4>2
      <3> QED
        BY <3>1, <3>2, <3>3, <3>4
    <2> QED
      BY <2>2, <2>3 DEF Apart
  <1>13. Batches'
    <2> SUFFICES ASSUME NEW j \in DOMAIN jobs', jobs'[j].prev # 0
                 PROVE  /\ jobs'[j].prev < j
                        /\ jobs'[jobs'[j].prev].human = jobs'[j].human
                        /\ Awaited(jobs[j].prev)' =>
                             jobs'[jobs'[j].prev].order <= jobs'[j].order
      BY DEF Batches
    <2>1. CASE j # n
      <3>1. /\ j \in DOMAIN jobs /\ jobs'[j] = jobs[j] /\ jobs[j].prev < j
            /\ jobs[jobs[j].prev].human = jobs[j].human
            /\ Awaited(jobs[j].prev) => jobs[jobs[j].prev].order <= jobs[j].order
        BY <1>4, <2>1 DEF Inv, Batches
      <3>2. jobs[j].prev \in Nat
        BY <1>1, <3>1, JobTyped DEF TypeOK
      <3>3. jobs[j].prev \in DOMAIN jobs
        BY <1>2, <1>4, <3>1, <3>2
      <3>4. jobs'[jobs[j].prev] = jobs[jobs[j].prev]
        BY <1>4, <3>3
      <3> QED
        BY <1>6, <3>1, <3>4 DEF Awaited, IsPending
    <2>2. CASE j = n
      <3>1. jobs'[j] = new /\ new.prev = request[r].job
        BY <1>3, <1>4, <2>2
      <3>2. /\ request[r].job \in DOMAIN jobs /\ jobs[request[r].job].human = request[r].human
            /\ Awaited(request[r].job) => jobs[request[r].job].order <= request[r].order
        BY <1>1, <3>1 DEF Fit
      <3>3. jobs'[request[r].job] = jobs[request[r].job] /\ request[r].job < n
        BY <1>2, <1>4, <3>2
      <3> QED
        BY <1>3, <1>6, <2>2, <3>1, <3>2, <3>3 DEF Awaited, IsPending
    <2> QED
      BY <2>1, <2>2
  <1>14. \A w \in Workers : Chosen(w)'
    <2> SUFFICES ASSUME NEW w \in Workers, worker[w] # 0
                 PROVE  Chosen(w)'
      BY <1>6 DEF Chosen
    <2>1. Chosen(w) /\ worker[w] \in DOMAIN jobs
      BY DEF Inv, Chosen
    <2>2. jobs'[worker[w]] = jobs[worker[w]] /\ worker[w] \in DOMAIN jobs'
      BY <1>4, <2>1
    <2>3. jobs[worker[w]].prev # 0 => jobs[worker[w]].prev \in DOMAIN jobs
      <3>1. jobs[worker[w]].prev # 0 => jobs[worker[w]].prev < worker[w]
        BY <2>1 DEF Inv, Batches
      <3>2. jobs[worker[w]].prev \in Nat /\ worker[w] \in 1..(n - 1)
        BY <1>1, <1>4, <2>1, JobTyped DEF TypeOK
      <3> QED
        BY <1>2, <1>4, <3>1, <3>2
    <2> QED
      BY <1>4, <1>6, <2>1, <2>2, <2>3 DEF Chosen, Awaited, IsPending
  <1>15. \A q \in Requests :
           /\ Placed(q)' <=> Placed(q)
           /\ request'[q].human = request[q].human /\ request'[q].user = request[q].user
           /\ request'[q].order = request[q].order
    BY <1>1, <1>5 DEF Placed
  <1>16. ~past'.overlap => OneAtATime'
    BY <1>6, <1>15 DEF Inv, OneAtATime
  <1>17. ~past'.overlap /\ ~past'.rounded /\ past'.revived = {} => Ordered'
    <2> SUFFICES ASSUME ~past'.overlap, ~past'.rounded, past'.revived = {}
                 PROVE  Ordered'
      OBVIOUS
    <2>1. Ordered
      BY <1>6 DEF Inv
    <2>2. \A h \in BOOLEAN : Distinct(h)'
      BY <1>4, <1>8, <2>1 DEF Ordered, Distinct, Pending
    <2>3. \A q \in Requests : Placed(q)' => IsNew(request[q].human, request[q].order)'
      BY <1>3, <1>4, <1>15, <2>1 DEF Ordered, IsNew, Pending
    <2> QED
      BY <2>2, <2>3 DEF Ordered
  <1>18. ~past'.overlap /\ ~past'.rounded /\ ~past'.deleted /\ ~past'.passed
          /\ past'.revived = {} => Fair'
    <2> SUFFICES ASSUME ~past'.overlap, ~past'.rounded, ~past'.deleted, ~past'.passed,
                        past'.revived = {}
                 PROVE  Fair'
      OBVIOUS
    <2>1. Fair
      BY <1>6 DEF Inv
    <2>2. \A h \in BOOLEAN : \A j \in Pending(h) : jobs'[j] = jobs[j]
      BY <1>4 DEF Pending
    <2>3. ASSUME NEW h \in BOOLEAN PROVE TurnsKept(h)'
      <3>1. TurnsKept(h)
        BY <2>1 DEF Fair
      <3> QED
        BY <1>8, <2>2, <3>1 DEF TurnsKept
    <2>4. ASSUME NEW q \in Requests, Placed(q)'
          PROVE  KeepsTurns(request[q].human, request[q].user, request[q].order)'
      <3>1. PICK h \in BOOLEAN, u \in Users \cup {NoUser}, o \in Nat :
               h = request[q].human /\ u = request[q].user /\ o = request[q].order
        BY <1>1, RequestTyped DEF TypeOK
      <3>2. KeepsTurns(h, u, o)
        BY <1>15, <2>1, <2>4, <3>1 DEF Fair
      <3>3. KeepsTurns(h, u, o)'
        BY <1>8, <2>2, <3>2 DEF KeepsTurns
      <3>4. h = request'[q].human /\ u = request'[q].user /\ o = request'[q].order
        BY <1>15, <3>1
      <3> QED
        BY <3>3, <3>4
    <2>5. \A j \in DOMAIN jobs' : ~jobs'[j].gone
      BY <1>3, <1>4, <2>1 DEF Fair
    <2> QED
      BY <2>3, <2>4, <2>5 DEF Fair
  <1>19. Held'
    BY <1>4, <1>6 DEF Inv, Held
  <1> QED
    BY <1>7, <1>9, <1>12, <1>13, <1>14, <1>16, <1>17, <1>18, <1>19 DEF Inv

\* The rows are those that were there, but for who is pending and whose link is deleted.
SameRows ==
    /\ jobs' \in Seq(Job) /\ Len(jobs') = Len(jobs) /\ DOMAIN jobs' = DOMAIN jobs
    /\ \A j \in DOMAIN jobs :
          /\ jobs'[j].user = jobs[j].user /\ jobs'[j].human = jobs[j].human
          /\ jobs'[j].order = jobs[j].order /\ jobs'[j].prev = jobs[j].prev

\* The job a new one comes after is a row of the table.
LEMMA PrevTyped ==
    ASSUME Inv, NEW j \in DOMAIN jobs, jobs[j].prev # 0
    PROVE  jobs[j].prev \in DOMAIN jobs /\ jobs[j].prev < j
  <1>1. jobs[j].prev < j
    BY DEF Inv, Batches
  <1>2. jobs[j].prev \in Nat /\ j \in 1..Len(jobs) /\ DOMAIN jobs = 1..Len(jobs) /\ Len(jobs) \in Nat
    BY JobTyped DEF Inv, TypeOK
  <1> QED
    BY <1>1, <1>2

\* The link is created and its job becomes pending.
LEMMA InvQueue ==
    ASSUME Inv, NEW r \in Requests, Queue(r)
    PROVE  Inv'
  <1>1. TypeOK /\ Fit(r) /\ Placed(r) /\ request[r].at = "queue"
    BY DEF Inv, Queue, Placed
  <1>2. PICK n \in DOMAIN jobs :
           /\ n = request[r].job /\ n # 0 /\ jobs[n].status = "invalid"
           /\ jobs[n].user = request[r].user /\ jobs[n].human = request[r].human
           /\ jobs[n].order = request[r].order
           /\ jobs' = [jobs EXCEPT ![n].status = "pending"]
    BY <1>1 DEF Fit, Queue
  <1>3. worker' = worker /\ past' = past /\ patches' = patches
    BY DEF Queue
  <1>4. /\ request' \in [Requests -> Request]
        /\ \A q \in Requests : q # r => request'[q] = request[q]
        /\ \/ request'[r].at = "idle" /\ request'[r].job = 0
           \/ /\ request'[r].at = "next" /\ request'[r].job = request[r].job
              /\ request'[r].user = request[r].user /\ request'[r].human = request[r].human
              /\ request'[r].user \in Users
    BY <1>1, NextTyped DEF Queue
  <1>5. /\ SameRows /\ jobs'[n].status = "pending" /\ jobs'[n].gone = jobs[n].gone
        /\ \A j \in DOMAIN jobs : j # n => jobs'[j] = jobs[j]
    <2>1. jobs \in Seq(Job) /\ jobs[n] \in Job
      BY <1>1, JobTyped DEF TypeOK
    <2>2. jobs'[n] = [jobs[n] EXCEPT !.status = "pending"]
          /\ jobs' = [jobs EXCEPT ![n] = jobs'[n]]
      BY <1>2, <2>1
    <2>3. \A j \in Job : [j EXCEPT !.status = "pending"] \in Job
      BY DEF Job
    <2>4. jobs'[n] \in Job
      BY <2>1, <2>2, <2>3
    <2>5. jobs' \in Seq(Job) /\ Len(jobs') = Len(jobs) /\ DOMAIN jobs' = DOMAIN jobs
          /\ \A j \in DOMAIN jobs : j # n => jobs'[j] = jobs[j]
      BY <2>1, <2>2, <2>4
    <2>6. /\ jobs'[n].user = jobs[n].user /\ jobs'[n].human = jobs[n].human
          /\ jobs'[n].order = jobs[n].order /\ jobs'[n].prev = jobs[n].prev
          /\ jobs'[n].status = "pending" /\ jobs'[n].gone = jobs[n].gone
      BY <2>1, <2>2 DEF Job
    <2> QED
      BY <2>5, <2>6 DEF SameRows
  <1>6. TypeOK'
    BY <1>1, <1>3, <1>4, <1>5 DEF TypeOK, SameRows
  <1>7. \A h : Pending(h)' = Pending(h) \cup {k \in {n} : jobs[n].human = h}
    BY <1>5 DEF Pending, SameRows
  <1>8. \A q \in Requests : q # r => request'[q] = request[q] /\ request[q].job # n
    BY <1>2, <1>4 DEF Inv, Apart
  <1>9. \A q \in Requests : Fit(q)'
    <2>1. ASSUME NEW q \in Requests, q # r PROVE Fit(q)'
      <3>1. Fit(q) /\ request'[q] = request[q] /\ request[q].job # n
        BY <1>8, <2>1 DEF Inv
      <3>2. request[q].job \in {0} \cup DOMAIN jobs
        BY <3>1 DEF Fit
      <3>3. request[q].job # 0 => request[q].job \in DOMAIN jobs'
                                  /\ jobs'[request[q].job] = jobs[request[q].job]
        BY <1>5, <3>1, <3>2 DEF SameRows
      <3> QED
        BY <1>3, <3>1, <3>2, <3>3 DEF Fit, Placed, Awaited, IsPending
    <2>2. Fit(r)'
      BY <1>1, <1>2, <1>4, <1>5 DEF Fit, Placed, SameRows
    <2> QED
      BY <2>1, <2>2
  <1>10. \A q \in Requests : /\ request'[q].job = 0 \/ request'[q].job = request[q].job
                             /\ Placed(q)' => q # r /\ Placed(q) /\ request'[q] = request[q]
                             /\ request'[q].at = "queue" => request'[q] = request[q]
    BY <1>4 DEF Placed
  <1>11. Apart'
    BY <1>5, <1>10 DEF Inv, Apart, SameRows
  <1>12. Batches'
    <2> SUFFICES ASSUME NEW j \in DOMAIN jobs, jobs[j].prev # 0
                 PROVE  /\ jobs'[j].prev < j
                        /\ jobs'[jobs'[j].prev].human = jobs'[j].human
                        /\ Awaited(jobs[j].prev)' =>
                             jobs'[jobs'[j].prev].order <= jobs'[j].order
      BY <1>5 DEF Batches, SameRows
    <2>1. /\ jobs[j].prev < j /\ jobs[jobs[j].prev].human = jobs[j].human
          /\ Awaited(jobs[j].prev) => jobs[jobs[j].prev].order <= jobs[j].order
      BY DEF Inv, Batches
    <2>2. jobs[j].prev # n
      BY <1>1, <1>2 DEF Inv, Apart
    <2>3. jobs[j].prev \in DOMAIN jobs
      BY PrevTyped
    <2>4. jobs'[jobs[j].prev] = jobs[jobs[j].prev] /\ jobs'[j].prev = jobs[j].prev
          /\ jobs'[j].human = jobs[j].human /\ jobs'[j].order = jobs[j].order
      BY <1>5, <2>2, <2>3 DEF SameRows
    <2> QED
      BY <1>3, <2>1, <2>4 DEF Awaited, IsPending
  <1>13. \A w \in Workers : Chosen(w)'
    <2> SUFFICES ASSUME NEW w \in Workers, worker[w] # 0
                 PROVE  Chosen(w)'
      BY <1>3 DEF Chosen
    <2>1. Chosen(w) /\ worker[w] \in DOMAIN jobs /\ worker[w] # n
      BY <1>2 DEF Inv, Chosen
    <2>2. jobs'[worker[w]] = jobs[worker[w]]
      BY <1>5, <2>1
    <2>3. jobs[worker[w]].prev # n
      BY <1>1, <1>2, <2>1 DEF Inv, Apart
    <2>4. jobs[worker[w]].prev # 0 => jobs'[jobs[worker[w]].prev] = jobs[jobs[worker[w]].prev]
      BY <1>5, <2>1, <2>3, PrevTyped
    <2> QED
      BY <1>3, <1>5, <2>1, <2>2, <2>4 DEF Chosen, Awaited, IsPending, SameRows
  <1>14. ~past'.overlap => OneAtATime'
    BY <1>3, <1>10 DEF Inv, OneAtATime
  \* Of two POSTs to one queue only this one was placed.
  <1>15. ~past.overlap =>
           \A q \in Requests : Placed(q)' => request[q].human # jobs[n].human
    <2> SUFFICES ASSUME ~past.overlap, NEW q \in Requests, Placed(q)'
                 PROVE  request[q].human # jobs[n].human
      OBVIOUS
    <2>1. OneAtATime /\ Placed(q) /\ q # r
      BY <1>10 DEF Inv
    <2>2. request[q].human # request[r].human
      BY <1>1, <2>1 DEF OneAtATime
    <2> QED
      BY <1>2, <2>2
  <1>16. \A h \in BOOLEAN : h # jobs[n].human => Pending(h)' = Pending(h)
    BY <1>7
  <1>17. \A h : n \notin Pending(h) /\ (\A j \in Pending(h) : j \in DOMAIN jobs /\ jobs'[j] = jobs[j])
    BY <1>2, <1>5 DEF Pending
  <1>18. ~past'.overlap /\ ~past'.rounded /\ past'.revived = {} => Ordered'
    <2> SUFFICES ASSUME ~past'.overlap, ~past'.rounded, past'.revived = {}
                 PROVE  Ordered'
      OBVIOUS
    <2>1. Ordered /\ ~past.overlap
      BY <1>3 DEF Inv
    <2>2. IsNew(jobs[n].human, jobs[n].order)
      BY <1>1, <1>2, <2>1 DEF Ordered
    <2>3. ASSUME NEW h \in BOOLEAN PROVE Distinct(h)'
      <3>1. Distinct(h)
        BY <2>1 DEF Ordered
      <3>2. CASE h # jobs[n].human
        BY <1>16, <1>17, <3>1, <3>2 DEF Distinct
      <3>3. CASE h = jobs[n].human
        <4>1. jobs'[n].order = jobs[n].order /\ \A k \in Pending(h) : jobs[k].order # jobs[n].order
          BY <1>5, <2>2, <3>3 DEF IsNew, SameRows
        <4>2. \A j \in Pending(h)' : j = n \/ j \in Pending(h)
          BY <1>7
        <4> QED
          BY <1>17, <3>1, <4>1, <4>2 DEF Distinct
      <3> QED
        BY <3>2, <3>3
    <2>4. ASSUME NEW q \in Requests, Placed(q)'
          PROVE  IsNew(request[q].human, request[q].order)'
      <3>1. PICK h \in BOOLEAN, o \in Nat : h = request[q].human /\ o = request[q].order
        BY <1>1, RequestTyped DEF TypeOK
      <3>2. IsNew(h, o) /\ h # jobs[n].human
        BY <1>10, <1>15, <2>1, <2>4, <3>1 DEF Ordered
      <3>3. IsNew(h, o)'
        BY <1>16, <1>17, <3>2 DEF IsNew
      <3>4. h = request'[q].human /\ o = request'[q].order
        BY <1>10, <2>4, <3>1
      <3> QED
        BY <3>3, <3>4
    <2> QED
      BY <2>3, <2>4 DEF Ordered
  <1>19. ~past'.overlap /\ ~past'.rounded /\ ~past'.deleted /\ ~past'.passed
          /\ past'.revived = {} => Fair'
    <2> SUFFICES ASSUME ~past'.overlap, ~past'.rounded, ~past'.deleted, ~past'.passed,
                        past'.revived = {}
                 PROVE  Fair'
      OBVIOUS
    <2>1. Fair /\ ~past.overlap
      BY <1>3 DEF Inv
    <2>2. PICK hn \in BOOLEAN, un \in Users, on \in Nat :
             /\ hn = jobs[n].human /\ un = jobs[n].user /\ on = jobs[n].order
             /\ un = jobs'[n].user /\ on = jobs'[n].order
      BY <1>1, <1>5, JobTyped DEF TypeOK, SameRows
    <2>3. KeepsTurns(hn, un, on)
      BY <1>1, <1>2, <2>1, <2>2 DEF Fair
    <2>4. ASSUME NEW h \in BOOLEAN PROVE TurnsKept(h)'
      <3>1. TurnsKept(h)
        BY <2>1 DEF Fair
      <3>2. CASE h # hn
        BY <1>16, <1>17, <2>2, <3>1, <3>2 DEF TurnsKept
      <3>3. CASE h = hn
        <4>1. \A j \in Pending(h)' : j = n \/ j \in Pending(h)
          BY <1>7
        <4>2. Pending(h) \subseteq Pending(h)' /\ n \in Pending(h)'
          BY <1>7, <2>2, <3>3
        <4>3. \A k \in Pending(h)' : jobs'[k].order \in Nat
          <5> TAKE k \in Pending(h)'
          <5>1. k \in DOMAIN jobs
            BY <1>17, <4>1
          <5>2. jobs[k].order \in Nat
            BY <1>1, <5>1, JobTyped DEF TypeOK
          <5> QED
            BY <1>5, <5>1, <5>2 DEF SameRows
        <4> SUFFICES ASSUME NEW j \in Pending(h)', NEW k \in Pending(h)', NEW l \in Pending(h)',
                            jobs'[k].user = jobs'[l].user, jobs'[j].user # jobs'[k].user,
                            jobs'[k].order < jobs'[l].order, jobs'[l].order < jobs'[j].order
                     PROVE  \E m \in Pending(h)' :
                               /\ jobs'[m].user = jobs'[j].user
                               /\ jobs'[k].order < jobs'[m].order
                               /\ jobs'[m].order < jobs'[j].order
          BY DEF TurnsKept
        <4>4. CASE j # n /\ k # n /\ l # n
          <5>1. j \in Pending(h) /\ k \in Pending(h) /\ l \in Pending(h)
            BY <4>1, <4>4
          <5> QED
            BY <1>17, <3>1, <4>2, <5>1 DEF TurnsKept
        <4>5. CASE j = n
          <5>1. k \in Pending(h) /\ l \in Pending(h)
            BY <4>1, <4>3, <4>5
          <5>2. PICK m \in Pending(h) : jobs[m].user = un /\ jobs[k].order < jobs[m].order
            BY <1>17, <2>2, <2>3, <3>3, <4>5, <5>1 DEF KeepsTurns
          <5>3. jobs[m].order < on
            BY <2>3, <3>3, <5>2 DEF KeepsTurns
          <5> QED
            BY <1>17, <2>2, <4>2, <4>5, <5>1, <5>2, <5>3
        <4>6. CASE k = n
          <5>1. l \in Pending(h)
            BY <4>1, <4>3, <4>6
          <5>2. jobs'[l].order < on
            BY <1>17, <2>2, <2>3, <3>3, <4>6, <5>1 DEF KeepsTurns
          <5> QED
            BY <2>2, <4>2, <4>3, <4>6, <5>2
        <4>7. CASE l = n /\ j # n /\ k # n
          <5>1. k \in Pending(h) /\ j \in Pending(h)
            BY <4>1, <4>7
          <5>2. PICK m \in Pending(h) :
                   /\ jobs[m].user = jobs[j].user
                   /\ jobs[k].order < jobs[m].order /\ jobs[m].order < jobs[j].order
            BY <1>17, <2>2, <2>3, <3>3, <4>7, <5>1 DEF KeepsTurns
          <5> QED
            BY <1>17, <4>2, <5>1, <5>2
        <4> QED
          BY <4>4, <4>5, <4>6, <4>7
      <3> QED
        BY <3>2, <3>3
    <2>5. ASSUME NEW q \in Requests, Placed(q)'
          PROVE  KeepsTurns(request[q].human, request[q].user, request[q].order)'
      <3>1. PICK h \in BOOLEAN, u \in Users \cup {NoUser}, o \in Nat :
               h = request[q].human /\ u = request[q].user /\ o = request[q].order
        BY <1>1, RequestTyped DEF TypeOK
      <3>2. KeepsTurns(h, u, o) /\ h # jobs[n].human
        BY <1>10, <1>15, <2>1, <2>5, <3>1 DEF Fair
      <3>3. KeepsTurns(h, u, o)'
        BY <1>16, <1>17, <3>2 DEF KeepsTurns
      <3>4. h = request'[q].human /\ u = request'[q].user /\ o = request'[q].order
        BY <1>10, <2>5, <3>1
      <3> QED
        BY <3>3, <3>4
    <2>6. \A j \in DOMAIN jobs' : ~jobs'[j].gone
      BY <1>5, <2>1 DEF Fair, SameRows
    <2> QED
      BY <2>4, <2>5, <2>6 DEF Fair
  <1>20. Held'
    BY <1>3, <1>5 DEF Inv, Held, SameRows
  <1> QED
    BY <1>6, <1>9, <1>11, <1>12, <1>13, <1>14, <1>18, <1>19, <1>20 DEF Inv

\* A step after which fewer jobs are pending and no web worker has moved keeps all but
\* the turns.
LEMMA FewerPending ==
    ASSUME Inv, SameRows, request' = request, past' \in Past,
           past'.overlap = past.overlap, past'.rounded = past.rounded,
           past'.revived = past.revived, patches' \subseteq 1..MaxJobs, Held',
           \A w \in Workers : worker'[w] \in 0..MaxJobs /\ Chosen(w)',
           worker' \in [Workers -> 0..MaxJobs],
           \A j \in DOMAIN jobs :
              /\ jobs'[j].status = "pending" => jobs[j].status = "pending"
              /\ jobs'[j].status = "invalid" <=> jobs[j].status = "invalid",
           ~past'.overlap /\ ~past'.rounded /\ ~past'.deleted /\ ~past'.passed
          /\ past'.revived = {} => Fair'
    PROVE  Inv'
  <1>1. TypeOK'
    BY DEF Inv, TypeOK, SameRows
  <1>2. \A h : \A k \in Pending(h)' :
           k \in Pending(h) /\ k \in DOMAIN jobs /\ jobs'[k].order = jobs[k].order
    BY DEF Pending, SameRows
  <1>3. \A q \in Requests : Fit(q)'
    <2> TAKE q \in Requests
    <2>1. Fit(q)
      BY DEF Inv
    <2>2. request[q].job \in {0} \cup DOMAIN jobs
      BY <2>1 DEF Fit
    <2>3. request[q].job # 0 =>
            LET j == request[q].job IN
            /\ j \in DOMAIN jobs'
            /\ jobs'[j].user = jobs[j].user /\ jobs'[j].human = jobs[j].human
            /\ jobs'[j].order = jobs[j].order
            /\ jobs'[j].status = "pending" => jobs[j].status = "pending"
            /\ jobs[j].status = "invalid" => jobs'[j].status = "invalid"
      BY <2>2 DEF SameRows
    <2> QED
      BY <2>1, <2>2, <2>3 DEF Fit, Placed, Awaited, IsPending
  <1>4. Apart'
    BY DEF Inv, Apart, SameRows
  <1>5. Batches'
    <2> SUFFICES ASSUME NEW j \in DOMAIN jobs, jobs[j].prev # 0
                 PROVE  /\ jobs'[j].prev < j
                        /\ jobs'[jobs'[j].prev].human = jobs'[j].human
                        /\ Awaited(jobs[j].prev)' =>
                             jobs'[jobs'[j].prev].order <= jobs'[j].order
      BY DEF Batches, SameRows
    <2>1. PICK p \in DOMAIN jobs : p = jobs[j].prev /\ p < j
      BY PrevTyped
    <2>2. jobs[p].human = jobs[j].human /\ (Awaited(p) => jobs[p].order <= jobs[j].order)
      BY <2>1 DEF Inv, Batches
    <2>3. jobs'[j].prev = p /\ jobs'[j].order = jobs[j].order /\ jobs'[p].order = jobs[p].order
          /\ (jobs'[p].status = "pending" => jobs[p].status = "pending")
      BY <2>1 DEF SameRows
    <2>4. jobs'[p].human = jobs'[j].human
      BY <2>2 DEF SameRows
    <2>5. jobs'[p].status = "pending" /\ p \notin past'.revived =>
            jobs'[p].order <= jobs'[j].order
      BY <2>2, <2>3 DEF Awaited, IsPending
    <2> QED
      BY <2>1, <2>3, <2>4, <2>5 DEF Awaited, IsPending
  <1>6. ~past'.overlap => OneAtATime'
    BY DEF Inv, OneAtATime, Placed
  <1>7. ~past'.overlap /\ ~past'.rounded /\ past'.revived = {} => Ordered'
    <2> SUFFICES ASSUME ~past'.overlap, ~past'.rounded, past'.revived = {}
                 PROVE  Ordered'
      OBVIOUS
    <2>1. Ordered
      BY DEF Inv
    <2>2. \A h \in BOOLEAN : Distinct(h)'
      BY <1>2, <2>1 DEF Ordered, Distinct
    <2>3. ASSUME NEW q \in Requests, Placed(q)'
          PROVE  IsNew(request[q].human, request[q].order)'
      <3>1. PICK h, o : h = request[q].human /\ o = request[q].order
        OBVIOUS
      <3>2. IsNew(h, o)
        BY <2>1, <2>3, <3>1 DEF Ordered, Placed
      <3>3. IsNew(h, o)'
        BY <1>2, <3>2 DEF IsNew
      <3>4. h = request'[q].human /\ o = request'[q].order
        BY <3>1
      <3> QED
        BY <3>3, <3>4
    <2> QED
      BY <2>2, <2>3 DEF Ordered
  <1> QED
    BY <1>1, <1>3, <1>4, <1>5, <1>6, <1>7 DEF Inv

\* A link is deleted; its job stays pending until a worker looks.
LEMMA InvDeleteLink ==
    ASSUME Inv, NEW n \in DOMAIN jobs, DeleteLink(n)
    PROVE  Inv'
  <1>1. TypeOK /\ jobs \in Seq(Job) /\ jobs[n] \in Job /\ past \in Past
    BY JobTyped DEF Inv, TypeOK
  <1>2. jobs'[n] = [jobs[n] EXCEPT !.gone = TRUE] /\ jobs' = [jobs EXCEPT ![n] = jobs'[n]]
    BY <1>1 DEF DeleteLink
  <1>3. \A j \in Job : [j EXCEPT !.gone = TRUE] \in Job
    BY DEF Job
  <1>4. /\ SameRows
        /\ \A j \in DOMAIN jobs : jobs'[j].status = jobs[j].status
    <2>1. jobs' \in Seq(Job) /\ Len(jobs') = Len(jobs) /\ DOMAIN jobs' = DOMAIN jobs
          /\ \A j \in DOMAIN jobs : j # n => jobs'[j] = jobs[j]
      BY <1>1, <1>2, <1>3
    <2>2. /\ jobs'[n].user = jobs[n].user /\ jobs'[n].human = jobs[n].human
          /\ jobs'[n].order = jobs[n].order /\ jobs'[n].prev = jobs[n].prev
          /\ jobs'[n].status = jobs[n].status
      BY <1>1, <1>2 DEF Job
    <2> QED
      BY <2>1, <2>2 DEF SameRows
  <1>5. request' = request /\ worker' = worker /\ patches' = patches
    BY DEF DeleteLink
  <1>6. /\ past' \in Past /\ past'.overlap = past.overlap /\ past'.rounded = past.rounded
        /\ past'.deleted = TRUE /\ past'.revived = past.revived
    BY <1>1 DEF DeleteLink, Past
  <1>7. \A w \in Workers : worker'[w] \in 0..MaxJobs /\ Chosen(w)'
    <2> TAKE w \in Workers
    <2>1. Chosen(w) /\ worker[w] \in 0..MaxJobs
      BY DEF Inv, TypeOK
    <2>2. worker[w] # 0 /\ jobs[worker[w]].prev # 0 => jobs[worker[w]].prev \in DOMAIN jobs
      BY <2>1, PrevTyped DEF Chosen
    <2> QED
      BY <1>4, <1>5, <1>6, <2>1, <2>2 DEF Chosen, Awaited, IsPending, SameRows
  <1>8. worker' \in [Workers -> 0..MaxJobs]
    BY <1>1, <1>5 DEF Inv, TypeOK
  <1>9. Held' /\ patches' \subseteq 1..MaxJobs
    BY <1>4, <1>5 DEF Inv, TypeOK, Held, SameRows
  <1>10. \A j \in DOMAIN jobs :
            /\ jobs'[j].status = "pending" => jobs[j].status = "pending"
            /\ jobs'[j].status = "invalid" <=> jobs[j].status = "invalid"
    BY <1>4
  <1> QED
    BY <1>4, <1>5, <1>6, <1>7, <1>8, <1>9, <1>10, FewerPending

\* The first job of a table comes after no pending job of its batch.
LEMMA FirstTyped ==
    ASSUME Inv, NEW table, DOMAIN table = DOMAIN jobs,
           \A j \in DOMAIN jobs : table[j].status = "pending" => jobs[j].status = "pending",
           NEW f, f = FirstJob(table)
    PROVE  /\ f \in 0..MaxJobs
           /\ f # 0 => /\ f \in DOMAIN jobs /\ table[f].status = "pending"
                       /\ jobs[f].prev # 0 /\ jobs[f].prev \notin past.revived =>
                            table[jobs[f].prev].status # "pending"
  <1> DEFINE P == {j \in DOMAIN table : table[j].status = "pending"}
  <1>1. jobs \in Seq(Job) /\ Len(jobs) \in Nat /\ DOMAIN jobs = 1..Len(jobs) /\ Len(jobs) <= MaxJobs
    BY JobTyped DEF Inv, TypeOK
  <1>2. P \in SUBSET DOMAIN jobs
    OBVIOUS
  <1>3. CASE P = {}
    BY <1>3, QueueAssumption DEF FirstJob
  <1>4. CASE P # {}
    <2>1. f = CHOOSE j \in P : \A k \in P \ {j} : RunsBefore(j, k)
      BY <1>4 DEF FirstJob
    <2>2. \E j \in P : \A k \in P \ {j} : RunsBefore(j, k)
      <3> HIDE DEF P
      <3> QED
        BY <1>1, <1>2, <1>4, SomeFirst
    <2>3. f \in P /\ \A k \in P \ {f} : RunsBefore(f, k)
      <3> HIDE DEF P
      <3> QED
        BY <2>1, <2>2
    <2>4. f \in DOMAIN jobs /\ table[f].status = "pending" /\ f \in 0..MaxJobs
      BY <1>1, <2>3, QueueAssumption
    <2>5. ASSUME NEW p, p = jobs[f].prev, p # 0, p \notin past.revived,
                 table[p].status = "pending"
          PROVE  FALSE
      <3>1. p \in DOMAIN jobs /\ p < f
        BY <2>4, <2>5, PrevTyped
      <3>2. p \in P /\ jobs[p].status = "pending"
        BY <2>5, <3>1
      <3>3. jobs[p].human = jobs[f].human /\ jobs[p].order <= jobs[f].order
        BY <2>4, <2>5, <3>2 DEF Inv, Batches, Awaited, IsPending
      <3>4. RunsBefore(f, p)
        BY <1>1, <2>3, <2>4, <3>1, <3>2
      <3>5. /\ jobs[p].order \in Nat /\ jobs[f].order \in Nat /\ p \in Nat /\ f \in Nat
            /\ jobs[f].human \in BOOLEAN /\ jobs[p].human \in BOOLEAN
        BY <1>1, <2>4, <3>1, JobTyped
      <3> QED
        BY <3>1, <3>3, <3>4, <3>5 DEF RunsBefore
    <2> QED
      BY <2>4, <2>5
  <1> QED
    BY <1>3, <1>4

\* A worker drops the jobs of deleted links and reads the first one left.
LEMMA InvLook ==
    ASSUME Inv, NEW w \in Workers, Look(w)
    PROVE  Inv'
  <1>1. /\ jobs \in Seq(Job) /\ Len(jobs) \in Nat /\ DOMAIN jobs = 1..Len(jobs)
        /\ \A j \in DOMAIN jobs : jobs[j] \in Job
        /\ worker \in [Workers -> 0..MaxJobs] /\ past \in Past
    BY JobTyped DEF Inv, TypeOK
  <1>2. jobs' = [j \in DOMAIN jobs |-> Cleaned(jobs[j])]
        /\ worker' = [worker EXCEPT ![w] = FirstJob(jobs')]
        /\ request' = request /\ past' = past /\ patches' = patches
    BY DEF Look
  <1>3. ASSUME NEW j \in Job
        PROVE  /\ Cleaned(j) \in Job
               /\ Cleaned(j).user = j.user /\ Cleaned(j).human = j.human
               /\ Cleaned(j).order = j.order /\ Cleaned(j).prev = j.prev
               /\ Cleaned(j).status = "pending" => j.status = "pending"
               /\ Cleaned(j).status = "invalid" <=> j.status = "invalid"
               /\ ~j.gone => Cleaned(j) = j
    BY DEF Job, Cleaned
  <1>4. jobs' \in Seq(Job) /\ Len(jobs') = Len(jobs) /\ DOMAIN jobs' = DOMAIN jobs
        /\ \A j \in DOMAIN jobs : jobs'[j] = Cleaned(jobs[j])
    BY <1>1, <1>2, <1>3
  <1>5. /\ SameRows
        /\ \A j \in DOMAIN jobs :
              /\ jobs'[j].status = "pending" => jobs[j].status = "pending"
              /\ jobs'[j].status = "invalid" <=> jobs[j].status = "invalid"
    BY <1>1, <1>3, <1>4 DEF SameRows
  <1>6. PICK f : f = FirstJob(jobs')
    OBVIOUS
  <1>7. /\ f \in 0..MaxJobs
        /\ f # 0 => /\ f \in DOMAIN jobs /\ jobs'[f].status = "pending"
                    /\ jobs[f].prev # 0 /\ jobs[f].prev \notin past.revived =>
                         jobs'[jobs[f].prev].status # "pending"
    BY <1>4, <1>5, <1>6, FirstTyped
  <1>8. worker' = [worker EXCEPT ![w] = f] /\ worker' \in [Workers -> 0..MaxJobs]
    BY <1>1, <1>2, <1>6, <1>7
  <1>9. \A v \in Workers : worker'[v] \in 0..MaxJobs /\ Chosen(v)'
    <2>1. ASSUME NEW v \in Workers, v # w PROVE Chosen(v)'
      <3>1. Chosen(v) /\ worker'[v] = worker[v]
        BY <1>1, <1>8, <2>1 DEF Inv
      <3>2. worker[v] # 0 /\ jobs[worker[v]].prev # 0 => jobs[worker[v]].prev \in DOMAIN jobs
        BY <3>1, PrevTyped DEF Chosen
      <3> QED
        BY <1>2, <1>5, <3>1, <3>2 DEF Chosen, Awaited, IsPending, SameRows
    <2>2. Chosen(w)'
      <3>1. worker'[w] = f
        BY <1>1, <1>8
      <3>2. f # 0 => jobs'[f].prev = jobs[f].prev
        BY <1>5, <1>7 DEF SameRows
      <3> QED
        BY <1>2, <1>4, <1>7, <3>1, <3>2 DEF Chosen, Awaited, IsPending
    <2> QED
      BY <1>8, <2>1, <2>2
  <1>10. Fair => Fair'
    <2> SUFFICES ASSUME Fair PROVE Fair'
      OBVIOUS
    <2>1. \A j \in DOMAIN jobs : jobs'[j] = jobs[j]
      BY <1>1, <1>3, <1>4 DEF Fair
    <2>2. jobs' = jobs
      BY <1>1, <1>4, <2>1
    <2>3. \A h \in BOOLEAN : TurnsKept(h)'
      BY <2>2 DEF Fair, TurnsKept, Pending
    <2>4. ASSUME NEW q \in Requests, Placed(q)'
          PROVE  KeepsTurns(request[q].human, request[q].user, request[q].order)'
      <3>1. PICK h, u, o : h = request[q].human /\ u = request[q].user /\ o = request[q].order
        OBVIOUS
      <3>2. KeepsTurns(h, u, o)
        BY <1>2, <2>4, <3>1 DEF Fair, Placed
      <3>3. KeepsTurns(h, u, o)'
        BY <2>2, <3>2 DEF KeepsTurns, Pending
      <3>4. h = request'[q].human /\ u = request'[q].user /\ o = request'[q].order
        BY <1>2, <3>1
      <3> QED
        BY <3>3, <3>4
    <2> QED
      BY <2>2, <2>3, <2>4 DEF Fair
  <1>11. ~past'.overlap /\ ~past'.rounded /\ ~past'.deleted /\ ~past'.passed
          /\ past'.revived = {} => Fair'
    BY <1>2, <1>10 DEF Inv
  <1>12. Held' /\ patches' \subseteq 1..MaxJobs
    BY <1>2, <1>5 DEF Inv, TypeOK, Held, SameRows
  <1> QED
    BY <1>1, <1>2, <1>5, <1>8, <1>9, <1>11, <1>12, FewerPending

\* A worker reads again, or takes its job.
LEMMA InvClaim ==
    ASSUME Inv, NEW w \in Workers, Claim(w)
    PROVE  Inv'
  <1>1. /\ jobs \in Seq(Job) /\ Len(jobs) \in Nat /\ DOMAIN jobs = 1..Len(jobs)
        /\ \A j \in DOMAIN jobs : jobs[j] \in Job
        /\ worker \in [Workers -> 0..MaxJobs] /\ past \in Past
    BY JobTyped DEF Inv, TypeOK
  <1>2. PICK n \in DOMAIN jobs : n = worker[w] /\ n # 0
    BY DEF Inv, Chosen, Claim
  <1>3. CASE jobs[n].status # "pending"
    <2>1. worker' = [worker EXCEPT ![w] = FirstJob(jobs)]
          /\ jobs' = jobs /\ request' = request /\ past' = past /\ patches' = patches
      BY <1>2, <1>3 DEF Claim
    <2>2. PICK f : f = FirstJob(jobs)
      OBVIOUS
    <2>3. /\ f \in 0..MaxJobs
          /\ f # 0 => /\ f \in DOMAIN jobs /\ jobs[f].status = "pending"
                      /\ jobs[f].prev # 0 /\ jobs[f].prev \notin past.revived =>
                           jobs[jobs[f].prev].status # "pending"
      BY <2>2, FirstTyped
    <2>4. worker' = [worker EXCEPT ![w] = f] /\ worker' \in [Workers -> 0..MaxJobs]
      BY <1>1, <2>1, <2>2, <2>3
    <2>5. SameRows
      BY <1>1, <2>1 DEF SameRows
    <2>6. \A v \in Workers : worker'[v] \in 0..MaxJobs /\ Chosen(v)'
      <3>1. ASSUME NEW v \in Workers, v # w PROVE Chosen(v)'
        BY <1>1, <2>1, <2>4, <3>1 DEF Inv, Chosen, Awaited, IsPending
      <3>2. Chosen(w)'
        BY <1>1, <2>1, <2>3, <2>4 DEF Chosen, Awaited, IsPending
      <3> QED
        BY <2>4, <3>1, <3>2
    <2>7. ~past'.overlap /\ ~past'.rounded /\ ~past'.deleted /\ ~past'.passed
          /\ past'.revived = {} => Fair'
      BY <2>1 DEF Inv, Fair, TurnsKept, KeepsTurns, Pending, Placed
    <2>8. Held' /\ patches' \subseteq 1..MaxJobs
      BY <2>1 DEF Inv, TypeOK, Held
    <2> QED
      BY <1>1, <2>1, <2>4, <2>5, <2>6, <2>7, <2>8, FewerPending
  <1>4. CASE jobs[n].status = "pending"
    <2>1. /\ jobs' = [jobs EXCEPT ![n].status = "in_progress"]
          /\ worker' = [worker EXCEPT ![w] = 0]
          /\ past' = [past EXCEPT !.passed =
                         @ \/ \E k \in Pending(jobs[n].human) : RunsBefore(k, n)]
          /\ request' = request /\ patches' = patches
      BY <1>2, <1>4 DEF Claim
    <2>2. /\ past' \in Past /\ past'.overlap = past.overlap /\ past'.rounded = past.rounded
          /\ past'.deleted = past.deleted /\ past'.revived = past.revived
          /\ ~past'.passed =>
               ~past.passed /\ \A k \in Pending(jobs[n].human) : ~RunsBefore(k, n)
      <3> DEFINE met == \E k \in Pending(jobs[n].human) : RunsBefore(k, n)
      <3>1. past' = [past EXCEPT !.passed = @ \/ met]
        BY <2>1
      <3>2. met \in BOOLEAN /\ (~met => \A k \in Pending(jobs[n].human) : ~RunsBefore(k, n))
        OBVIOUS
      <3> HIDE DEF met
      <3>3. past.passed \in BOOLEAN
        BY <1>1 DEF Past
      <3>4. /\ past'.passed = (past.passed \/ met) /\ past'.overlap = past.overlap
            /\ past'.rounded = past.rounded /\ past'.deleted = past.deleted
            /\ past'.revived = past.revived
        BY <1>1, <3>1 DEF Past
      <3>5. past' \in Past
        BY <1>1, <3>1, <3>2, <3>3 DEF Past
      <3> QED
        BY <3>2, <3>3, <3>4, <3>5
    <2>3. /\ SameRows /\ jobs'[n].status = "in_progress" /\ jobs'[n].gone = jobs[n].gone
          /\ \A j \in DOMAIN jobs : j # n => jobs'[j] = jobs[j]
      <3>1. jobs'[n] = [jobs[n] EXCEPT !.status = "in_progress"]
            /\ jobs' = [jobs EXCEPT ![n] = jobs'[n]]
        BY <1>1, <2>1
      <3>2. \A j \in Job : [j EXCEPT !.status = "in_progress"] \in Job
        BY DEF Job
      <3>3. jobs'[n] \in Job
        BY <1>1, <3>1, <3>2
      <3>4. jobs' \in Seq(Job) /\ Len(jobs') = Len(jobs) /\ DOMAIN jobs' = DOMAIN jobs
            /\ \A j \in DOMAIN jobs : j # n => jobs'[j] = jobs[j]
        BY <1>1, <3>1, <3>3, SMTT(30)
      <3>5. /\ jobs'[n].user = jobs[n].user /\ jobs'[n].human = jobs[n].human
            /\ jobs'[n].order = jobs[n].order /\ jobs'[n].prev = jobs[n].prev
            /\ jobs'[n].status = "in_progress" /\ jobs'[n].gone = jobs[n].gone
        BY <1>1, <3>1 DEF Job
      <3> QED
        BY <3>4, <3>5 DEF SameRows
    <2>4. \A j \in DOMAIN jobs :
             /\ jobs'[j].status = "pending" => jobs[j].status = "pending"
             /\ jobs'[j].status = "invalid" <=> jobs[j].status = "invalid"
      BY <1>4, <2>3
    <2>5. worker' \in [Workers -> 0..MaxJobs]
      BY <1>1, <2>1, QueueAssumption
    <2>6. \A v \in Workers : worker'[v] \in 0..MaxJobs /\ Chosen(v)'
      <3>1. ASSUME NEW v \in Workers, v # w PROVE Chosen(v)'
        <4>1. Chosen(v) /\ worker'[v] = worker[v]
          BY <1>1, <2>1, <3>1 DEF Inv
        <4>2. worker[v] # 0 /\ jobs[worker[v]].prev # 0 => jobs[worker[v]].prev \in DOMAIN jobs
          BY <4>1, PrevTyped DEF Chosen
        <4> QED
          BY <2>2, <2>3, <2>4, <4>1, <4>2 DEF Chosen, Awaited, IsPending, SameRows
      <3>2. Chosen(w)'
        BY <1>1, <2>1 DEF Chosen
      <3> QED
        BY <2>5, <3>1, <3>2
    <2>7. ~past'.overlap /\ ~past'.rounded /\ ~past'.deleted /\ ~past'.passed
          /\ past'.revived = {} => Fair'
      <3> SUFFICES ASSUME ~past'.overlap, ~past'.rounded, ~past'.deleted, ~past'.passed,
                        past'.revived = {}
                   PROVE  Fair'
        OBVIOUS
      <3>1. Fair /\ Ordered /\ \A k \in Pending(jobs[n].human) : ~RunsBefore(k, n)
        BY <2>2 DEF Inv
      <3>2. \A h : \A k : k \in Pending(h)' <=> k \in Pending(h) /\ k # n
        BY <2>3 DEF Pending, SameRows
      <3>3. \A h : \A k \in Pending(h) : k # n => jobs'[k] = jobs[k]
        BY <2>3 DEF Pending
      <3>4. \A h \in BOOLEAN : \A k \in Pending(h) : jobs[k].order \in Nat
        BY <1>1, JobTyped DEF Pending
      \* The job taken was the first of its queue.
      <3>5. ASSUME NEW h \in BOOLEAN, n \in Pending(h), NEW k \in Pending(h), k # n
            PROVE  jobs[n].order < jobs[k].order
        <4>1. h = jobs[n].human /\ jobs[k].human = jobs[n].human
          BY <3>5 DEF Pending
        <4>2. ~(jobs[k].order < jobs[n].order)
          BY <3>1, <3>5, <4>1 DEF RunsBefore
        <4>3. jobs[k].order # jobs[n].order
          BY <3>1, <3>5 DEF Ordered, Distinct
        <4> QED
          BY <3>4, <3>5, <4>2, <4>3
      <3>6. \A h \in BOOLEAN : \A k, m \in Pending(h) :
               k # n /\ jobs[k].order < jobs[m].order => m # n
        BY <3>4, <3>5
      <3>7. \A h \in BOOLEAN : TurnsKept(h)'
        BY <3>1, <3>2, <3>3, <3>6 DEF Fair, TurnsKept
      <3>8. ASSUME NEW q \in Requests, Placed(q)'
            PROVE  KeepsTurns(request[q].human, request[q].user, request[q].order)'
        <4>1. PICK h \in BOOLEAN, u \in Users \cup {NoUser}, o \in Nat :
                 h = request[q].human /\ u = request[q].user /\ o = request[q].order
          BY RequestTyped DEF Inv, TypeOK
        <4>2. KeepsTurns(h, u, o)
          BY <2>1, <3>1, <3>8, <4>1 DEF Fair, Placed
        <4>3. KeepsTurns(h, u, o)'
          BY <3>2, <3>3, <3>6, <4>2 DEF KeepsTurns
        <4>4. h = request'[q].human /\ u = request'[q].user /\ o = request'[q].order
          BY <2>1, <4>1
        <4> QED
          BY <4>3, <4>4
      <3>9. \A j \in DOMAIN jobs' : ~jobs'[j].gone
        BY <2>3, <3>1 DEF Fair, SameRows
      <3> QED
        BY <3>7, <3>8, <3>9 DEF Fair
    <2>8. Held' /\ patches' \subseteq 1..MaxJobs
      BY <2>1, <2>3, <2>4 DEF Inv, TypeOK, Held, SameRows
    <2> QED
      BY <2>1, <2>2, <2>3, <2>4, <2>5, <2>6, <2>7, <2>8, FewerPending
  <1> QED
    BY <1>3, <1>4

\* A PATCH loads a job.
LEMMA InvLoadJob ==
    ASSUME Inv, NEW n \in DOMAIN jobs, LoadJob(n)
    PROVE  Inv'
  <1>1. jobs' = jobs /\ request' = request /\ worker' = worker /\ past' = past
        /\ patches' = patches \cup {n} /\ jobs[n].status = "pending"
    BY DEF LoadJob
  <1>2. SameRows
    BY <1>1, JobTyped DEF SameRows, Inv, TypeOK
  <1>3. past' \in Past /\ worker' \in [Workers -> 0..MaxJobs]
        /\ \A w \in Workers : worker'[w] \in 0..MaxJobs
    BY <1>1 DEF Inv, TypeOK
  <1>4. \A w \in Workers : Chosen(w)'
    BY <1>1 DEF Inv, Chosen, Awaited, IsPending
  <1>5. ~past'.overlap /\ ~past'.rounded /\ ~past'.deleted /\ ~past'.passed
          /\ past'.revived = {} => Fair'
    BY <1>1 DEF Inv, Fair, TurnsKept, KeepsTurns, Pending, Placed
  <1>6. n \in 1..MaxJobs
    BY JobTyped, QueueAssumption DEF Inv, TypeOK
  <1>7. Held' /\ patches' \subseteq 1..MaxJobs
    BY <1>1, <1>6 DEF Inv, TypeOK, Held
  <1> QED
    BY <1>1, <1>2, <1>3, <1>4, <1>5, <1>7, FewerPending

\* A PATCH saves a job: it changes nothing, or the job is pending again.
LEMMA InvSaveJob ==
    ASSUME Inv, NEW n \in DOMAIN jobs, SaveJob(n)
    PROVE  Inv'
  <1>1. /\ jobs \in Seq(Job) /\ jobs[n] \in Job /\ past \in Past /\ n \in patches
        /\ jobs[n].status # "invalid" /\ n \in 1..MaxJobs
    BY JobTyped, QueueAssumption DEF Inv, TypeOK, Held, SaveJob
  <1>2. jobs' = [jobs EXCEPT ![n].status = "pending"] /\ request' = request /\ worker' = worker
        /\ patches' = patches \ {n}
        /\ past' = [past EXCEPT !.revived = IF jobs[n].status = "pending" THEN @ ELSE @ \cup {n}]
    BY DEF SaveJob
  <1>3. /\ SameRows /\ jobs'[n].status = "pending"
        /\ \A j \in DOMAIN jobs : j # n => jobs'[j] = jobs[j]
    <2>1. jobs'[n] = [jobs[n] EXCEPT !.status = "pending"] /\ jobs' = [jobs EXCEPT ![n] = jobs'[n]]
      BY <1>1, <1>2
    <2>2. \A j \in Job : [j EXCEPT !.status = "pending"] \in Job
      BY DEF Job
    <2>3. jobs'[n] \in Job
      BY <1>1, <2>1, <2>2
    <2>4. jobs' \in Seq(Job) /\ Len(jobs') = Len(jobs) /\ DOMAIN jobs' = DOMAIN jobs
          /\ \A j \in DOMAIN jobs : j # n => jobs'[j] = jobs[j]
      BY <1>1, <2>1, <2>3
    <2>5. /\ jobs'[n].user = jobs[n].user /\ jobs'[n].human = jobs[n].human
          /\ jobs'[n].order = jobs[n].order /\ jobs'[n].prev = jobs[n].prev
          /\ jobs'[n].status = "pending"
      BY <1>1, <2>1 DEF Job
    <2> QED
      BY <2>4, <2>5 DEF SameRows
  <1>4. patches' \subseteq 1..MaxJobs /\ Held'
    <2>1. Held /\ patches \subseteq 1..MaxJobs
      BY DEF Inv, TypeOK
    <2> QED
      BY <1>2, <1>3, <2>1 DEF Held, SameRows
  <1>5. CASE jobs[n].status = "pending"
    <2>1. past' = past
      BY <1>1, <1>2, <1>5 DEF Past
    <2>2. jobs' = jobs
      <3>1. [jobs[n] EXCEPT !.status = "pending"] = jobs[n]
        BY <1>1, <1>5 DEF Job
      <3> QED
        BY <1>1, <1>2, <3>1
    <2>3. past' \in Past /\ worker' \in [Workers -> 0..MaxJobs]
          /\ \A w \in Workers : worker'[w] \in 0..MaxJobs
      BY <1>1, <1>2, <2>1 DEF Inv, TypeOK
    <2>4. \A w \in Workers : Chosen(w)'
      BY <1>2, <2>1, <2>2 DEF Inv, Chosen, Awaited, IsPending
    <2>5. ~past'.overlap /\ ~past'.rounded /\ ~past'.deleted /\ ~past'.passed
            /\ past'.revived = {} => Fair'
      BY <1>2, <2>1, <2>2 DEF Inv, Fair, TurnsKept, KeepsTurns, Pending, Placed
    <2> QED
      BY <1>2, <1>3, <1>4, <2>1, <2>2, <2>3, <2>4, <2>5, FewerPending
  <1>6. CASE jobs[n].status # "pending"
    <2>1. past' = [past EXCEPT !.revived = @ \cup {n}]
      BY <1>2, <1>6
    <2>2. past' \in Past /\ past'.revived = past.revived \cup {n} /\ past'.overlap = past.overlap
      BY <1>1, <2>1 DEF Past
    <2>3. \A j \in DOMAIN jobs : Awaited(j)' <=> Awaited(j)
      BY <1>3, <1>6, <2>2 DEF Awaited, IsPending
    <2>4. TypeOK'
      BY <1>2, <1>3, <1>4, <2>2 DEF Inv, TypeOK, SameRows
    <2>5. \A q \in Requests : Fit(q)'
      <3> TAKE q \in Requests
      <3>1. Fit(q) /\ request[q].job \in {0} \cup DOMAIN jobs
        BY DEF Inv, Fit
      <3>2. request[q].job # 0 =>
              LET j == request[q].job IN
              /\ j \in DOMAIN jobs'
              /\ jobs'[j].user = jobs[j].user /\ jobs'[j].human = jobs[j].human
              /\ jobs'[j].order = jobs[j].order
              /\ jobs[j].status = "invalid" => jobs'[j].status = "invalid"
        BY <1>1, <1>3, <3>1 DEF SameRows
      <3>3. request[q].job # 0 /\ Awaited(request[q].job)' => Awaited(request[q].job)
        BY <1>2, <1>3, <1>6, <2>2, <3>1 DEF Awaited, IsPending
      <3> QED
        BY <1>2, <3>1, <3>2, <3>3 DEF Fit, Placed
    <2>6. Apart'
      BY <1>2, <1>3 DEF Inv, Apart, SameRows
    <2>7. Batches'
      <3> SUFFICES ASSUME NEW j \in DOMAIN jobs, jobs[j].prev # 0
                   PROVE  /\ jobs'[j].prev < j
                          /\ jobs'[jobs'[j].prev].human = jobs'[j].human
                          /\ Awaited(jobs[j].prev)' =>
                               jobs'[jobs'[j].prev].order <= jobs'[j].order
        BY <1>3 DEF Batches, SameRows
      <3>1. PICK p \in DOMAIN jobs : p = jobs[j].prev /\ p < j
        BY PrevTyped
      <3>2. jobs[p].human = jobs[j].human /\ (Awaited(p) => jobs[p].order <= jobs[j].order)
        BY <3>1 DEF Inv, Batches
      <3>3. jobs'[j].prev = p /\ (Awaited(p)' => Awaited(p))
            /\ jobs'[j].order = jobs[j].order /\ jobs'[p].order = jobs[p].order
            /\ jobs'[j].human = jobs[j].human /\ jobs'[p].human = jobs[p].human
        BY <1>3, <2>3, <3>1 DEF SameRows
      <3>4. Awaited(jobs[j].prev)' => Awaited(p)
        BY <3>3 DEF Awaited
      <3> QED
        BY <3>1, <3>2, <3>3, <3>4
    <2>8. \A w \in Workers : Chosen(w)'
      <3> SUFFICES ASSUME NEW w \in Workers, worker[w] # 0 PROVE Chosen(w)'
        BY <1>2 DEF Chosen
      <3>1. Chosen(w) /\ worker[w] \in DOMAIN jobs
        BY DEF Inv, Chosen
      <3>2. jobs[worker[w]].prev # 0 => jobs[worker[w]].prev \in DOMAIN jobs
        BY <3>1, PrevTyped
      <3>3. jobs'[worker[w]].prev = jobs[worker[w]].prev /\ worker'[w] = worker[w]
        BY <1>2, <1>3, <3>1 DEF SameRows
      <3>4. jobs[worker[w]].prev # 0 /\ Awaited(jobs[worker[w]].prev)' =>
              Awaited(jobs[worker[w]].prev)
        BY <1>2, <1>3, <1>6, <2>2, <3>1, <3>2 DEF Awaited, IsPending, SameRows
      <3>5. jobs'[worker[w]].status # "invalid" /\ worker[w] \in DOMAIN jobs'
        BY <1>3, <3>1 DEF Chosen, SameRows
      <3> QED
        BY <1>2, <3>1, <3>3, <3>4, <3>5 DEF Chosen, Awaited
    <2>9. ~past'.overlap => OneAtATime'
      BY <1>2, <2>2 DEF Inv, OneAtATime, Placed
    <2>10. past'.revived # {}
      BY <2>2
    <2> QED
      BY <1>4, <2>4, <2>5, <2>6, <2>7, <2>8, <2>9, <2>10 DEF Inv
  <1> QED
    BY <1>5, <1>6

LEMMA InvStutter ==
    ASSUME Inv, UNCHANGED vars
    PROVE  Inv'
  <1>1. jobs' = jobs /\ request' = request /\ worker' = worker /\ past' = past
        /\ patches' = patches
    BY DEF vars
  <1>2. SameRows
    BY <1>1, JobTyped DEF SameRows, Inv, TypeOK
  <1>6. Held' /\ patches' \subseteq 1..MaxJobs
    BY <1>1 DEF Inv, TypeOK, Held
  <1>3. past' \in Past /\ worker' \in [Workers -> 0..MaxJobs]
        /\ \A w \in Workers : worker'[w] \in 0..MaxJobs
    BY <1>1 DEF Inv, TypeOK
  <1>4. \A w \in Workers : Chosen(w)'
    BY <1>1 DEF Inv, Chosen, Awaited, IsPending
  <1>5. ~past'.overlap /\ ~past'.rounded /\ ~past'.deleted /\ ~past'.passed
          /\ past'.revived = {} => Fair'
    BY <1>1 DEF Inv, Fair, TurnsKept, KeepsTurns, Pending, Placed
  <1> QED
    BY <1>1, <1>2, <1>3, <1>4, <1>5, <1>6, FewerPending

LEMMA InvNext == Inv /\ [Next]_vars => Inv'
  <1> SUFFICES ASSUME Inv, [Next]_vars PROVE Inv'
    OBVIOUS
  <1>1. ASSUME NEW r \in Requests, NEW p \in Posters, Place(r, p[1], p[2]) PROVE Inv'
    <2>1. p[1] \in Users /\ p[2] \in BOOLEAN
      BY QueueAssumption
    <2> QED
      BY <1>1, <2>1, InvPlace
  <1>2. ASSUME NEW r \in Requests, Save(r) \/ Queue(r) \/ Refuse(r) PROVE Inv'
    BY <1>2, InvSave, InvQueue, InvRefuse
  <1>3. ASSUME NEW j \in DOMAIN jobs, DeleteLink(j) \/ LoadJob(j) \/ SaveJob(j) PROVE Inv'
    BY <1>3, InvDeleteLink, InvLoadJob, InvSaveJob
  <1>4. ASSUME NEW w \in Workers, Look(w) \/ Claim(w) PROVE Inv'
    BY <1>4, InvLook, InvClaim
  <1>5. CASE UNCHANGED vars
    BY <1>5, InvStutter
  <1> QED
    BY <1>1, <1>2, <1>3, <1>4, <1>5 DEF Next

\* What the theorems below rest on holds in every reachable state.
THEOREM Invariant == Spec => []Inv
  <1>1. Init => Inv
    BY InvInit
  <1>2. Inv /\ [Next]_vars => Inv'
    BY InvNext
  <1> QED
    BY <1>1, <1>2, PTL DEF Spec

----------------------------------------------------------------------------
(* Counting.                                                               *)

\* Where no two jobs have one order, the jobs that run before one are those of a lower order.
LEMMA LowerRuns ==
    ASSUME jobs \in Seq(Job), NEW human \in BOOLEAN, Distinct(human),
           NEW j \in Pending(human), NEW k \in Pending(human)
    PROVE  /\ RunsBefore(k, j) <=> jobs[k].order < jobs[j].order
           /\ jobs[k].order <= jobs[j].order <=> k = j \/ RunsBefore(k, j)
           /\ ~RunsBefore(j, j)
  <1>1. jobs[j].human = human /\ jobs[k].human = human
    BY DEF Pending
  <1>2. jobs[j].order \in Nat /\ jobs[k].order \in Nat /\ j \in Nat /\ k \in Nat
    BY JobTyped
  <1>3. jobs[j].order = jobs[k].order => j = k
    BY DEF Distinct
  <1>4. RunsBefore(k, j) <=> jobs[k].order < jobs[j].order
    BY <1>1, <1>2, <1>3 DEF RunsBefore
  <1>5. ~RunsBefore(j, j)
    BY <1>1, <1>2 DEF RunsBefore
  <1> QED
    BY <1>2, <1>3, <1>4, <1>5

\* The jobs of a user that run before j, of which all but the last have a job of j's
\* own user right after them: that is why they are at most one more.
LEMMA TurnsCount ==
    ASSUME jobs \in Seq(Job), NEW human \in BOOLEAN, Distinct(human), TurnsKept(human),
           NEW j \in Pending(human), NEW other, other # jobs[j].user,
           NEW A, A = {k \in Pending(human) : jobs[k].user = other /\ RunsBefore(k, j)},
           NEW B, B = {k \in Pending(human) : jobs[k].user = jobs[j].user /\ RunsBefore(k, j)}
    PROVE  Cardinality(A) <= Cardinality(B) + 1
  <1>1. IsFiniteSet(Pending(human)) /\ \A k \in Pending(human) : jobs[k].order \in Nat
    BY JobTyped
  <1>2. A \in SUBSET Pending(human) /\ B \in SUBSET Pending(human)
    OBVIOUS
  <1>3. IsFiniteSet(A) /\ IsFiniteSet(B) /\ Cardinality(A) \in Nat /\ Cardinality(B) \in Nat
    BY <1>1, <1>2, FS_Subset, FS_CardinalityType
  <1>4. \A k \in Pending(human) :
           /\ k \in A <=> jobs[k].user = other /\ jobs[k].order < jobs[j].order
           /\ k \in B <=> jobs[k].user = jobs[j].user /\ jobs[k].order < jobs[j].order
    BY LowerRuns
  <1>5. CASE A = {}
    BY <1>3, <1>5, FS_EmptySet
  <1>6. CASE A # {}
    <2>1. PICK last \in A : \A a \in A : jobs[a].order <= jobs[last].order
      <3> DEFINE O == {jobs[a].order : a \in A}
      <3>1. O \in SUBSET Nat /\ O # {} /\ \A x \in O : x <= jobs[j].order
        <4>1. \A a \in A : jobs[a].order \in Nat /\ jobs[a].order <= jobs[j].order
          BY <1>1, <1>2, <1>4
        <4> QED
          BY <1>6, <4>1
      <3>2. Max(O) \in O /\ \A x \in O : x <= Max(O)
        <4> HIDE DEF O
        <4> QED
          BY <1>1, <3>1, Greatest
      <3>3. PICK x \in O : \A y \in O : y <= x
        BY <3>2
      <3> QED
        BY <3>3
    <2>2. \A a \in A \ {last} : a \in Pending(human) /\ jobs[a].order < jobs[last].order
      BY <1>1, <1>2, <2>1 DEF Distinct
    \* The first job of j's user after a.
    <2> DEFINE Follows(a, m) ==
                 /\ jobs[a].order < jobs[m].order
                 /\ \A x \in B : jobs[a].order < jobs[x].order => jobs[m].order <= jobs[x].order
               f == [a \in A \ {last} |-> CHOOSE m \in B : Follows(a, m)]
    <2>3. ASSUME NEW a \in A \ {last} PROVE \E m \in B : Follows(a, m)
      <3>1. PICK m \in Pending(human) :
               /\ jobs[m].user = jobs[j].user
               /\ jobs[a].order < jobs[m].order /\ jobs[m].order < jobs[j].order
        BY <1>2, <1>4, <2>2 DEF TurnsKept
      <3> DEFINE O == {jobs[x].order : x \in {y \in B : jobs[a].order < jobs[y].order}}
      <3>2. m \in B
        BY <1>4, <3>1
      <3>3. O \in SUBSET Nat /\ O # {}
        BY <1>1, <1>2, <3>1, <3>2
      <3>4. Min(O) \in O /\ \A x \in O : Min(O) <= x
        <4> HIDE DEF O
        <4> QED
          BY <3>3, Least
      <3>5. PICK o \in O : \A x \in O : o <= x
        BY <3>4
      <3> QED
        BY <3>5
    <2>4. \A a \in A \ {last} : f[a] \in B /\ Follows(a, f[a])
      <3> HIDE DEF Follows
      <3> QED
        BY <2>3
    <2>5. f \in [A \ {last} -> B]
      BY <2>4
    <2> HIDE DEF f
    <2>6. ASSUME NEW a \in A \ {last}, NEW b \in A \ {last}, f[a] = f[b],
                 jobs[a].order < jobs[b].order
          PROVE  FALSE
      <3>1. PICK m \in B : m = f[b] /\ Follows(a, m) /\ Follows(b, m)
        BY <2>4, <2>6
      <3>2. /\ a \in Pending(human) /\ b \in Pending(human) /\ m \in Pending(human)
            /\ jobs[a].user = other /\ jobs[b].user = other /\ jobs[m].user = jobs[j].user
            /\ jobs[b].order < jobs[m].order
        BY <1>2, <1>4, <3>1
      <3>3. PICK x \in Pending(human) :
               /\ jobs[x].user = jobs[m].user
               /\ jobs[a].order < jobs[x].order /\ jobs[x].order < jobs[m].order
        BY <2>6, <3>2 DEF TurnsKept
      <3>4. x \in B
        BY <1>1, <1>4, <3>1, <3>2, <3>3, SMTT(30)
      <3>5. jobs[m].order <= jobs[x].order
        BY <3>1, <3>3, <3>4
      <3> QED
        BY <1>1, <3>2, <3>3, <3>5
    <2>7. \A a, b \in A \ {last} : f[a] = f[b] => a = b
      <3> TAKE a, b \in A \ {last}
      <3> HAVE f[a] = f[b]
      <3>1. ~(jobs[a].order < jobs[b].order) /\ ~(jobs[b].order < jobs[a].order)
        BY <2>6
      <3>2. a \in Pending(human) /\ b \in Pending(human)
        BY <2>2
      <3>3. jobs[a].order = jobs[b].order
        BY <1>1, <3>1, <3>2
      <3> QED
        BY <3>2, <3>3 DEF Distinct
    <2>8. f \in Injection(A \ {last}, B)
      BY <2>5, <2>7, Fun_IsInj
    <2>9. Cardinality(A \ {last}) <= Cardinality(B)
      BY <1>3, <2>8, FS_Injection
    <2>10. Cardinality(A \ {last}) = Cardinality(A) - 1
      BY <1>3, <2>1, FS_RemoveElement
    <2> QED
      BY <1>3, <2>9, <2>10
  <1> QED
    BY <1>5, <1>6

\* The round robin of CaptureJob.save and get_next_job (QueueInv): unless two POSTs
\* computed places at once, a link was deleted, a place was rounded, a job was taken out
\* of turn or a PATCH with a file made one that had been taken pending again, no user has
\* more than n jobs to run before another user's n-th.
THEOREM QueueIsARoundRobin == Spec => []QueueInv
  <1>1. ASSUME Inv, ~past.overlap, ~past.deleted, ~past.rounded, ~past.passed, past.revived = {},
               NEW human \in BOOLEAN, NEW j \in Pending(human), NEW other \in Users \ {jobs[j].user}
        PROVE  Cardinality({k \in Pending(human) : jobs[k].user = other /\ RunsBefore(k, j)}) <=
               Cardinality({k \in Pending(human) :
                              jobs[k].user = jobs[j].user /\ RunsBefore(k, j)}) + 1
    <2>1. jobs \in Seq(Job) /\ Distinct(human) /\ TurnsKept(human) /\ other # jobs[j].user
      BY <1>1 DEF Inv, TypeOK, Ordered, Fair
    <2>2. PICK A, B :
             /\ A = {k \in Pending(human) : jobs[k].user = other /\ RunsBefore(k, j)}
             /\ B = {k \in Pending(human) : jobs[k].user = jobs[j].user /\ RunsBefore(k, j)}
      OBVIOUS
    <2>3. Cardinality(A) <= Cardinality(B) + 1
      BY <2>1, <2>2, TurnsCount
    <2> QED
      BY <2>2, <2>3
  <1>2. Inv => QueueInv
    <2> SUFFICES ASSUME Inv PROVE QueueInv
      OBVIOUS
    <2>1. TypeOK
      BY DEF Inv
    <2>2. RoundRobin
      BY <1>1 DEF RoundRobin
    <2> QED
      BY <2>1, <2>2 DEF QueueInv
  <1> QED
    BY <1>2, Invariant, PTL

\* CaptureJob.queue_position (PositionIsTurn): unless two places were computed at once, one
\* was rounded or a job that had been taken became pending again, the number a job reports
\* is its turn in the order of get_next_job.
THEOREM PositionIsAlwaysTheTurn == Spec => []PositionIsTurn
  <1>1. ASSUME Inv, ~past.overlap, ~past.rounded, past.revived = {}, NEW h \in BOOLEAN, NEW j \in Pending(h)
        PROVE  queue_position(j) =
                 1 + Cardinality({k \in Pending(TRUE) \cup Pending(FALSE) : RunsBefore(k, j)})
    <2>1. /\ jobs \in Seq(Job) /\ Distinct(h) /\ jobs[j].status = "pending" /\ jobs[j].human = h
      BY <1>1 DEF Inv, TypeOK, Ordered, Pending
    <2> DEFINE Before == {k \in Pending(h) : RunsBefore(k, j)}
               Up == {k \in Pending(h) : jobs[k].order <= jobs[j].order}
               All == {k \in Pending(TRUE) \cup Pending(FALSE) : RunsBefore(k, j)}
    <2>2. Up = Before \cup {j} /\ j \notin Before
      BY <1>1, <2>1, LowerRuns
    <2>3. Before \in SUBSET Pending(h) /\ IsFiniteSet(Pending(h)) /\ IsFiniteSet(Pending(TRUE))
          /\ Cardinality(Pending(TRUE)) \in Nat
      BY <2>1, JobTyped
    <2>4. \A k \in Pending(TRUE) : jobs[k].human
      BY DEF Pending
    <2>5. \A k \in Pending(FALSE) : ~jobs[k].human
      BY DEF Pending
    <2>6. h => All = Before
      BY <2>1, <2>5 DEF RunsBefore
    <2>7. ~h => All = Pending(TRUE) \cup Before /\ Pending(TRUE) \cap Before = {}
      BY <2>1, <2>4, <2>5 DEF RunsBefore
    <2>8. queue_position(j) = Cardinality(Up) + (IF h THEN 0 ELSE Cardinality(Pending(TRUE)))
      BY <2>1 DEF queue_position
    <2> HIDE DEF Before, Up, All
    <2>9. IsFiniteSet(Before) /\ Cardinality(Before) \in Nat
      BY <2>3, FS_Subset, FS_CardinalityType
    <2>10. Cardinality(Up) = Cardinality(Before) + 1
      BY <2>2, <2>9, FS_AddElement
    <2>11. CASE h
      <3>1. Cardinality(All) = Cardinality(Before)
        BY <2>6, <2>11
      <3>2. queue_position(j) = Cardinality(Up) + 0
        BY <2>8, <2>11
      <3> QED
        BY <2>9, <2>10, <3>1, <3>2 DEF All
    <2>12. CASE ~h
      <3>1. PICK P : P = Pending(TRUE)
        OBVIOUS
      <3>2. PICK t \in Nat, b \in Nat : t = Cardinality(P) /\ b = Cardinality(Before)
        BY <2>3, <2>9, <3>1
      <3>3. All = P \cup Before /\ IsFiniteSet(P)
        BY <2>3, <2>7, <2>12, <3>1
      <3>4. Cardinality(P \cap Before) = 0
        BY <2>7, <2>12, <3>1, FS_EmptySet
      <3>5. Cardinality(P \cup Before) = Cardinality(P) + Cardinality(Before)
                                         - Cardinality(P \cap Before)
        BY <2>9, <3>3, FS_Union
      <3>6. Cardinality(All) = t + b
        BY <3>2, <3>3, <3>4, <3>5
      <3>7. Cardinality(Up) = b + 1
        BY <2>10, <3>2
      <3>8. queue_position(j) = Cardinality(Up) + Cardinality(P)
        BY <2>8, <2>12, <3>1
      <3>9. queue_position(j) = 1 + Cardinality(All)
        BY <3>2, <3>6, <3>7, <3>8
      <3> QED
        BY <3>9 DEF All
    <2> QED
      BY <2>11, <2>12
  <1>2. Inv => PositionIsTurn
    BY <1>1 DEF PositionIsTurn
  <1> QED
    BY <1>2, Invariant, PTL

\* get_next_job and the loop over the urls of a batch (BatchInOrder): no step takes a job
\* while the one its batch posted before it is pending, whatever was posted, deleted,
\* rounded, passed or patched, unless a PATCH made that very one pending again.
THEOREM BatchesRunInOrder == Spec => BatchInOrder
  <1>1. ASSUME Inv, Next, NEW j \in DOMAIN jobs, jobs[j].prev # 0,
               jobs[j].prev \notin past.revived,
               jobs[j].status = "pending", jobs'[j].status = "in_progress"
        PROVE  jobs[jobs[j].prev].status # "pending"
    <2>1. jobs \in Seq(Job) /\ \A k \in DOMAIN jobs : jobs[k] \in Job
      BY <1>1, JobTyped DEF Inv, TypeOK
    <2>2. jobs' # jobs
      BY <1>1
    <2>3. ASSUME NEW r \in Requests, Save(r) PROVE FALSE
      BY <1>1, <2>1, <2>3 DEF Save
    <2>4. ASSUME NEW r \in Requests, Queue(r) PROVE FALSE
      <3>1. jobs' = [jobs EXCEPT ![request[r].job].status = "pending"]
        BY <2>4 DEF Queue
      <3>2. jobs'[j].status = jobs[j].status \/ jobs'[j].status = "pending"
        BY <2>1, <3>1 DEF Job
      <3> QED
        BY <1>1, <3>2
    <2>5. ASSUME NEW k \in DOMAIN jobs, DeleteLink(k) PROVE FALSE
      <3>1. jobs' = [jobs EXCEPT ![k].gone = TRUE]
        BY <2>5 DEF DeleteLink
      <3>2. jobs'[j].status = jobs[j].status
        BY <2>1, <3>1 DEF Job
      <3> QED
        BY <1>1, <3>2
    <2>6. ASSUME NEW w \in Workers, Look(w) PROVE FALSE
      <3>1. jobs'[j] = Cleaned(jobs[j])
        BY <2>6 DEF Look
      <3>2. jobs'[j].status = jobs[j].status \/ jobs'[j].status = "deleted"
        BY <2>1, <3>1 DEF Cleaned, Job
      <3> QED
        BY <1>1, <3>2
    <2>7. ASSUME NEW w \in Workers, Claim(w) PROVE jobs[jobs[j].prev].status # "pending"
      <3>1. Chosen(w) /\ worker[w] # 0
        BY <1>1, <2>7 DEF Inv, Claim
      <3>2. jobs[worker[w]].status = "pending"
            /\ jobs' = [jobs EXCEPT ![worker[w]].status = "in_progress"]
        BY <2>2, <2>7 DEF Claim
      <3>3. worker[w] = j
        BY <1>1, <2>1, <3>2
      <3> QED
        BY <1>1, <3>1, <3>3 DEF Chosen, Awaited, IsPending
    <2>8. ASSUME NEW k \in DOMAIN jobs, LoadJob(k) \/ SaveJob(k) PROVE FALSE
      <3>1. jobs' = jobs \/ jobs' = [jobs EXCEPT ![k].status = "pending"]
        BY <2>8 DEF LoadJob, SaveJob
      <3>2. CASE jobs' = jobs
        BY <2>2, <3>2
      <3>3. CASE jobs' = [jobs EXCEPT ![k].status = "pending"]
        <4>1. jobs'[j].status = jobs[j].status \/ jobs'[j].status = "pending"
          BY <2>1, <3>3 DEF Job
        <4> QED
          BY <1>1, <4>1
      <3> QED
        BY <3>1, <3>2, <3>3
    <2> QED
      BY <1>1, <2>2, <2>3, <2>4, <2>5, <2>6, <2>7, <2>8 DEF Next, Place, Refuse
  <1>2. Inv /\ [Next]_vars =>
          [\A j \in DOMAIN jobs :
             /\ jobs[j].prev # 0 /\ jobs[j].prev \notin past.revived
             /\ jobs[j].status = "pending" /\ jobs'[j].status = "in_progress"
             => jobs[jobs[j].prev].status # "pending"]_vars
    BY <1>1 DEF vars
  <1> QED
    BY <1>2, Invariant, PTL DEF Spec, BatchInOrder

=============================================================================
