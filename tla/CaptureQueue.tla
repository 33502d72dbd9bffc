---------------------------- MODULE CaptureQueue ----------------------------
(***************************************************************************)
(* The order in which pending capture jobs run: the place that             *)
(* CaptureJob.save gives a new job among the pending jobs of its queue,    *)
(* the position it reports, and the order in which get_next_job hands the  *)
(* jobs out.                                                               *)
(*                                                                         *)
(* POST computes the place of a job, inserts the job as "invalid", and     *)
(* makes it pending when its link exists: until then no other POST sees    *)
(* it.  A link batch posts its urls one after the other.  A PATCH with a   *)
(* file writes the row of the link's job back, its status included.        *)
(***************************************************************************)
EXTENDS Integers, Sequences, FiniteSets, FiniteSetsExt

CONSTANTS
    Users,
    Posters,    \* bound: users with the queue (human or not) they post to
    Requests,   \* web workers that serve POSTs of links and of batches
    Workers,    \* Celery workers that run run_next_capture
    NoUser,
    Unit,       \* 1 in units of the last place of the column order
    MaxJobs,    \* bound: capture jobs
    MaxMishaps  \* bound: POSTs refused, links deleted while their job is pending, jobs
                \* PATCHed, and one more for POSTs that have overlapped

ASSUME QueueAssumption ==
    /\ NoUser \notin Users /\ Posters \subseteq Users \X BOOLEAN
    /\ Unit \in Nat \ {0} /\ MaxJobs \in Nat /\ MaxMishaps \in Nat

VARIABLES
    jobs,     \* the table of capture jobs, by primary key
    request,  \* what each web worker does
    worker,   \* the job each Celery worker is about to take, or 0
    patches,  \* pending jobs that a PATCH with a file has loaded and will save
    past      \* history: what excuses an unfair place

vars == <<jobs, request, worker, patches, past>>

----------------------------------------------------------------------------

\* prev is the job its batch posted before it; gone, that its link is deleted.
\* An order of 0 would count as none ("if not self.order").
Job == [user: Users, human: BOOLEAN, order: Nat \ {0}, gone: BOOLEAN,
        prev: 0..MaxJobs, status: {"invalid", "pending", "in_progress", "deleted"}]

Request == [at: {"idle", "next", "save", "queue"}, user: Users \cup {NoUser},
            human: BOOLEAN, order: Nat, job: 0..MaxJobs]
Past == [overlap: BOOLEAN, deleted: BOOLEAN, rounded: BOOLEAN, passed: BOOLEAN,
         revived: SUBSET (1..MaxJobs)]

Idle == [at |-> "idle", user |-> NoUser, human |-> FALSE, order |-> 0, job |-> 0]

Pending(human) ==
    {j \in DOMAIN jobs : jobs[j].status = "pending" /\ jobs[j].human = human}

\* order_by('-human', 'order', 'pk')
RunsBefore(j, k) ==
    \/ jobs[j].human /\ ~jobs[k].human
    \/ /\ jobs[j].human = jobs[k].human
       /\ \/ jobs[j].order < jobs[k].order
          \/ jobs[j].order = jobs[k].order /\ j < k

\* Mutant: a robot's job does not count the human queue.
own_queue_position(j) ==
    IF jobs[j].status # "pending" THEN 0
    ELSE Cardinality({k \in Pending(jobs[j].human) : jobs[k].order <= jobs[j].order})

\* Number of pending jobs to be processed until this one, itself included.
queue_position(j) ==
    IF jobs[j].status # "pending" THEN 0
    ELSE Cardinality({k \in Pending(jobs[j].human) : jobs[k].order <= jobs[j].order})
         + (IF jobs[j].human THEN 0 ELSE Cardinality(Pending(TRUE)))

Orders(S) == {jobs[j].order : j \in S}

\* last + (next - last) / 2 as the column can hold it: half way between two
\* neighbours the even one is taken.
Midpoint(last, next) ==
    LET sum == last + next
        low == sum \div 2
    IN IF sum % 2 = 0 \/ low % 2 = 0 THEN low ELSE low + 1

\* The pending jobs by ascending order; the rows of one order come as the
\* database likes.
Listings(human) ==
    LET P == Pending(human)
        places == 1..Cardinality(P)
    IN {s \in [places -> P] :
          /\ \A i, k \in places : i < k => s[i] # s[k]
          /\ \A i, k \in places : i < k => jobs[s[i]].order <= jobs[s[k]].order}

\* Mutant: all pending jobs are looked at, the user's own ones included.
AfterAnyone(s, user) == s

\* takewhile: the jobs listed after the user's last one.
AfterOwn(s, user) ==
    SubSeq(s, 1 + Max({0} \cup {i \in DOMAIN s : jobs[s[i]].user = user}), Len(s))

\* Mutant: a new job always goes last.
NoSecondJobs(t) == {i \in DOMAIN t : FALSE}

\* The jobs listed whose user has a job further up.
SecondJobs(t) == {i \in DOMAIN t : \E k \in 1..(i - 1) : jobs[t[k]].user = jobs[t[i]].user}

\* The order of a new job, and whether it is one the column had to round.
FairOrder(s, user) ==
    LET t == AfterOwn(s, user)
        i == Min(SecondJobs(t))
        last == jobs[t[i - 1]].order
        next == jobs[t[i]].order
    IN IF SecondJobs(t) # {}
       THEN [order |-> Midpoint(last, next), rounded |-> (last + next) % 2 = 1]
       ELSE [order |-> Unit + IF t # <<>> THEN jobs[t[Len(t)]].order
                              ELSE Max({0} \cup Orders(DOMAIN jobs)),
             rounded |-> FALSE]

----------------------------------------------------------------------------

Init ==
    /\ jobs = <<>>
    /\ request = [r \in Requests |-> Idle]
    /\ worker = [w \in Workers |-> 0]
    /\ patches = {}
    /\ past = [overlap |-> FALSE, deleted |-> FALSE, rounded |-> FALSE, passed |-> FALSE,
               revived |-> {}]

\* A POST of one link, or the next one of a batch, whose urls are dispatched
\* in turn: save looks the pending jobs up ...
Place(r, user, human) ==
    /\ \/ request[r].at = "idle"
       \/ request[r].at = "next" /\ request[r].user = user /\ request[r].human = human
    /\ Len(jobs) < MaxJobs
    /\ \E s \in Listings(human) :
         LET fair == FairOrder(s, user) IN
           /\ request' = [request EXCEPT ![r] =
                [@ EXCEPT !.at = "save", !.user = user, !.human = human, !.order = fair.order]]
           /\ past' = [past EXCEPT
                !.rounded = @ \/ fair.rounded,
                !.overlap = @ \/ \E q \in Requests :
                                   request[q].at \in {"save", "queue"} /\ request[q].human = human]
    /\ UNCHANGED <<jobs, worker, patches>>

\* ... and inserts the job.
Save(r) ==
    /\ request[r].at = "save"
    /\ Len(jobs) < MaxJobs
    /\ jobs' = Append(jobs, [user |-> request[r].user, human |-> request[r].human,
                             order |-> request[r].order, gone |-> FALSE,
                             prev |-> request[r].job, status |-> "invalid"])
    /\ request' = [request EXCEPT ![r].at = "queue", ![r].job = Len(jobs')]
    /\ UNCHANGED <<worker, patches, past>>

\* The end, or the next url of the batch.
NextUrl(r) ==
    \/ request' = [request EXCEPT ![r] = Idle]
    \/ /\ Len(jobs) < MaxJobs
       /\ request' = [request EXCEPT ![r].at = "next", ![r].order = 0]

\* The link is created and its job becomes pending ...
Queue(r) ==
    /\ request[r].at = "queue"
    /\ jobs' = [jobs EXCEPT ![request[r].job].status = "pending"]
    /\ NextUrl(r)
    /\ UNCHANGED <<worker, patches, past>>

\* For the bound: jobs refused, jobs of deleted links, those a PATCH holds or has made
\* pending again, and whether POSTs have overlapped.
Mishaps ==
    Cardinality({j \in DOMAIN jobs : jobs[j].gone \/ jobs[j].status = "invalid"})
    - Cardinality({r \in Requests : request[r].at = "queue"})
    + Cardinality(patches \cup past.revived) + (IF past.overlap THEN 1 ELSE 0)

\* ... or the job stays invalid.
Refuse(r) ==
    /\ request[r].at = "queue" /\ Mishaps < MaxMishaps
    /\ NextUrl(r)
    /\ UNCHANGED <<jobs, worker, patches, past>>

\* The user deletes the link of a job that is not in progress, under the link's lock.
DeleteLink(j) ==
    /\ jobs[j].status = "pending" /\ ~jobs[j].gone /\ j \notin patches
    /\ Mishaps < MaxMishaps
    /\ jobs' = [jobs EXCEPT ![j].gone = TRUE]
    /\ past' = [past EXCEPT !.deleted = TRUE]
    /\ UNCHANGED <<request, worker, patches>>

\* A PATCH with a file, which holds the link's lock, loads the job.  It refuses one in
\* progress; one that has ended it saves as it is.
LoadJob(j) ==
    /\ jobs[j].status = "pending" /\ ~jobs[j].gone /\ j \notin patches
    /\ Mishaps < MaxMishaps
    /\ patches' = patches \cup {j}
    /\ UNCHANGED <<jobs, request, worker, past>>

\* mark_capturejob_superseded saves all its columns, whoever has claimed it since.
SaveJob(j) ==
    /\ j \in patches
    /\ jobs' = [jobs EXCEPT ![j].status = "pending"]
    /\ patches' = patches \ {j}
    /\ past' = [past EXCEPT !.revived = IF jobs[j].status = "pending" THEN @ ELSE @ \cup {j}]
    /\ UNCHANGED <<request, worker>>

----------------------------------------------------------------------------

\* order_by('-human', 'order', 'pk').first()
FirstJob(table) ==
    LET P == {j \in DOMAIN table : table[j].status = "pending"}
    IN IF P = {} THEN 0
       ELSE CHOOSE j \in P : \A k \in P \ {j} : RunsBefore(j, k)

Cleaned(job) ==
    IF job.status = "pending" /\ job.gone THEN [job EXCEPT !.status = "deleted"] ELSE job

\* get_next_job drops the jobs of deleted links and reads the first job left ...
Look(w) ==
    /\ worker[w] = 0
    /\ jobs' = [j \in DOMAIN jobs |-> Cleaned(jobs[j])]
    /\ worker' = [worker EXCEPT ![w] = FirstJob(jobs')]
    /\ UNCHANGED <<request, patches, past>>

\* ... and takes it, whatever is pending by now, or reads again when it is not.
Claim(w) ==
    LET j == worker[w] IN
    /\ j # 0
    /\ IF jobs[j].status = "pending"
       THEN /\ jobs' = [jobs EXCEPT ![j].status = "in_progress"]
            /\ worker' = [worker EXCEPT ![w] = 0]
            /\ past' = [past EXCEPT !.passed =
                           @ \/ \E k \in Pending(jobs[j].human) : RunsBefore(k, j)]
       ELSE /\ worker' = [worker EXCEPT ![w] = FirstJob(jobs)]
            /\ UNCHANGED <<jobs, past>>
    /\ UNCHANGED <<request, patches>>

----------------------------------------------------------------------------

Next ==
    \/ \E r \in Requests :
         \/ \E p \in Posters : Place(r, p[1], p[2])
         \/ Save(r) \/ Queue(r) \/ Refuse(r)
    \/ \E j \in DOMAIN jobs : DeleteLink(j) \/ LoadJob(j) \/ SaveJob(j)
    \/ \E w \in Workers : Look(w) \/ Claim(w)

Spec == Init /\ [][Next]_vars

----------------------------------------------------------------------------

TypeOK ==
    /\ jobs \in Seq(Job) /\ Len(jobs) <= MaxJobs
    /\ request \in [Requests -> Request]
    /\ worker \in [Workers -> 0..MaxJobs]
    /\ patches \subseteq 1..MaxJobs
    /\ past \in Past

\* The queue is a round robin: before a user's n-th pending job every other user
\* has at most n jobs to run (the comment in CaptureJob.save).  Five things excuse
\* it: two POSTs computed places at once, a link was deleted, a place was rounded, a
\* worker took the job it had read after one ahead of it had become pending, or a
\* PATCH with a file made a job that had been taken pending again.
RoundRobin ==
    past.overlap \/ past.deleted \/ past.rounded \/ past.passed \/ past.revived # {} \/
    \A human \in BOOLEAN : \A j \in Pending(human) : \A other \in Users \ {jobs[j].user} :
      LET Ahead(user) == {k \in Pending(human) : jobs[k].user = user /\ RunsBefore(k, j)}
      IN Cardinality(Ahead(other)) <= Cardinality(Ahead(jobs[j].user)) + 1

\* No order falls out of the column's range, and the queue is a round robin.
QueueInv == TypeOK /\ RoundRobin

\* The position queue_position reports is the number of jobs get_next_job hands
\* out up to this one, unless two jobs can have the same order: two POSTs computed
\* places at once, a place was rounded, or a job that had been taken, whose order may
\* have been given again, was made pending again.
PositionIsTurn ==
    past.overlap \/ past.rounded \/ past.revived # {} \/
    \A j \in Pending(TRUE) \cup Pending(FALSE) :
      queue_position(j) =
        1 + Cardinality({k \in Pending(TRUE) \cup Pending(FALSE) : RunsBefore(k, j)})

\* The urls of a batch are captured in the order they were given, whatever is
\* posted, deleted, rounded or patched meanwhile: get_next_job hands out no job while
\* the one its batch posted before it is pending, unless a PATCH with a file has made
\* that very one pending again after it had been taken.
BatchInOrder ==
    [][\A j \in DOMAIN jobs :
         /\ jobs[j].prev # 0 /\ jobs[j].prev \notin past.revived
         /\ jobs[j].status = "pending" /\ jobs'[j].status = "in_progress"
         => jobs[jobs[j].prev].status # "pending"]_vars

=============================================================================
