----------------------- MODULE CapturePipelineProofs -----------------------
(***************************************************************************)
(* Proofs about CapturePipeline, for every set of links and workers, every *)
(* time limit and every bound: what a worker may do to a link, how a       *)
(* capture ends, and that the pipeline implements CaptureService.          *)
(***************************************************************************)
EXTENDS CaptureRefinement, TLAPS

----------------------------------------------------------------------------
(* Types. A worker's steps are well typed because a worker that has taken a *)
(* job holds a link.                                                        *)

HeldLinks ==
    \A w \in Workers :
        pc[w] \in HoldingPc \cup {"reserve", "sweepcaptures"} => held[w] \in Links

TypeInv == TypeOK /\ HeldLinks

LEMMA NewJobTyped == NewJob \in JobRow
BY DEF NewJob, JobRow, Status

\* What the saves of a CaptureJob keep of its fields' types.
LEMMA StatusSaved ==
    ASSUME NEW row \in JobRow, NEW s \in Status
    PROVE  [row EXCEPT !.status = s] \in JobRow
BY DEF JobRow

LEMMA RowSaved ==
    ASSUME NEW row \in JobRow
    PROVE  /\ [row EXCEPT !.superseded = TRUE] \in JobRow
           /\ [row EXCEPT !.attempt = @ + 1] \in JobRow
<1>1. row.attempt + 1 \in Nat BY DEF JobRow
<1>2. ASSUME NEW n \in Nat PROVE [row EXCEPT !.attempt = n] \in JobRow BY DEF JobRow
<1>3. [row EXCEPT !.superseded = TRUE] \in JobRow BY DEF JobRow
<1>4. QED BY <1>1, <1>2, <1>3

LEMMA DispatchTyped == TypeOK => TasksAfterDispatch \in 0..MaxTasks
BY BoundAssumption DEF TypeOK, TasksAfterDispatch

LEMMA TypeInit == Init => TypeInv
BY BoundAssumption, NewJobTyped DEF Init, TypeInv, TypeOK, HeldLinks, CaptureStatus,
        WorkerPc, HoldingPc, CapturingPc, DeployPhase

LEMMA TypeApi ==
    ASSUME TypeInv, NEW l \in Links, Api(l)
    PROVE  TypeInv'
<1> USE DEF TypeInv, TypeOK, HeldLinks, Status, CaptureStatus, CapturingPc,
        HoldingPc, WorkerPc, DeployPhase, linkVars, apiVars, heldVars, workerVars, envVars
<1>1. CASE PostLink(l) BY <1>1 DEF PostLink
<1>2. CASE PostFile(l) BY <1>2 DEF PostFile
<1>3. CASE PostCapture(l) BY <1>3 DEF PostCapture
<1>4. CASE PostEnqueue(l)
  <2>1. job' \in [Links -> JobRow] BY <1>4, StatusSaved, ZenonT(60) DEF PostEnqueue
  <2>2. tasks' \in 0..MaxTasks BY <1>4, DispatchTyped DEF PostEnqueue
  <2>3. QED BY <1>4, <2>1, <2>2 DEF PostEnqueue
<1>5. CASE DeleteCheck(l) BY <1>5 DEF DeleteCheck
<1>6. CASE DeleteCommit(l) BY <1>6 DEF DeleteCommit
<1>7. CASE PatchOpen(l) BY <1>7, BoundAssumption DEF PatchOpen
<1>8. CASE PatchMoveAside(l) BY <1>8 DEF PatchMoveAside
<1>9. CASE PatchWrite(l) BY <1>9 DEF PatchWrite
<1>10. CASE PatchCommit(l) BY <1>10, NewJobTyped, RowSaved DEF PatchCommit, EndPatch
<1>11. CASE PatchAbort(l) BY <1>11, NewJobTyped DEF PatchAbort, EndPatch
<1>12. QED BY <1>1, <1>2, <1>3, <1>4, <1>5, <1>6, <1>7, <1>8, <1>9, <1>10,
              <1>11 DEF Api

LEMMA TypeWork ==
    ASSUME TypeInv, NEW w \in Workers, Work(w)
    PROVE  TypeInv'
<1> USE DEF TypeInv, TypeOK, HeldLinks, Status, CaptureStatus, CapturingPc,
        HoldingPc, WorkerPc, DeployPhase, linkVars, apiVars, heldVars, workerVars, envVars,
        Goto, DropJob, EndTask
<1>1. CASE StartTask(w) BY <1>1, BoundAssumption DEF StartTask
<1>2. ASSUME NEW l \in Links, SweepJob(w, l) PROVE TypeInv'
  BY <1>2, StatusSaved, ZenonT(30) DEF SweepJob
<1>3. ASSUME NEW l \in Links, Select(w, l) PROVE TypeInv' BY <1>3 DEF Select
<1>4. CASE SweepCaptures(w) BY <1>4, NewJobTyped DEF SweepCaptures, FailPendingCapture
<1>5. CASE SweepDone(w) BY <1>5 DEF SweepDone
<1>6. CASE Purge(w) BY <1>6, StatusSaved, ZenonT(30) DEF Purge
<1>7. CASE SelectNone(w) BY <1>7, NewJobTyped, BoundAssumption DEF SelectNone
<1>8. CASE Reserve(w)
  <2>1. job' \in [Links -> JobRow] BY <1>8, StatusSaved, ZenonT(30) DEF Reserve
  <2>2. jobAge' \in [Links -> 0..(HardLimit + 1)] BY <1>8, BoundAssumption DEF Reserve
  <2>3. QED BY <1>8, <2>1, <2>2 DEF Reserve, Pending
<1>9. CASE ReserveAgain(w) BY <1>9, NewJobTyped DEF ReserveAgain
<1>10. CASE Refresh(w) BY <1>10 DEF Refresh
<1>11. CASE LoadLink(w) BY <1>11 DEF LoadLink
<1>12. CASE CheckPending(w) BY <1>12 DEF CheckPending
<1>13. CASE CheckDrop(w) BY <1>13, StatusSaved, ZenonT(30) DEF CheckDrop
<1>14. CASE Attempt(w) BY <1>14, RowSaved DEF Attempt
<1>15. CASE Capture(w) BY <1>15 DEF Capture
<1>16. CASE Store(w) BY <1>16 DEF Store
<1>17. CASE Metadata(w) BY <1>17 DEF Metadata
<1>18. CASE Attach(w) BY <1>18 DEF Attach
<1>19. CASE Complete(w) BY <1>19, StatusSaved, ZenonT(90) DEF Complete, Outcome
<1>20. CASE Abandon(w)
  <2>1. Outcome(held[w]) \in Status BY DEF Outcome
  <2>2. [copy[w] EXCEPT !.status = Outcome(held[w])] \in JobRow BY <2>1, StatusSaved
  <2>3. "deleted" \in Status OBVIOUS
  <2>4. [copy[w] EXCEPT !.status = "deleted"] \in JobRow BY <2>3, StatusSaved
  <2>5. copy' \in [Workers -> JobRow]
    <3>1. CASE copy' = copy BY <3>1
    <3>2. CASE copy' = [copy EXCEPT ![w].status = Outcome(held[w])]
      BY <2>2, <3>2, ZenonT(60)
    <3>3. CASE copy' = [copy EXCEPT ![w].status = "deleted"]
      BY <2>4, <3>3, ZenonT(60)
    <3>4. QED BY <1>20, <3>1, <3>2, <3>3 DEF Abandon
  <2>6. QED BY <1>20, <2>5, ZenonT(60) DEF Abandon
<1>21. CASE Close(w) BY <1>21 DEF Close, FailPendingCapture
<1>22. CASE Settle(w) BY <1>22, NewJobTyped, StatusSaved, ZenonT(30) DEF Settle
<1>23. CASE Requeue(w) BY <1>23, NewJobTyped, DispatchTyped, BoundAssumption DEF Requeue
<1>24. QED BY <1>1, <1>2, <1>3, <1>4, <1>5, <1>6, <1>7, <1>8, <1>9, <1>10,
              <1>11, <1>12, <1>13, <1>14, <1>15, <1>16, <1>17, <1>18, <1>19,
              <1>20, <1>21, <1>22, <1>23 DEF Work

LEMMA TypeEnvironment ==
    ASSUME TypeInv,
           \/ \E w \in Workers : LoseWorker(w)
           \/ Beat \/ Tick \/ Deployment \/ UNCHANGED vars
    PROVE  TypeInv'
<1> USE DEF TypeInv, TypeOK, HeldLinks, Status, CaptureStatus, CapturingPc,
        HoldingPc, WorkerPc, DeployPhase, linkVars, apiVars, heldVars, workerVars, envVars
<1>1. ASSUME NEW w \in Workers, LoseWorker(w) PROVE TypeInv'
  BY <1>1, NewJobTyped, BoundAssumption DEF LoseWorker, Goto, DropJob, EndTask
<1>2. CASE Beat BY <1>2, BoundAssumption DEF Beat
<1>3. CASE Tick
  <2>1. taskAge' \in [Workers -> 0..HardLimit] BY <1>3, BoundAssumption DEF Tick
  <2>2. jobAge' \in [Links -> 0..(HardLimit + 1)] BY <1>3, BoundAssumption DEF Tick, TimedOut
  <2>3. QED BY <1>3, <2>1, <2>2 DEF Tick
<1>4. CASE Deployment
  BY <1>4, BoundAssumption DEF Deployment, PauseIntake, StopBeat, StartBeat, ResumeIntake
<1>5. CASE UNCHANGED vars BY <1>5 DEF vars
<1>6. QED BY <1>1, <1>2, <1>3, <1>4, <1>5

LEMMA TypeStep == TypeInv /\ [Next]_vars => TypeInv'
BY TypeApi, TypeWork, TypeEnvironment DEF Next

\* Every row, object and counter of the pipeline keeps its type.
THEOREM TypeCorrect == Spec => []TypeInv
BY TypeInit, TypeStep, PTL DEF Spec

THEOREM TypeOKAlways == Spec => []TypeOK
<1>1. TypeInv => TypeOK BY DEF TypeInv
<1>2. QED BY <1>1, TypeCorrect, PTL

----------------------------------------------------------------------------
(* The claim of a worker. CaptureInv is inductive relative to the types: a  *)
(* link whose capture nobody has touched has one worker that claims it, and *)
(* every step that could give it a second one needs the link's row lock, a  *)
(* pending job or a timed out one, which the claim excludes.                *)

IInv == TypeInv /\ CaptureInv

\* A live worker's claim is younger than its task, so no sweep takes it.
LEMMA ClaimNotTimedOut ==
    ASSUME TypeOK, NEW w \in Workers, NEW l \in Links, Claim(w, l)
    PROVE  ~TimedOut(l)
BY BoundAssumption DEF TypeOK, Claim, TimedOut

LEMMA NewJobFields == NewJob.status = "invalid" /\ NewJob.attempt = 0
BY DEF NewJob

LEMMA InvInit == Init => CaptureInv
<1> USE DEF CaptureInv, FreshJobs, LinksHeld, QueuedJobs, ClaimedJobs, CapturedJobs,
        PatchedLinks, AtMostOneAttempt, UploadKept
<1> QED
  BY DEF Init, NewJob, HasCaptureJob, HoldingPc, CapturingPc, Owns, Unowned, Unswept,
         Capturing

LEMMA InvApi ==
    ASSUME IInv, NEW l \in Links, Api(l)
    PROVE  CaptureInv'
<1> USE NewJobFields DEF IInv, TypeInv, TypeOK, CaptureInv, FreshJobs, LinksHeld, QueuedJobs,
        ClaimedJobs, CapturedJobs, PatchedLinks, AtMostOneAttempt, UploadKept,
        HasCaptureJob, HoldingPc, CapturingPc, Owns, Untouched, Unowned, SoleOwner,
        Unswept, Claim, Capturing, LinkUnlocked, linkVars, apiVars,
        heldVars, workerVars, envVars
<1>1. CASE PostLink(l) BY <1>1 DEF PostLink
<1>2. CASE PostFile(l) BY <1>2 DEF PostFile
<1>3. CASE PostCapture(l) BY <1>3 DEF PostCapture
<1>4. CASE PostEnqueue(l) BY <1>4 DEF PostEnqueue
<1>5. CASE DeleteCheck(l) BY <1>5 DEF DeleteCheck
<1>6. CASE DeleteCommit(l) BY <1>6 DEF DeleteCommit
<1>7. CASE PatchOpen(l) BY <1>7 DEF PatchOpen, CaptureInProgress
<1>8. CASE PatchMoveAside(l) BY <1>8 DEF PatchMoveAside
<1>9. CASE PatchWrite(l) BY <1>9 DEF PatchWrite
<1>10. CASE PatchCommit(l)
  <2> DEFINE row == [patchCopy[l] EXCEPT !.superseded = TRUE]
  <2>1. row.status = patchCopy[l].status /\ row.attempt = patchCopy[l].attempt
    BY DEF JobRow
  <2>2. \/ job' = job
        \/ patchCopy[l].status # "invalid" /\ job' = [job EXCEPT ![l] = row]
    BY <1>10 DEF PatchCommit
  <2> HIDE DEF row
  <2>3. /\ patch[l] = "written"
        /\ capture' = [capture EXCEPT ![l] = "none"]
        /\ upload' = [upload EXCEPT ![l] = "success"]
        /\ UNCHANGED <<archive, post, workerVars, jobAge>>
    BY <1>10 DEF PatchCommit
  <2>4. patch' = [patch EXCEPT ![l] = "none"] /\ \A k \in Links \ {l} : patchCopy'[k] = patchCopy[k]
    BY <1>10 DEF PatchCommit, EndPatch
  <2>5. FreshJobs' BY <2>1, <2>2, <2>3, <2>4
  <2>6. LinksHeld' BY <2>1, <2>2, <2>3, <2>4
  <2>7. QueuedJobs' BY <2>1, <2>2, <2>3, <2>4
  <2>8. ClaimedJobs' BY <2>1, <2>2, <2>3, <2>4
  <2>9. CapturedJobs' BY <2>1, <2>2, <2>3, <2>4
  <2>10. PatchedLinks' BY <2>1, <2>2, <2>3, <2>4
  <2>11. (AtMostOneAttempt /\ UploadKept)'
    <3>1. AtMostOneAttempt' BY <2>1, <2>2, <2>3
    <3>2. UploadKept' BY <2>3
    <3>3. QED BY <3>1, <3>2
  <2>12. QED BY <2>5, <2>6, <2>7, <2>8, <2>9, <2>10, <2>11
<1>11. CASE PatchAbort(l) BY <1>11 DEF PatchAbort, EndPatch
<1>12. QED BY <1>1, <1>2, <1>3, <1>4, <1>5, <1>6, <1>7, <1>8, <1>9, <1>10,
              <1>11 DEF Api

LEMMA InvWork ==
    ASSUME IInv, NEW w \in Workers, Work(w)
    PROVE  CaptureInv'
<1> USE NewJobFields DEF IInv, TypeInv, TypeOK, CaptureInv, FreshJobs, LinksHeld, QueuedJobs,
        ClaimedJobs, CapturedJobs, PatchedLinks, AtMostOneAttempt, UploadKept,
        HasCaptureJob, HoldingPc, CapturingPc, Owns, Untouched, Unowned, SoleOwner,
        Unswept, Claim, Capturing, LinkUnlocked, linkVars, apiVars,
        heldVars, workerVars, envVars, Goto, DropJob, EndTask
<1>1. CASE StartTask(w)
  <2>1. \A v \in Workers, l \in Links : Claim(v, l) => ~TimedOut(l)
    BY ClaimNotTimedOut
  <2>2. \A l \in Links : TimedOut(l) => job[l].status = "in_progress" BY DEF TimedOut
  <2>3. /\ \A v \in Workers, l \in Links : l \in stale'[v] => l \in stale[v] \/ TimedOut(l)
        /\ pc[w] = "idle" /\ pc' = [pc EXCEPT ![w] = "sweep"]
        /\ UNCHANGED <<job, linkVars, apiVars, heldVars, taskAge, jobAge>>
    BY <1>1 DEF StartTask
  <2>4. \A v \in Workers : pc[v] = "sweepcaptures" => stale'[v] = stale[v]
    BY <1>1 DEF StartTask
  <2>5. FreshJobs'
    <3>1. ASSUME NEW l \in Links, ~HasCaptureJob(l) PROVE Unswept(l)'
      BY <2>2, <2>3, <3>1
    <3>2. QED BY <2>3, <3>1
  <2>6. LinksHeld' BY <2>1, <2>2, <2>3, <2>4
  <2>7. QueuedJobs' BY <2>1, <2>2, <2>3, <2>4
  <2>8. ASSUME NEW v \in Workers, NEW l \in Links, Claim(v, l) PROVE Claim(v, l)'
    <3>1. SoleOwner(v, l)' BY <2>3, <2>8
    <3>2. Unswept(l)' BY <2>1, <2>3, <2>8
    <3>3. QED BY <2>3, <2>8, <3>1, <3>2
  <2>9. \A v \in Workers : pc'[v] # "sweep" => pc'[v] = pc[v] BY <2>3
  <2>10. (ClaimedJobs /\ CapturedJobs)'
    <3> HIDE DEF Claim
    <3>1. ClaimedJobs' BY <2>3, <2>8, <2>9
    <3>2. CapturedJobs' BY <2>3, <2>8, <2>9
    <3>3. QED BY <3>1, <3>2
  <2>11. PatchedLinks' BY <2>1, <2>2, <2>3, <2>4
  <2>12. (AtMostOneAttempt /\ UploadKept)' BY <2>1, <2>2, <2>3, <2>4
  <2>13. QED BY <2>5, <2>6, <2>7, <2>10, <2>11, <2>12
<1>2. ASSUME NEW l \in Links, SweepJob(w, l) PROVE CaptureInv' BY <1>2 DEF SweepJob
<1>3. ASSUME NEW l \in Links, Select(w, l) PROVE CaptureInv' BY <1>3 DEF Select, Pending
<1>4. CASE SweepCaptures(w) BY <1>4 DEF SweepCaptures, FailPendingCapture
<1>5. CASE SweepDone(w) BY <1>5 DEF SweepDone
<1>6. CASE Purge(w)
  <2>1. \A l \in Links :
          \/ job'[l] = job[l]
          \/ /\ job[l].status = "pending" /\ job'[l].status = "deleted"
             /\ job'[l].attempt = job[l].attempt
    BY <1>6 DEF Purge, JobRow
  <2>2. QED BY <1>6, <2>1 DEF Purge
<1>7. CASE SelectNone(w) BY <1>7 DEF SelectNone
<1>8. CASE Reserve(w) BY <1>8 DEF Reserve, Pending
<1>9. CASE ReserveAgain(w) BY <1>9 DEF ReserveAgain
<1>10. CASE Refresh(w) BY <1>10 DEF Refresh
<1>11. CASE LoadLink(w) BY <1>11 DEF LoadLink
<1>12. CASE CheckPending(w) BY <1>12 DEF CheckPending, PrimaryCapture
<1>13. CASE CheckDrop(w) BY <1>13 DEF CheckDrop
<1>14. CASE Attempt(w)
  <2>1. held[w] \in Links /\ copy[w] = job[held[w]] /\ job[held[w]].attempt = 0
    BY <1>14 DEF Attempt
  <2>2. /\ job' = [job EXCEPT ![held[w]].attempt = 1]
        /\ copy' = [copy EXCEPT ![w] = job'[held[w]]]
    BY <1>14, <2>1 DEF Attempt
  <2>3. QED BY <1>14, <2>1, <2>2 DEF Attempt
<1>15. CASE Capture(w) BY <1>15 DEF Capture
<1>16. CASE Store(w) BY <1>16 DEF Store
<1>17. CASE Metadata(w) BY <1>17 DEF Metadata
<1>18. CASE Attach(w) BY <1>18 DEF Attach
<1>19. CASE Complete(w)
  <2>1. Outcome(held[w]) \in {"completed", "failed"} BY DEF Outcome
  <2>2. QED BY <1>19, <2>1 DEF Complete
<1>20. CASE Abandon(w) BY <1>20 DEF Abandon
<1>21. CASE Close(w) BY <1>21 DEF Close, FailPendingCapture
<1>22. CASE Settle(w)
  <2>1. \/ job' = job
        \/ job' = [job EXCEPT ![held[w]].status = "failed"]
    BY <1>22 DEF Settle
  <2>2. QED BY <1>22, <2>1, SMTT(60) DEF Settle
<1>23. CASE Requeue(w) BY <1>23 DEF Requeue
<1>24. QED BY <1>1, <1>2, <1>3, <1>4, <1>5, <1>6, <1>7, <1>8, <1>9, <1>10,
              <1>11, <1>12, <1>13, <1>14, <1>15, <1>16, <1>17, <1>18, <1>19,
              <1>20, <1>21, <1>22, <1>23 DEF Work

LEMMA InvEnvironment ==
    ASSUME IInv,
           \/ \E w \in Workers : LoseWorker(w)
           \/ Beat \/ Tick \/ Deployment \/ UNCHANGED vars
    PROVE  CaptureInv'
<1> USE NewJobFields DEF IInv, TypeInv, TypeOK, CaptureInv, FreshJobs, LinksHeld,
        QueuedJobs, ClaimedJobs, CapturedJobs, PatchedLinks, AtMostOneAttempt,
        UploadKept, HasCaptureJob, HoldingPc, CapturingPc, Owns, Untouched, Unowned,
        SoleOwner, Unswept, Claim, Capturing, LinkUnlocked, linkVars, apiVars,
        heldVars, workerVars, envVars
<1>1. ASSUME NEW w \in Workers, LoseWorker(w) PROVE CaptureInv'
  BY <1>1 DEF LoseWorker, Goto, DropJob, EndTask
<1>2. CASE Beat BY <1>2 DEF Beat
<1>3. CASE Tick
  <2>1. \A w \in Workers : pc[w] # "idle" => taskAge'[w] = taskAge[w] + 1
    BY <1>3 DEF Tick
  <2>2. \A l \in Links : jobAge'[l] <= jobAge[l] + 1 BY <1>3 DEF Tick
  <2>3. ASSUME NEW w \in Workers, NEW l \in Links, pc[w] # "idle", Claim(w, l)
        PROVE  Claim(w, l)'
    <3>1. jobAge[l] \in Nat /\ jobAge'[l] \in Nat /\ taskAge[w] \in Nat
      BY TypeEnvironment, <1>3, BoundAssumption
    <3>2. jobAge'[l] <= taskAge'[w] BY <2>1, <2>2, <2>3, <3>1
    <3>3. QED BY <1>3, <2>3, <3>2 DEF Tick
  <2>4. UNCHANGED <<job, linkVars, apiVars, pc, heldVars, stale>> BY <1>3 DEF Tick
  <2>5. (FreshJobs /\ LinksHeld /\ QueuedJobs)' BY <2>4
  <2> HIDE DEF Claim, TypeOK, HeldLinks
  <2>6. ClaimedJobs' BY <2>3, <2>4
  <2>7. CapturedJobs' BY <2>3, <2>4
  <2>8. (PatchedLinks /\ AtMostOneAttempt /\ UploadKept)' BY <2>4
  <2>9. QED BY <2>5, <2>6, <2>7, <2>8
<1>4. CASE Deployment
  BY <1>4 DEF Deployment, PauseIntake, StopBeat, StartBeat, ResumeIntake
<1>5. CASE UNCHANGED vars BY <1>5 DEF vars
<1>6. QED BY <1>1, <1>2, <1>3, <1>4, <1>5

LEMMA InvStep == IInv /\ [Next]_vars => IInv'
<1>1. TypeInv /\ [Next]_vars => TypeInv' BY TypeStep
<1>2. IInv /\ [Next]_vars => CaptureInv'
  BY InvApi, InvWork, InvEnvironment DEF Next
<1>3. QED BY <1>1, <1>2 DEF IInv

LEMMA InvAlways == Spec => []IInv
<1>1. Init => IInv BY TypeInit, InvInit DEF IInv
<1>2. QED BY <1>1, InvStep, PTL DEF Spec

\* The inductive invariant holds in every state of every pipeline.
THEOREM CaptureInvariant == Spec => []CaptureInv
<1>1. IInv => CaptureInv BY DEF IInv
<1>2. QED BY <1>1, InvAlways, PTL

\* Scoop's file never lies where a link's uploaded file should be.
THEOREM UploadAlwaysKept == Spec => []UploadKept
<1>1. IInv => UploadKept BY DEF IInv, CaptureInv
<1>2. QED BY <1>1, InvAlways, PTL

\* A job goes to Scoop once, however often it is claimed.
THEOREM NoSecondAttempt == Spec => []AtMostOneAttempt
<1>1. IInv => AtMostOneAttempt BY DEF IInv, CaptureInv
<1>2. QED BY <1>1, InvAlways, PTL

\* No two workers capture the same link at once.
THEOREM CapturesExclude == Spec => []OneCaptureAtATime
<1>1. IInv => OneCaptureAtATime
  <2>1. SUFFICES ASSUME IInv, NEW v \in Workers, NEW w \in Workers, NEW l \in Links,
                        Capturing(v, l), Capturing(w, l)
                 PROVE  v = w
    BY DEF OneCaptureAtATime
  <2>2. SoleOwner(w, l) BY <2>1 DEF IInv, CaptureInv, CapturedJobs, Claim
  <2>3. Owns(v, l) BY <2>1 DEF Capturing, Owns, HoldingPc
  <2>4. QED BY <2>2, <2>3 DEF SoleOwner
<1>2. QED BY <1>1, InvAlways, PTL

\* The sweep leaves the jobs of live workers alone.
THEOREM LiveCapturesSpared == Spec => []SweepSparesLiveCaptures
<1>1. IInv => SweepSparesLiveCaptures
  <2>1. SUFFICES ASSUME IInv, NEW w \in Workers, NEW l \in Links, Capturing(w, l)
                 PROVE  ~TimedOut(l) /\ Unswept(l)
    BY DEF SweepSparesLiveCaptures, Unswept
  <2>2. Claim(w, l) BY <2>1 DEF IInv, CaptureInv, CapturedJobs
  <2>3. ~TimedOut(l) BY <2>1, <2>2, ClaimNotTimedOut DEF IInv, TypeInv
  <2>4. QED BY <2>2, <2>3 DEF Claim
<1>2. QED BY <1>1, InvAlways, PTL

----------------------------------------------------------------------------
(* The mark of a replaced capture. Every save keeps it but the one of a     *)
(* PATCH, which sets it: a worker's full save writes back what the row says. *)

LEMMA MarkByApi ==
    ASSUME IInv, NEW l \in Links, Api(l), NEW k \in Links
    PROVE  job'[k].superseded \in {job[k].superseded, TRUE}
<1> USE DEF IInv, TypeInv, TypeOK, apiVars
<1>1. CASE PatchCommit(l) BY <1>1 DEF PatchCommit, JobRow
<1>2. CASE PostEnqueue(l)
  <2>1. job' = [job EXCEPT ![l].status = "pending"] BY <1>2 DEF PostEnqueue
  <2>2. job'[k].superseded = job[k].superseded BY <2>1 DEF JobRow
  <2>3. QED BY <2>2
<1>3. CASE ~PatchCommit(l) /\ ~PostEnqueue(l)
  BY <1>3 DEF Api, PostLink, PostFile, PostCapture, DeleteCheck, DeleteCommit,
     PatchOpen, PatchMoveAside, PatchWrite, PatchAbort
<1>4. QED BY <1>1, <1>2, <1>3

LEMMA MarkByWork ==
    ASSUME IInv, NEW w \in Workers, Work(w), NEW k \in Links
    PROVE  job'[k].superseded = job[k].superseded
<1> USE DEF IInv, TypeInv, TypeOK, JobRow
<1>1. ASSUME NEW l \in Links, SweepJob(w, l) PROVE job'[k].superseded = job[k].superseded
  BY <1>1 DEF SweepJob
<1>2. CASE Purge(w) BY <1>2 DEF Purge
<1>3. CASE Reserve(w) BY <1>3 DEF Reserve, Pending
<1>4. CASE CheckDrop(w) BY <1>4 DEF CheckDrop
<1>5. CASE Attempt(w)
  <2>1. held[w] \in Links /\ copy[w] = job[held[w]]
    BY <1>5 DEF Attempt, CaptureInv, CapturedJobs, LinksHeld, Capturing, HoldingPc,
       CapturingPc
  <2>2. QED BY <1>5, <2>1 DEF Attempt
<1>6. CASE Complete(w) BY <1>6 DEF Complete
<1>7. CASE Settle(w) BY <1>7 DEF Settle
<1>8. CASE UNCHANGED job BY <1>8
<1>9. QED
  BY <1>1, <1>2, <1>3, <1>4, <1>5, <1>6, <1>7, <1>8
  DEF Work, StartTask, Select, SweepCaptures, SweepDone, SelectNone, ReserveAgain,
      Refresh, LoadLink, CheckPending, Capture, Store, Metadata, Attach, Abandon,
      Close, Requeue

\* No save of a stale object clears the mark that a PATCH has set.
THEOREM MarkKept == Spec => SupersededKept
<1>1. ASSUME IInv, [Next]_vars, NEW l \in Links, job[l].superseded
      PROVE  job'[l].superseded
  <2>1. CASE \E k \in Links : Api(k)
    <3>1. job'[l].superseded \in {job[l].superseded, TRUE} BY <2>1, <1>1, MarkByApi
    <3>2. job[l].superseded \in BOOLEAN BY <1>1 DEF IInv, TypeInv, TypeOK, JobRow
    <3>3. QED BY <1>1, <3>1, <3>2
  <2>2. CASE \E w \in Workers : Work(w) BY <2>2, <1>1, MarkByWork
  <2>3. CASE UNCHANGED job BY <2>3, <1>1
  <2>4. QED
    BY <1>1, <2>1, <2>2, <2>3
    DEF Next, LoseWorker, Beat, Tick, Deployment, PauseIntake, StopBeat, StartBeat,
        ResumeIntake, vars
<1>2. IInv /\ [Next]_vars
        => [\A l \in Links : job[l].superseded => job'[l].superseded]_vars
  BY <1>1
<1>3. QED BY <1>2, InvAlways, PTL DEF Spec, SupersededKept

----------------------------------------------------------------------------
(* A link nobody has started to PATCH. No stale row can be saved for it, so *)
(* from the claim to the last statement its job has one worker, and what    *)
(* that worker still believes of the job is true. CaptureInv knows less: it *)
(* speaks of patched links too, and of no worker past the end of a capture. *)

OneOwner(l) ==
    \A w \in Workers : Owns(w, l) =>
        /\ SoleOwner(w, l) /\ Unswept(l)
        /\ jobAge[l] <= taskAge[w]
        /\ job[l].status # "pending"
        /\ pc[w] \notin {"close", "settle"} \/ copy[w].status = "in_progress"
             => job[l].status = "in_progress"
        /\ pc[w] \in {"load", "check"} \cup CapturingPc => copy[w] = job[l]

SweptJob(l) == ~Unswept(l) => job[l].status \in {"in_progress", "failed"}

ScoopStored(l) ==
    /\ \A w \in Workers : Owns(w, l) =>
         /\ pc[w] \in {"metadata", "attach", "complete"} => archive[l] = "scoop"
         /\ pc[w] \in {"attach", "complete"} => capture[l] = "success"
    /\ job[l].status = "completed" => capture[l] = "success" /\ archive[l] = "scoop"

\* Until a worker has checked it, the capture POST made waits.
CaptureWaits(l) ==
    /\ post[l] # "done" => capture[l] \in {"none", "pending"} /\ ~attachments[l]
    /\ ~user_deleted[l] =>
         /\ post[l] = "captured" \/ job[l].status = "pending" => capture[l] = "pending"
         /\ \A w \in Workers :
              Owns(w, l) /\ pc[w] \in {"refresh", "load", "check"} => capture[l] = "pending"
    /\ \A w \in Workers :
         Owns(w, l) /\ pc[w] = "check" /\ gone[w] => user_deleted[l]

Unpatched(l) ==
    /\ patch[l] = "none"
    /\ ~job[l].superseded
    /\ post[l] # "done" \/ HasCaptureJob(l) => upload[l] = "none"
    /\ OneOwner(l) /\ SweptJob(l) /\ CaptureWaits(l)
    /\ ~user_deleted[l] => ScoopStored(l)

UnpatchedInv == \A l \in Links : patches[l] = 0 => Unpatched(l)

Final(l) == job[l].status \in Ended => job'[l].status = job[l].status

LEMMA UnpatchedInit == Init => UnpatchedInv
BY DEF Init, UnpatchedInv, Unpatched, OneOwner, SweptJob, CaptureWaits, ScoopStored, NewJob, HasCaptureJob,
       HoldingPc, CapturingPc, Owns, Unswept

LEMMA UnpatchedApi ==
    ASSUME IInv, NEW l \in Links, Unpatched(l), NEW k \in Links, Api(k), patches'[l] = 0
    PROVE  Unpatched(l)' /\ Final(l)
<1> USE NewJobFields DEF IInv, TypeInv, TypeOK, CaptureInv, FreshJobs, Unpatched, OneOwner,
        SweptJob, CaptureWaits, ScoopStored, Final, Ended, HasCaptureJob, HoldingPc, CapturingPc, Owns,
        Unowned, SoleOwner, Unswept, LinkUnlocked, linkVars, apiVars, heldVars, workerVars,
        envVars
<1>1. CASE PostLink(k) BY <1>1 DEF PostLink
<1>2. CASE PostFile(k)
  <2>1. /\ k = l => ~HasCaptureJob(l) /\ Unowned(l) /\ post'[l] = "done"
        /\ k # l => post'[l] = post[l] /\ upload'[l] = upload[l] /\ archive'[l] = archive[l]
    BY <1>2 DEF PostFile
  <2>2. UNCHANGED <<job, capture, attachments, user_deleted, patch, workerVars, jobAge>>
    BY <1>2 DEF PostFile
  <2>3. OneOwner(l)' /\ SweptJob(l)' /\ Final(l) BY <2>2
  <2>4. ~user_deleted'[l] => ScoopStored(l)' BY <2>1, <2>2
  <2>0. CaptureWaits(l)'
    <3>1. CASE k = l BY <2>1, <2>2, <3>1
    <3>2. CASE k # l BY <2>1, <2>2, <3>2
    <3>3. QED BY <3>1, <3>2
  <2>5. (post[l] # "done" \/ HasCaptureJob(l) => upload[l] = "none")' BY <2>1, <2>2
  <2>6. patch'[l] = "none" /\ ~job'[l].superseded BY <2>2
  <2> HIDE DEF OneOwner, SweptJob, CaptureWaits, ScoopStored, Final, HasCaptureJob
  <2>7. QED BY <2>0, <2>3, <2>4, <2>5, <2>6
<1>3. CASE PostCapture(k) BY <1>3 DEF PostCapture
<1>4. CASE PostEnqueue(k) BY <1>4 DEF PostEnqueue
<1>5. CASE DeleteCheck(k) BY <1>5 DEF DeleteCheck
<1>6. CASE DeleteCommit(k) BY <1>6 DEF DeleteCommit
<1>7. CASE PatchOpen(k) BY <1>7 DEF PatchOpen
<1>8. CASE PatchMoveAside(k) BY <1>8 DEF PatchMoveAside
<1>9. CASE PatchWrite(k) BY <1>9 DEF PatchWrite
<1>10. CASE PatchCommit(k) BY <1>10 DEF PatchCommit, EndPatch
<1>11. CASE PatchAbort(k) BY <1>11 DEF PatchAbort, EndPatch
<1>12. QED BY <1>1, <1>2, <1>3, <1>4, <1>5, <1>6, <1>7, <1>8, <1>9, <1>10,
              <1>11 DEF Api

LEMMA UnpatchedWork ==
    ASSUME IInv, NEW l \in Links, Unpatched(l), NEW w \in Workers, Work(w)
    PROVE  Unpatched(l)' /\ Final(l)
<1> USE DEF IInv, TypeInv, TypeOK, CaptureInv, LinksHeld, Unpatched, OneOwner,
        SweptJob, CaptureWaits, ScoopStored, Final, Ended, HasCaptureJob, HoldingPc, CapturingPc, Owns,
        Unowned, SoleOwner, Unswept, LinkUnlocked, linkVars, apiVars, heldVars, workerVars,
        envVars, Goto, DropJob, EndTask
<1>1. CASE StartTask(w) BY <1>1, BoundAssumption DEF StartTask, TimedOut
<1>2. ASSUME NEW k \in Links, SweepJob(w, k) PROVE Unpatched(l)' /\ Final(l)
  BY <1>2 DEF SweepJob
<1>3. ASSUME NEW k \in Links, Select(w, k) PROVE Unpatched(l)' /\ Final(l)
  BY <1>3 DEF Select
<1>4. CASE SweepCaptures(w)
  <2>1. \/ capture'[l] = capture[l]
        \/ ~Unswept(l) /\ capture[l] = "pending" /\ capture'[l] = "failed"
    BY <1>4 DEF SweepCaptures, FailPendingCapture
  <2>2. ~Unswept(l) => Unowned(l) /\ job[l].status # "pending" /\ post[l] = "done"
    BY DEF FreshJobs
  <2>3. UNCHANGED <<job, upload, attachments, archive, user_deleted, post, patch, jobAge,
                    taskAge>>
    BY <1>4 DEF SweepCaptures
  <2>4. \A v \in Workers :
          /\ stale'[v] \subseteq stale[v]
          /\ pc'[v] \in HoldingPc => v # w /\ pc'[v] = pc[v] /\ held'[v] = held[v]
                                     /\ copy'[v] = copy[v] /\ gone'[v] = gone[v]
    BY <1>4 DEF SweepCaptures
  <2>5. OneOwner(l)' /\ SweptJob(l)' /\ Final(l) BY <2>3, <2>4
  <2>6. CaptureWaits(l)' BY <2>1, <2>2, <2>3, <2>4
  <2>7. ~user_deleted'[l] => ScoopStored(l)' BY <2>1, <2>3, <2>4
  <2>8. (post[l] # "done" \/ HasCaptureJob(l) => upload[l] = "none")' BY <2>3
  <2>9. patch'[l] = "none" /\ ~job'[l].superseded BY <2>3
  <2> HIDE DEF OneOwner, SweptJob, CaptureWaits, ScoopStored, Final, HasCaptureJob
  <2>10. QED BY <2>5, <2>6, <2>7, <2>8, <2>9
<1>5. CASE SweepDone(w) BY <1>5 DEF SweepDone
<1>6. CASE Purge(w) BY <1>6 DEF Purge
<1>7. CASE SelectNone(w) BY <1>7 DEF SelectNone
<1>8. CASE Reserve(w) BY <1>8 DEF Reserve, Pending
<1>9. CASE ReserveAgain(w) BY <1>9 DEF ReserveAgain
<1>10. CASE Refresh(w) BY <1>10 DEF Refresh
<1>11. CASE LoadLink(w) BY <1>11 DEF LoadLink
<1>12. CASE CheckPending(w) BY <1>12 DEF CheckPending
<1>13. CASE CheckDrop(w) BY <1>13 DEF CheckDrop
<1>14. CASE Attempt(w) BY <1>14 DEF Attempt
<1>15. CASE Capture(w) BY <1>15 DEF Capture
<1>16. CASE Store(w) BY <1>16 DEF Store
<1>17. CASE Metadata(w)
  <2>1. capture'[l] = IF Owns(w, l) THEN "success" ELSE capture[l]
    BY <1>17 DEF Metadata
  <2>2. Owns(w, l) => job[l].status # "pending" /\ post[l] = "done" /\ SoleOwner(w, l)
    BY DEF FreshJobs
  <2>3. UNCHANGED <<job, upload, attachments, archive, user_deleted, post, patch, jobAge,
                    taskAge, held, copy, gone, stale>>
    BY <1>17 DEF Metadata
  <2>4. /\ Owns(w, l)' => Owns(w, l)
        /\ \A v \in Workers \ {w} : pc'[v] = pc[v]
        /\ pc[w] = "metadata" /\ pc'[w] = "attach"
    BY <1>17 DEF Metadata
  <2>5. OneOwner(l)' /\ SweptJob(l)' /\ Final(l) BY <1>17, <2>3, <2>4 DEF Metadata
  <2>6. CaptureWaits(l)' BY <2>1, <2>2, <2>3, <2>4
  <2>7. ~user_deleted'[l] => ScoopStored(l)' BY <2>1, <2>2, <2>3, <2>4
  <2>8. (post[l] # "done" \/ HasCaptureJob(l) => upload[l] = "none")' BY <2>3
  <2>9. patch'[l] = "none" /\ ~job'[l].superseded BY <2>3
  <2> HIDE DEF OneOwner, SweptJob, CaptureWaits, ScoopStored, Final, HasCaptureJob
  <2>10. QED BY <2>5, <2>6, <2>7, <2>8, <2>9
<1>18. CASE Attach(w)
  <2>1. attachments'[l] = attachments[l] \/ Owns(w, l)
    BY <1>18 DEF Attach
  <2>2. Owns(w, l) => job[l].status # "pending" /\ post[l] = "done" /\ SoleOwner(w, l)
    BY DEF FreshJobs
  <2>3. UNCHANGED <<job, capture, upload, archive, user_deleted, post, patch, jobAge,
                    taskAge, held, copy, gone, stale>>
    BY <1>18 DEF Attach
  <2>4. /\ Owns(w, l)' => Owns(w, l)
        /\ \A v \in Workers \ {w} : pc'[v] = pc[v]
        /\ pc[w] = "attach" /\ pc'[w] = "complete"
    BY <1>18 DEF Attach
  <2>5. OneOwner(l)' /\ SweptJob(l)' /\ Final(l) BY <1>18, <2>3, <2>4 DEF Attach
  <2>6. CaptureWaits(l)' BY <2>1, <2>2, <2>3, <2>4
  <2>7. ~user_deleted'[l] => ScoopStored(l)' BY <2>1, <2>2, <2>3, <2>4
  <2>8. (post[l] # "done" \/ HasCaptureJob(l) => upload[l] = "none")' BY <2>3
  <2>9. patch'[l] = "none" /\ ~job'[l].superseded BY <2>3
  <2> HIDE DEF OneOwner, SweptJob, CaptureWaits, ScoopStored, Final, HasCaptureJob
  <2>10. QED BY <2>5, <2>6, <2>7, <2>8, <2>9
<1>19. CASE Complete(w) BY <1>19 DEF Complete, Outcome, HasCaptures
<1>20. CASE Abandon(w) BY <1>20 DEF Abandon, Outcome, HasCaptures
<1>21. CASE Close(w)
  <2>1. \/ capture'[l] = capture[l]
        \/ Owns(w, l) /\ capture[l] = "pending" /\ capture'[l] = "failed"
    BY <1>21 DEF Close, FailPendingCapture
  <2>2. Owns(w, l) => job[l].status # "pending" /\ post[l] = "done" /\ SoleOwner(w, l)
    BY DEF FreshJobs
  <2>3. UNCHANGED <<job, upload, attachments, archive, user_deleted, post, patch, jobAge,
                    taskAge, held, copy, gone, stale>>
    BY <1>21 DEF Close
  <2>4. /\ Owns(w, l)' => Owns(w, l)
        /\ \A v \in Workers \ {w} : pc'[v] = pc[v]
        /\ pc[w] = "close" /\ pc'[w] = "settle"
    BY <1>21 DEF Close
  <2>5. OneOwner(l)' /\ SweptJob(l)' /\ Final(l) BY <1>21, <2>3, <2>4 DEF Close
  <2>6. CaptureWaits(l)' BY <2>1, <2>2, <2>3, <2>4
  <2>7. ~user_deleted'[l] => ScoopStored(l)' BY <2>1, <2>2, <2>3, <2>4
  <2>8. (post[l] # "done" \/ HasCaptureJob(l) => upload[l] = "none")' BY <2>3
  <2>9. patch'[l] = "none" /\ ~job'[l].superseded BY <2>3
  <2> HIDE DEF OneOwner, SweptJob, CaptureWaits, ScoopStored, Final, HasCaptureJob
  <2>10. QED BY <2>5, <2>6, <2>7, <2>8, <2>9
<1>22. CASE Settle(w) BY <1>22 DEF Settle
<1>23. CASE Requeue(w) BY <1>23 DEF Requeue
<1>24. QED BY <1>1, <1>2, <1>3, <1>4, <1>5, <1>6, <1>7, <1>8, <1>9, <1>10,
              <1>11, <1>12, <1>13, <1>14, <1>15, <1>16, <1>17, <1>18, <1>19,
              <1>20, <1>21, <1>22, <1>23 DEF Work

LEMMA UnpatchedEnvironment ==
    ASSUME IInv, NEW l \in Links, Unpatched(l),
           \/ \E w \in Workers : LoseWorker(w)
           \/ Beat \/ Tick \/ Deployment \/ UNCHANGED vars
    PROVE  Unpatched(l)' /\ Final(l)
<1> USE DEF IInv, TypeInv, TypeOK, Unpatched, OneOwner,
        SweptJob, CaptureWaits, ScoopStored, Final, Ended, HasCaptureJob, HoldingPc, CapturingPc, Owns,
        Unowned, SoleOwner, Unswept, linkVars, apiVars, heldVars, workerVars, envVars
<1>1. ASSUME NEW w \in Workers, LoseWorker(w) PROVE Unpatched(l)' /\ Final(l)
  BY <1>1 DEF LoseWorker, Goto, DropJob, EndTask
<1>2. CASE Beat BY <1>2 DEF Beat
<1>3. CASE Tick
  <2>1. jobAge'[l] <= jobAge[l] + 1 /\ jobAge[l] \in Nat /\ jobAge'[l] \in Nat
    BY <1>3, BoundAssumption DEF Tick
  <2>2. \A w \in Workers : pc[w] # "idle" => taskAge'[w] = taskAge[w] + 1 /\ taskAge[w] \in Nat
    BY <1>3 DEF Tick
  <2>3. UNCHANGED <<job, linkVars, apiVars, pc, heldVars, stale>>
    BY <1>3 DEF Tick
  <2>4. QED BY <2>1, <2>2, <2>3
<1>4. CASE Deployment
  BY <1>4 DEF Deployment, PauseIntake, StopBeat, StartBeat, ResumeIntake
<1>5. CASE UNCHANGED vars BY <1>5 DEF vars
<1>6. QED BY <1>1, <1>2, <1>3, <1>4, <1>5

\* Only the step that begins a PATCH counts it ...
LEMMA OnlyOpenCounts ==
    ASSUME [Next]_vars
    PROVE  UNCHANGED patches \/ \E k \in Links : PatchOpen(k)
<1>2. ASSUME NEW k \in Links, Api(k), ~PatchOpen(k) PROVE UNCHANGED patches
  BY <1>2 DEF Api, PostLink, PostFile, PostCapture, PostEnqueue, DeleteCheck, DeleteCommit,
     PatchMoveAside, PatchWrite, PatchCommit, PatchAbort, apiVars
<1>3. ASSUME NEW w \in Workers, Work(w) PROVE UNCHANGED patches
  BY <1>3
  DEF Work, StartTask, SweepJob, Select, SweepCaptures, SweepDone, Purge, SelectNone,
      Reserve, ReserveAgain, Refresh, LoadLink, CheckPending, CheckDrop, Attempt, Capture,
      Store, Metadata, Attach, Complete, Abandon, Close, Settle, Requeue, apiVars
<1>4. CASE \E w \in Workers : LoseWorker(w) BY <1>4 DEF LoseWorker, apiVars
<1>5. CASE Beat \/ Tick \/ Deployment \/ UNCHANGED vars
  BY <1>5 DEF Beat, Tick, Deployment, PauseIntake, StopBeat, StartBeat, ResumeIntake, vars,
     apiVars
<1>6. QED BY <1>2, <1>3, <1>4, <1>5 DEF Next

\* ... none forgets it, and the step that begins one saves no job.
LEMMA PatchesCounted ==
    ASSUME TypeOK, [Next]_vars, NEW l \in Links
    PROVE  patches'[l] = patches[l] \/ (patches'[l] # 0 /\ job' = job)
<1>1. ASSUME NEW k \in Links, PatchOpen(k)
      PROVE  patches'[l] = patches[l] \/ (patches'[l] # 0 /\ job' = job)
  BY <1>1, BoundAssumption DEF PatchOpen, TypeOK
<1>2. QED BY <1>1, OnlyOpenCounts

LEMMA UnpatchedStep ==
    ASSUME IInv, UnpatchedInv, [Next]_vars
    PROVE  /\ UnpatchedInv'
           /\ \A l \in Links : patches[l] = 0 => Final(l)
<1>1. ASSUME NEW l \in Links, patches'[l] = 0 PROVE Unpatched(l)' /\ Final(l)
  <2>1. Unpatched(l) BY <1>1, PatchesCounted DEF UnpatchedInv, IInv, TypeInv
  <2>2. QED BY <1>1, <2>1, UnpatchedApi, UnpatchedWork, UnpatchedEnvironment DEF Next
<1>2. ASSUME NEW l \in Links, patches[l] = 0 PROVE Final(l)
  <2>1. patches'[l] = 0 \/ job' = job BY <1>2, PatchesCounted DEF IInv, TypeInv
  <2>2. QED BY <1>1, <2>1 DEF Final
<1>3. QED BY <1>1, <1>2 DEF UnpatchedInv

LEMMA UnpatchedAlways == Spec => [](IInv /\ UnpatchedInv)
<1>1. Init => IInv /\ UnpatchedInv BY TypeInit, InvInit, UnpatchedInit DEF IInv
<1>2. IInv /\ UnpatchedInv /\ [Next]_vars => (IInv /\ UnpatchedInv)'
  BY InvStep, UnpatchedStep
<1>3. QED BY <1>1, <1>2, PTL DEF Spec

\* Once a job has ended its outcome stays, unless the owner began to replace the capture.
THEOREM OutcomesAreFinal == Spec => OutcomeIsFinal
<1>1. IInv /\ UnpatchedInv /\ [Next]_vars
        => [\A l \in Links : job[l].status \in Ended /\ patches[l] = 0
                               => job'[l].status = job[l].status]_vars
  BY UnpatchedStep DEF Final
<1>2. QED BY <1>1, UnpatchedAlways, PTL DEF Spec, OutcomeIsFinal

\* A completed job has Scoop's archive and a successful capture, and the two exports
\* agree on every job that has ended, unless the owner deleted or replaced the link.
THEOREM CompletedAlwaysHasArchive == Spec => []CompletedHasArchive
<1>1. IInv /\ UnpatchedInv => CompletedHasArchive
  <2>1. SUFFICES ASSUME UnpatchedInv, NEW l \in Links, ~user_deleted[l], patches[l] = 0
                 PROVE  /\ job[l].status = "completed"
                             => capture[l] = "success" /\ archive[l] = "scoop"
                        /\ job[l].status \in Ended =>
                             (batch_status(l) = "success" <=> report_status(l) = "success")
    BY DEF CompletedHasArchive
  <2>2. /\ ~job[l].superseded
        /\ job[l].status = "completed" => capture[l] = "success" /\ archive[l] = "scoop"
    BY <2>1 DEF UnpatchedInv, Unpatched, ScoopStored
  <2>3. ASSUME job[l].status \in Ended
        PROVE  batch_status(l) = "success" <=> report_status(l) = "success"
    <3>1. HasCaptureJob(l) /\ job[l].status \notin {"pending", "in_progress"}
      BY <2>3 DEF Ended, HasCaptureJob
    <3>2. Playable(l) <=> job[l].status = "completed"
      BY <2>1, <2>2, <3>1 DEF Playable
    <3>3. QED BY <3>1, <3>2 DEF batch_status, report_status
  <2>4. QED BY <2>2, <2>3
<1>2. QED BY <1>1, UnpatchedAlways, PTL

----------------------------------------------------------------------------
(* The pipeline implements CaptureService. A link outside Replacers is never *)
(* patched, so UnpatchedInv holds of every request; each step then moves one *)
(* request of the service, drops some, or changes nothing the owner reads.   *)

Unreplaced == \A l \in Requests : patches[l] = 0

RefInv == IInv /\ UnpatchedInv /\ Unreplaced

\* What the service shows of a request stays.
Same(l) ==
    /\ RequestState(l)' = RequestState(l)
    /\ Playable(l)' = Playable(l)
    /\ user_deleted'[l] = user_deleted[l]

Others(r) == \A l \in Requests \ {r} : Same(l)

LEMMA Stutter ==
    ASSUME \A l \in Requests : Same(l)
    PROVE  UNCHANGED Service!vars
BY DEF Same, Service!vars

\* The functions of the service when one request changes.
LEMMA OneChanges ==
    ASSUME NEW r \in Requests, Others(r)
    PROVE  /\ [l \in Requests |-> RequestState(l)]'
                = [[l \in Requests |-> RequestState(l)] EXCEPT ![r] = RequestState(r)']
           /\ [l \in Requests |-> Playable(l)]'
                = [[l \in Requests |-> Playable(l)] EXCEPT ![r] = Playable(r)']
           /\ [l \in Requests |-> user_deleted[l]]'
                = [[l \in Requests |-> user_deleted[l]] EXCEPT ![r] = user_deleted'[r]]
BY DEF Others, Same

LEMMA Moved ==
    ASSUME NEW r \in Requests, Others(r),
           Playable(r)' = Playable(r), user_deleted'[r] = user_deleted[r],
           \/ RequestState(r) = "none" /\ RequestState(r)' = "queued"
           \/ RequestState(r) = "queued" /\ RequestState(r)' = "working"
           \/ RequestState(r) = "working" /\ RequestState(r)' = "failed"
    PROVE  Service!Next
<1>1. UNCHANGED <<[l \in Requests |-> Playable(l)], [l \in Requests |-> user_deleted[l]]>>
  BY OneChanges
<1>2. Service!Submit(r) \/ Service!Start(r) \/ Service!Fail(r)
  BY <1>1, OneChanges DEF Service!Submit, Service!Start, Service!Fail, Service!Move
<1>3. QED BY <1>2 DEF Service!Next

LEMMA Archived ==
    ASSUME NEW r \in Requests, Others(r), user_deleted'[r] = user_deleted[r],
           RequestState(r) = "working", RequestState(r)' = "archived",
           Playable(r)' = ~user_deleted[r]
    PROVE  Service!Next
<1>1. UNCHANGED [l \in Requests |-> user_deleted[l]]
  BY OneChanges
<1>2. Service!Archive(r)
  BY <1>1, OneChanges DEF Service!Archive, Service!Move
<1>3. QED BY <1>2 DEF Service!Next

LEMMA Uploaded ==
    ASSUME NEW r \in Requests, Others(r), user_deleted'[r] = user_deleted[r],
           RequestState(r) = "none", RequestState(r)' = "none",
           Playable(r)' = ~user_deleted[r]
    PROVE  Service!Next
<1>1. UNCHANGED [l \in Requests |-> RequestState(l)]
  BY OneChanges
<1>2. UNCHANGED [l \in Requests |-> user_deleted[l]]
  BY OneChanges
<1>3. Service!Upload(r)
  BY <1>1, <1>2, OneChanges DEF Service!Upload
<1>4. QED BY <1>3 DEF Service!Next

LEMMA Deleted ==
    ASSUME NEW r \in Requests, Others(r), RequestState(r)' = RequestState(r),
           ~user_deleted[r], user_deleted'[r] = TRUE, Playable(r)' = FALSE
    PROVE  Service!Next
<1>1. UNCHANGED [l \in Requests |-> RequestState(l)]
  BY OneChanges
<1>2. Service!Delete(r)
  BY <1>1, OneChanges DEF Service!Delete
<1>3. QED BY <1>2 DEF Service!Next

LEMMA Dropped ==
    ASSUME NEW R \in SUBSET Requests,
           \A r \in R : user_deleted[r] /\ RequestState(r) \in {"queued", "working"}
                        /\ RequestState(r)' = "dropped" /\ Playable(r)' = Playable(r),
           \A l \in Requests \ R : Same(l),
           UNCHANGED user_deleted
    PROVE  Service!Next
<1>1. UNCHANGED <<[l \in Requests |-> Playable(l)], [l \in Requests |-> user_deleted[l]]>>
  BY DEF Same
<1>2. [l \in Requests |-> RequestState(l)]'
        = [r \in Requests |-> IF r \in R THEN "dropped"
                              ELSE [l \in Requests |-> RequestState(l)][r]]
  BY DEF Same
<1>3. Service!Drop(R)
  BY <1>1, <1>2 DEF Service!Drop
<1>4. QED BY <1>3 DEF Service!Next

\* What the service shows depends on the rows only ...
LEMMA SameRows ==
    ASSUME NEW l \in Links, job'[l] = job[l], capture'[l] = capture[l], upload'[l] = upload[l],
           attachments'[l] = attachments[l], user_deleted'[l] = user_deleted[l]
    PROVE  Same(l)
BY DEF Same, RequestState, Playable, HasCaptureJob

\* ... and for a link with a job, on the job and the link alone.
LEMMA PlayableMeans ==
    /\ \A l \in Links : Unpatched(l) /\ HasCaptureJob(l) =>
         (Playable(l) <=> ~user_deleted[l] /\ job[l].status = "completed")
    /\ \A l \in Links : Unpatched(l)' /\ HasCaptureJob(l)' =>
         (Playable(l)' <=> ~user_deleted'[l] /\ job'[l].status = "completed")
<1>1. \A l \in Links : Unpatched(l) /\ HasCaptureJob(l) =>
         (Playable(l) <=> ~user_deleted[l] /\ job[l].status = "completed")
  BY DEF Playable, Unpatched, ScoopStored
<1>2. \A l \in Links : Unpatched(l)' /\ HasCaptureJob(l)' =>
         (Playable(l)' <=> ~user_deleted'[l] /\ job'[l].status = "completed")
  BY DEF Playable, Unpatched, ScoopStored
<1>3. QED BY <1>1, <1>2

LEMMA PlayableTyped ==
    /\ \A l \in Links : user_deleted \in [Links -> BOOLEAN] => Playable(l) \in BOOLEAN
    /\ \A l \in Links : user_deleted' \in [Links -> BOOLEAN] => Playable(l)' \in BOOLEAN
BY DEF Playable

LEMMA RequestsAreLinks == Requests \subseteq Links
BY DEF Requests

LEMMA ServiceApi ==
    ASSUME RefInv, RefInv', NEW k \in Links, Api(k)
    PROVE  Service!Next \/ UNCHANGED Service!vars
<1>0. /\ \A l \in Requests : l \in Links /\ Unpatched(l) /\ Unpatched(l)'
      /\ TypeOK /\ TypeOK' /\ FreshJobs
  BY RequestsAreLinks DEF RefInv, UnpatchedInv, Unreplaced, IInv, TypeInv, CaptureInv
<1>1. ASSUME UNCHANGED <<job, capture, upload, attachments, user_deleted>>
      PROVE  UNCHANGED Service!vars
  BY <1>0, <1>1, SameRows, Stutter
<1>2. CASE PostFile(k)
  <2>1. Others(k) BY <1>0, <1>2, SameRows DEF Others, PostFile
  <2>2. CASE k \in Requests
    <3>1. /\ job[k].status = "invalid" /\ job' = job /\ user_deleted' = user_deleted
          /\ upload'[k] = "success"
      BY <1>0, <1>2, <2>2 DEF PostFile, FreshJobs, HasCaptureJob, TypeOK
    <3>2. RequestState(k) = "none" /\ RequestState(k)' = "none" BY <3>1 DEF RequestState
    <3>3. Playable(k)' = ~user_deleted[k]
      BY <3>1, <1>0 DEF Playable, HasCaptureJob, TypeOK
    <3>4. QED BY <2>1, <2>2, <3>1, <3>2, <3>3, Uploaded
  <2>3. CASE k \notin Requests BY <2>1, <2>3, Stutter DEF Others
  <2>4. QED BY <2>2, <2>3
<1>3. CASE PostCapture(k)
  <2>1. Others(k) BY <1>0, <1>3, SameRows DEF Others, PostCapture
  <2>2. ASSUME k \in Requests PROVE Same(k)
    <3>1. /\ job[k].status = "invalid" /\ job' = job /\ user_deleted' = user_deleted
          /\ upload'[k] = "none" /\ capture[k] # "success" /\ capture'[k] # "success"
          /\ upload[k] = "none" /\ ~attachments[k] /\ ~attachments'[k]
      <4>1. /\ post[k] = "link" /\ job' = job /\ user_deleted' = user_deleted
            /\ upload' = upload /\ attachments' = attachments /\ capture'[k] = "pending"
        BY <1>0, <1>3 DEF PostCapture, TypeOK
      <4>2. job[k].status = "invalid" BY <1>0, <4>1 DEF FreshJobs, HasCaptureJob
      <4>3. capture[k] # "success" /\ upload[k] = "none" /\ ~attachments[k]
        BY <1>0, <2>2, <4>1 DEF Unpatched, CaptureWaits
      <4>4. QED BY <4>1, <4>2, <4>3
    <3>2. QED BY <3>1 DEF Same, RequestState, Playable
  <2>3. QED BY <2>1, <2>2, Stutter DEF Others
<1>4. CASE PostEnqueue(k)
  <2>1. Others(k) BY <1>0, <1>4, SameRows DEF Others, PostEnqueue, linkVars
  <2>2. CASE k \in Requests
    <3>1. /\ job[k].status = "invalid" /\ job'[k].status = "pending"
          /\ user_deleted' = user_deleted /\ post[k] = "captured"
      BY <1>0, <1>4, <2>2 DEF PostEnqueue, FreshJobs, HasCaptureJob, TypeOK, JobRow, linkVars
    <3>2. RequestState(k) = "none" /\ RequestState(k)' = "queued" BY <3>1 DEF RequestState
    <3>3. ~Playable(k) /\ ~Playable(k)'
      <4>1. capture[k] # "success" /\ upload[k] = "none" /\ ~attachments[k]
        BY <1>0, <2>2, <3>1 DEF Unpatched, CaptureWaits
      <4>2. ~Playable(k) BY <4>1 DEF Playable
      <4>3. ~Playable(k)' BY <1>0, <2>2, <3>1, PlayableMeans DEF HasCaptureJob
      <4>4. QED BY <4>2, <4>3
    <3>4. Playable(k)' = Playable(k) BY <1>0, <3>3, PlayableTyped DEF TypeOK
    <3>5. QED BY <2>1, <2>2, <3>1, <3>2, <3>4, Moved
  <2>3. CASE k \notin Requests BY <2>1, <2>3, Stutter DEF Others
  <2>4. QED BY <2>2, <2>3
<1>5. CASE DeleteCommit(k)
  <2>0. \A l \in Requests \ {k} :
           /\ job'[l] = job[l] /\ capture'[l] = capture[l] /\ upload'[l] = upload[l]
           /\ attachments'[l] = attachments[l] /\ user_deleted'[l] = user_deleted[l]
    BY <1>0, <1>5 DEF DeleteCommit, TypeOK
  <2>1. Others(k) BY <1>0, <2>0, SameRows DEF Others
  <2>2. job' = job /\ user_deleted'[k] = TRUE BY <1>0, <1>5 DEF DeleteCommit, TypeOK
  <2>3. RequestState(k)' = RequestState(k) BY <2>2 DEF RequestState
  <2>4. Playable(k)' = FALSE BY <2>2 DEF Playable
  <2>5. CASE k \in Requests /\ ~user_deleted[k] BY <2>1, <2>2, <2>3, <2>4, <2>5, Deleted
  <2>6. CASE k \in Requests /\ user_deleted[k]
    <3>1. Playable(k) = FALSE BY <2>6 DEF Playable
    <3>2. user_deleted[k] = TRUE BY <1>0, <2>6 DEF TypeOK
    <3>3. Same(k) BY <2>2, <2>3, <2>4, <3>1, <3>2 DEF Same
    <3>4. QED BY <2>1, <3>3, Stutter DEF Others
  <2>7. CASE k \notin Requests BY <2>1, <2>7, Stutter DEF Others
  <2>8. QED BY <2>5, <2>6, <2>7
<1>6. CASE PatchCommit(k)
  <2>1. k \notin Requests BY <1>0, <1>6 DEF PatchCommit, Unpatched
  <2>0. \A l \in Requests :
           /\ job'[l] = job[l] /\ capture'[l] = capture[l] /\ upload'[l] = upload[l]
           /\ attachments'[l] = attachments[l] /\ user_deleted'[l] = user_deleted[l]
    <3> SUFFICES ASSUME NEW l \in Requests
                 PROVE  /\ job'[l] = job[l] /\ capture'[l] = capture[l]
                        /\ upload'[l] = upload[l] /\ attachments'[l] = attachments[l]
                        /\ user_deleted'[l] = user_deleted[l]
      OBVIOUS
    <3>1. l \in Links /\ l # k BY <1>0, <2>1
    <3>2. job'[l] = job[l] BY <1>0, <1>6, <3>1 DEF PatchCommit, TypeOK
    <3>3. /\ capture'[l] = capture[l] /\ upload'[l] = upload[l]
          /\ attachments'[l] = attachments[l] /\ user_deleted' = user_deleted
      BY <1>0, <1>6, <3>1 DEF PatchCommit, TypeOK
    <3>4. QED BY <3>2, <3>3
  <2>2. \A l \in Requests : Same(l) BY <1>0, <2>0, SameRows
  <2>3. QED BY <2>2, Stutter
<1>7. CASE PostLink(k) \/ DeleteCheck(k) \/ PatchOpen(k) \/ PatchMoveAside(k)
           \/ PatchWrite(k) \/ PatchAbort(k)
  BY <1>1, <1>7 DEF PostLink, DeleteCheck, PatchOpen, PatchMoveAside, PatchWrite, PatchAbort,
     linkVars
<1>8. QED BY <1>2, <1>3, <1>4, <1>5, <1>6, <1>7 DEF Api

\* A worker leaves a link alone whose job POST has not queued.
LEMMA FreshKept ==
    ASSUME IInv, NEW w \in Workers, Work(w), NEW l \in Links, ~HasCaptureJob(l)
    PROVE  /\ job'[l] = job[l] /\ capture'[l] = capture[l] /\ attachments'[l] = attachments[l]
           /\ UNCHANGED <<upload, user_deleted>>
<1> DEFINE Left == /\ job'[l] = job[l] /\ capture'[l] = capture[l]
                   /\ attachments'[l] = attachments[l] /\ UNCHANGED <<upload, user_deleted>>
<1>1. /\ job[l].status = "invalid" /\ Unowned(l) /\ Unswept(l)
      /\ TypeOK /\ LinksHeld
  BY DEF IInv, TypeInv, CaptureInv, FreshJobs, HasCaptureJob
<1>2. ASSUME NEW k \in Links, SweepJob(w, k) PROVE Left
  BY <1>1, <1>2 DEF SweepJob, TypeOK, Unswept, linkVars
<1>3. CASE SweepCaptures(w)
  BY <1>1, <1>3 DEF SweepCaptures, FailPendingCapture, TypeOK, Unswept, LinksHeld
<1>4. CASE Purge(w) BY <1>1, <1>4 DEF Purge, linkVars
<1>5. CASE Reserve(w)
  <2>1. held[w] # l BY <1>1, <1>5 DEF Reserve, Pending
  <2>2. QED BY <1>1, <1>5, <2>1 DEF Reserve, TypeOK, linkVars
<1>6. CASE CheckDrop(w) \/ Attempt(w) \/ Metadata(w) \/ Attach(w) \/ Complete(w)
           \/ Close(w) \/ Settle(w)
  <2>1. held[w] # l
    BY <1>1, <1>6 DEF CheckDrop, Attempt, Metadata, Attach, Complete, Close, Settle, Unowned,
       Owns, HoldingPc, CapturingPc
  <2>2. CASE CheckDrop(w) BY <1>1, <2>1, <2>2 DEF CheckDrop, TypeOK, linkVars
  <2>3. CASE Attempt(w) BY <1>1, <2>1, <2>3 DEF Attempt, TypeOK, linkVars
  <2>4. CASE Metadata(w) BY <1>1, <2>1, <2>4 DEF Metadata, TypeOK
  <2>5. CASE Attach(w) BY <1>1, <2>1, <2>5 DEF Attach, TypeOK
  <2>6. CASE Complete(w) BY <1>1, <2>1, <2>6 DEF Complete, TypeOK, linkVars
  <2>7. CASE Close(w) BY <1>1, <2>1, <2>7 DEF Close, FailPendingCapture, TypeOK
  <2>8. CASE Settle(w) BY <1>1, <2>1, <2>8 DEF Settle, TypeOK, linkVars
  <2>9. QED BY <1>6, <2>2, <2>3, <2>4, <2>5, <2>6, <2>7, <2>8
<1>7. ASSUME UNCHANGED <<job, capture, upload, attachments, user_deleted>> PROVE Left
  BY <1>7
<1>8. QED
  BY <1>2, <1>3, <1>4, <1>5, <1>6, <1>7
  DEF Work, StartTask, Select, SweepDone, SelectNone, ReserveAgain, Refresh, LoadLink,
      CheckPending, Capture, Store, Abandon, Requeue, linkVars

\* What the worker's steps change of the service, then, is the job's status.
LEMMA SameStatus ==
    ASSUME RefInv, RefInv', NEW w \in Workers, Work(w), UNCHANGED user_deleted,
           NEW l \in Requests, job'[l].status = job[l].status
    PROVE  Same(l)
<1>1. l \in Links /\ Unpatched(l) /\ Unpatched(l)' /\ TypeOK
  BY RequestsAreLinks DEF RefInv, UnpatchedInv, Unreplaced, IInv, TypeInv
<1>2. CASE ~HasCaptureJob(l)
  BY <1>1, <1>2, FreshKept, SameRows DEF RefInv
<1>3. CASE HasCaptureJob(l)
  <2>1. HasCaptureJob(l)' BY <1>3 DEF HasCaptureJob
  <2>2. Playable(l)' <=> Playable(l) BY <1>1, <1>3, <2>1, PlayableMeans
  <2>3. Playable(l)' = Playable(l) BY <1>1, <2>2, PlayableTyped DEF TypeOK
  <2>4. RequestState(l)' = RequestState(l) BY DEF RequestState
  <2>5. QED BY <2>3, <2>4 DEF Same
<1>4. QED BY <1>2, <1>3

\* The steps that change the status of one job.
LEMMA ServiceWork ==
    ASSUME RefInv, RefInv', NEW w \in Workers, Work(w)
    PROVE  Service!Next \/ UNCHANGED Service!vars
<1>0. /\ \A l \in Requests : l \in Links /\ Unpatched(l) /\ Unpatched(l)'
      /\ TypeOK /\ TypeOK' /\ LinksHeld
  BY RequestsAreLinks DEF RefInv, UnpatchedInv, Unreplaced, IInv, TypeInv, CaptureInv
<1>1. UNCHANGED user_deleted
  BY DEF Work, StartTask, SweepJob, Select, SweepCaptures, SweepDone, Purge, SelectNone,
     Reserve, ReserveAgain, Refresh, LoadLink, CheckPending, CheckDrop, Attempt, Capture,
     Store, Metadata, Attach, Complete, Abandon, Close, Settle, Requeue, linkVars
\* A job that is not completed before nor after shows nothing to play.
<1>2. ASSUME NEW r \in Requests, HasCaptureJob(r), HasCaptureJob(r)',
             job[r].status # "completed", job'[r].status # "completed"
      PROVE  Playable(r)' = Playable(r)
  BY <1>0, <1>2, PlayableMeans, PlayableTyped DEF TypeOK
<1>3. ASSUME NEW k \in Links, \A l \in Links \ {k} : job'[l].status = job[l].status,
             \/ job'[k].status = job[k].status
             \/ /\ job[k].status = "pending" /\ job'[k].status = "in_progress"
             \/ /\ job[k].status = "in_progress" /\ job'[k].status = "failed"
      PROVE  Service!Next \/ UNCHANGED Service!vars
  <2>1. \A l \in Requests \ {k} : Same(l)
    BY <1>0, <1>1, <1>3, SameStatus
  <2>2. CASE k \notin Requests BY <2>1, <2>2, Stutter
  <2>3. CASE k \in Requests /\ job'[k].status = job[k].status
    BY <1>1, <2>1, <2>3, SameStatus, Stutter
  <2>4. CASE k \in Requests /\ job'[k].status # job[k].status
    <3>1. Playable(k)' = Playable(k) BY <1>2, <1>3, <2>4 DEF HasCaptureJob
    <3>2. \/ RequestState(k) = "queued" /\ RequestState(k)' = "working"
          \/ RequestState(k) = "working" /\ RequestState(k)' = "failed"
      BY <1>3, <2>4 DEF RequestState
    <3>3. QED BY <1>1, <2>1, <2>4, <3>1, <3>2, Moved DEF Others
  <2>5. QED BY <2>2, <2>3, <2>4
<1>4. ASSUME NEW k \in Links, SweepJob(w, k)
      PROVE  Service!Next \/ UNCHANGED Service!vars
  <2>1. /\ \A l \in Links \ {k} : job'[l].status = job[l].status
        /\ job'[k].status = "failed" /\ ~Unswept(k)
    BY <1>0, <1>4 DEF SweepJob, TypeOK, JobRow, Unswept
  <2>2. CASE k \in Requests
    <3>1. job[k].status \in {"in_progress", "failed"}
      BY <1>0, <2>1, <2>2 DEF Unpatched, SweptJob
    <3>2. QED BY <1>3, <2>1, <3>1
  <2>3. CASE k \notin Requests
    BY <1>0, <1>1, <2>1, <2>3, SameStatus, Stutter
  <2>4. QED BY <2>2, <2>3
<1>5. CASE Purge(w)
  <2> DEFINE R == {l \in Requests : job[l].status = "pending" /\ user_deleted[l]}
  <2>1. \A l \in Links : job'[l].status = IF job[l].status = "pending" /\ user_deleted[l]
                                          THEN "deleted" ELSE job[l].status
    BY <1>0, <1>5 DEF Purge, TypeOK, JobRow
  <2>2. \A l \in Requests \ R : Same(l) BY <1>0, <1>1, <2>1, SameStatus
  <2>3. ASSUME NEW r \in R
        PROVE  /\ user_deleted[r] /\ RequestState(r) \in {"queued", "working"}
               /\ RequestState(r)' = "dropped" /\ Playable(r)' = Playable(r)
    <3>1. /\ r \in Requests /\ user_deleted[r]
          /\ job[r].status = "pending" /\ job'[r].status = "deleted"
      BY <1>0, <2>1
    <3>2. Playable(r)' = Playable(r) BY <1>2, <3>1 DEF HasCaptureJob
    <3>3. QED BY <3>1, <3>2 DEF RequestState
  <2>4. R \in SUBSET Requests OBVIOUS
  <2> HIDE DEF R
  <2>5. QED BY <1>1, <2>2, <2>3, <2>4, Dropped
<1>6. CASE Reserve(w)
  <2>1. /\ held[w] \in Links /\ job[held[w]].status = "pending"
        /\ job' = [job EXCEPT ![held[w]].status = "in_progress"]
    BY <1>6 DEF Reserve, Pending
  <2>2. job'[held[w]].status = "in_progress" BY <1>0, <2>1 DEF TypeOK, JobRow
  <2>3. \A l \in Links \ {held[w]} : job'[l].status = job[l].status BY <1>0, <2>1 DEF TypeOK
  <2>4. QED BY <1>3, <2>1, <2>2, <2>3
<1>7. ASSUME NEW k \in Links, k = held[w], CheckDrop(w)
      PROVE  Service!Next \/ UNCHANGED Service!vars
  <2>1. /\ k \in Links /\ Owns(w, k) /\ pc[w] = "check"
        /\ gone[w] \/ PrimaryCapture(k) \in {"success", "failed"}
    BY <1>0, <1>7 DEF CheckDrop, Unwanted, LinksHeld, Owns, HoldingPc
  <2>2. \A l \in Links \ {k} : job'[l].status = job[l].status
    BY <1>0, <1>7 DEF CheckDrop, TypeOK
  <2>3. \A l \in Requests \ {k} : Same(l)
    BY <1>0, <1>1, <2>2, SameStatus
  <2>4. CASE k \notin Requests BY <2>3, <2>4, Stutter
  <2>5. CASE k \in Requests
    <3>1. job[k].status = "in_progress"
      BY <1>0, <2>1, <2>5 DEF Unpatched, OneOwner
    <3>2. job'[k].status = "deleted"
      BY <1>0, <1>7, <2>1 DEF CheckDrop, TypeOK, JobRow
    <3>3. user_deleted[k]
      <4>1. upload[k] = "none"
        BY <1>0, <2>5, <3>1 DEF Unpatched, HasCaptureJob
      <4>2. CASE gone[w] BY <1>0, <2>1, <2>5, <4>2 DEF Unpatched, CaptureWaits
      <4>3. CASE capture[k] \in {"success", "failed"}
        BY <1>0, <2>1, <2>5, <4>3 DEF Unpatched, CaptureWaits
      <4>4. PrimaryCapture(k) = capture[k] BY <4>1 DEF PrimaryCapture
      <4>5. QED BY <2>1, <4>2, <4>3, <4>4
    <3>4. Playable(k)' = Playable(k) BY <1>2, <2>5, <3>1, <3>2 DEF HasCaptureJob
    <3>5. /\ RequestState(k) = "working" /\ RequestState(k)' = "dropped"
      BY <3>1, <3>2 DEF RequestState
    <3>6. {k} \in SUBSET Requests BY <2>5
    <3>7. QED BY <1>1, <2>3, <3>3, <3>4, <3>5, <3>6, Dropped
  <2>6. QED BY <2>4, <2>5
<1>8. ASSUME NEW k \in Links, k = held[w], Complete(w)
      PROVE  Service!Next \/ UNCHANGED Service!vars
  <2>1. k \in Links /\ Owns(w, k) /\ pc[w] = "complete"
    BY <1>0, <1>8 DEF Complete, LinksHeld, Owns, HoldingPc, CapturingPc
  <2>2. /\ \A l \in Links \ {k} : job'[l].status = job[l].status
        /\ job'[k].status = Outcome(k)
    BY <1>0, <1>8, <2>1 DEF Complete, TypeOK, JobRow
  <2>3. \A l \in Requests \ {k} : Same(l)
    BY <1>0, <1>1, <2>2, SameStatus
  <2>4. CASE k \notin Requests BY <2>3, <2>4, Stutter
  <2>5. CASE k \in Requests
    <3>1. job[k].status = "in_progress"
      BY <1>0, <2>1, <2>5 DEF Unpatched, OneOwner
    <3>2. CASE Outcome(k) = "failed" BY <1>3, <2>1, <2>2, <3>1, <3>2
    <3>3. CASE Outcome(k) = "completed"
      <4>1. Playable(k)' = ~user_deleted[k]
        <5>1. Playable(k)' <=> ~user_deleted[k]
          BY <1>0, <1>1, <2>2, <2>5, <3>3, PlayableMeans DEF HasCaptureJob
        <5>2. QED BY <1>0, <2>1, <5>1, PlayableTyped DEF TypeOK
      <4>2. RequestState(k) = "working" /\ RequestState(k)' = "archived"
        BY <2>2, <3>1, <3>3 DEF RequestState
      <4>3. QED BY <1>1, <2>3, <2>5, <4>1, <4>2, Archived DEF Others
    <3>4. QED BY <3>2, <3>3 DEF Outcome
  <2>6. QED BY <2>4, <2>5
<1>9. CASE Settle(w)
  <2>1. held[w] \in Links /\ Owns(w, held[w]) /\ pc[w] = "settle"
    BY <1>0, <1>9 DEF Settle, LinksHeld, Owns, HoldingPc
  <2>2. CASE copy[w].status # "in_progress"
    BY <1>0, <1>1, <1>9, <2>2, SameStatus, Stutter DEF Settle
  <2>3. CASE copy[w].status = "in_progress"
    <3>1. /\ \A l \in Links \ {held[w]} : job'[l].status = job[l].status
          /\ job'[held[w]].status = "failed"
      BY <1>0, <1>9, <2>1, <2>3 DEF Settle, TypeOK, JobRow
    <3>2. CASE held[w] \in Requests
      <4>1. job[held[w]].status = "in_progress"
        BY <1>0, <2>1, <2>3, <3>2 DEF Unpatched, OneOwner
      <4>2. QED BY <1>3, <2>1, <3>1, <4>1
    <3>3. CASE held[w] \notin Requests
      BY <1>0, <1>1, <3>1, <3>3, SameStatus, Stutter
    <3>4. QED BY <3>2, <3>3
  <2>4. QED BY <2>2, <2>3
<1>10. CASE Attempt(w)
  <2>1. held[w] \in Links /\ copy[w] = job[held[w]]
    BY <1>10 DEF RefInv, IInv, CaptureInv, CapturedJobs, LinksHeld, Attempt, Capturing,
       HoldingPc, CapturingPc
  <2>2. \A l \in Links : job'[l].status = job[l].status
    BY <1>0, <1>10, <2>1 DEF Attempt, TypeOK, JobRow
  <2>3. QED BY <1>0, <1>1, <2>2, SameStatus, Stutter
<1>11. CASE UNCHANGED job BY <1>1, <1>11, SameStatus, Stutter
<1>12. CASE CheckDrop(w) \/ Complete(w)
  <2>1. held[w] \in Links
    BY <1>0, <1>12 DEF CheckDrop, Complete, LinksHeld, HoldingPc, CapturingPc
  <2>2. QED BY <1>7, <1>8, <1>12, <2>1
<1>13. QED
  BY <1>4, <1>5, <1>6, <1>9, <1>10, <1>11, <1>12
  DEF Work, StartTask, Select, SweepCaptures, SweepDone, SelectNone, ReserveAgain, Refresh,
      LoadLink, CheckPending, Capture, Store, Metadata, Attach, Abandon, Close, Requeue

LEMMA ServiceStep ==
    ASSUME RefInv, RefInv', [Next]_vars
    PROVE  [Service!Next]_(Service!vars)
<1>1. ASSUME UNCHANGED <<job, linkVars>> PROVE UNCHANGED Service!vars
  BY <1>1, RequestsAreLinks, SameRows, Stutter DEF linkVars
<1>2. CASE \E k \in Links : Api(k) BY <1>2, ServiceApi
<1>3. CASE \E w \in Workers : Work(w) BY <1>3, ServiceWork
<1>4. QED
  BY <1>1, <1>2, <1>3
  DEF Next, LoseWorker, Beat, Tick, Deployment, PauseIntake, StopBeat, StartBeat,
      ResumeIntake, vars

LEMMA UnreplacedStep ==
    ASSUME TypeOK, Unreplaced, [Next]_vars
    PROVE  Unreplaced'
<1>1. ASSUME NEW l \in Requests PROVE patches'[l] = 0
  <2>1. l \in Links /\ l \notin Replacers /\ patches[l] = 0 BY DEF Unreplaced, Requests
  <2>2. CASE patches'[l] = patches[l] BY <2>1, <2>2
  <2>3. CASE \E k \in Links : PatchOpen(k) BY <2>1, <2>3 DEF PatchOpen, TypeOK
  <2>4. QED BY <2>1, <2>2, <2>3, OnlyOpenCounts
<1>2. QED BY <1>1 DEF Unreplaced

LEMMA ServiceInit == Init => Service!Init
<1> SUFFICES ASSUME Init PROVE Service!Init
  OBVIOUS
<1>1. \A l \in Requests : RequestState(l) = "none" /\ Playable(l) = FALSE
                          /\ user_deleted[l] = FALSE
  BY RequestsAreLinks DEF Init, RequestState, Playable, NewJob
<1>2. QED BY <1>1 DEF Service!Init

\* Every behaviour of the pipeline is, for the links nobody replaces, a behaviour of the
\* service: requests are started once and end once, and what is archived can be played
\* back until it is deleted.
THEOREM PipelineImplementsService == Spec => ServiceSpec
<1>1. Init => RefInv
  BY TypeInit, InvInit, UnpatchedInit, RequestsAreLinks DEF RefInv, IInv, Unreplaced, Init
<1>2. RefInv /\ [Next]_vars => RefInv'
  BY InvStep, UnpatchedStep, UnreplacedStep DEF RefInv, IInv, TypeInv
<1>3. RefInv /\ RefInv' /\ [Next]_vars => [Service!Next]_(Service!vars)
  BY ServiceStep
<1>4. QED BY <1>1, <1>2, <1>3, ServiceInit, PTL DEF Spec, ServiceSpec, Service!Spec

=============================================================================
