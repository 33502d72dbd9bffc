-------------------------- MODULE CapturePipeline --------------------------
(***************************************************************************)
(* The capture pipeline of Perma: API requests that create, replace and    *)
(* delete a link, the CaptureJob queue kept in the database, the Celery    *)
(* workers that drain it through run_next_capture, the sweep of jobs whose *)
(* worker was lost, and the pause of intake around a deployment.           *)
(*                                                                         *)
(* A step is one statement of the code that reads or writes something      *)
(* another process sees: a database statement outside a transaction, the   *)
(* commit of a transaction, an object store write or a broker call.        *)
(* A Python object loaded from the database is a copy that goes stale;     *)
(* `copy`, `gone` and `patchCopy` are such copies.                         *)
(***************************************************************************)
EXTENDS Naturals

CONSTANTS
    Links,        \* submitted links; the CaptureJob of link l is job[l]
    Workers,      \* Celery worker processes consuming the default queue
    Replacers,    \* links whose owner may PATCH a file over the capture
    NoLink,       \* "no job taken"
    HardLimit,    \* CELERY_TASK_TIME_LIMIT, in clock ticks
    MaxTasks,     \* bound: run_next_capture messages waiting in the broker
    MaxLost,      \* bound: workers lost in the middle of a task
    MaxPatches,   \* bound: file replacements per link
    MaxDeploys    \* bound: deployments that pause intake

ASSUME WorldAssumption ==
    /\ NoLink \notin Links
    /\ Replacers \subseteq Links

ASSUME BoundAssumption ==
    /\ HardLimit \in Nat \ {0}
    /\ MaxTasks \in Nat \ {0}
    /\ MaxLost \in Nat
    /\ MaxPatches \in Nat
    /\ MaxDeploys \in Nat

VARIABLES
    job,           \* CaptureJob rows
    capture,       \* the primary Capture row POST makes: its status, or "none"
    upload,        \* the primary Capture row of an uploaded file, likewise
    attachments,   \* TRUE: Scoop's provenance or attachment Capture rows exist
    archive,       \* the WACZ stored under the link's file name
    user_deleted,  \* Link.user_deleted
    post,          \* progress of POST /archives for the link
    delete,        \* progress of DELETE /archives/:guid
    patch,         \* progress of PATCH /archives/:guid with a file
    patchCopy,     \* the fields of the PATCH's CaptureJob object
    patches,       \* replacements started, for the bound
    pc,            \* what each worker does next
    held,          \* the link whose job a worker has taken
    copy,          \* the fields of the worker's CaptureJob object
    gone,          \* user_deleted of the Link object the worker loaded
    stale,         \* jobs a worker's sweep has read as timed out
    taskAge,       \* time since the worker received its task
    jobAge,        \* time since capture_start_time
    tasks,         \* run_next_capture messages waiting in the broker
    lost,          \* workers lost so far, for the bound
    deploy,        \* deployment sequence: intake sentinel and scheduler
    deploys        \* deployments so far, for the bound

linkVars == <<capture, upload, attachments, archive, user_deleted>>
apiVars == <<post, delete, patch, patchCopy, patches>>
heldVars == <<held, copy, gone>>
workerVars == <<pc, heldVars, stale, taskAge>>
envVars == <<tasks, lost, deploy, deploys>>
vars == <<job, linkVars, apiVars, workerVars, jobAge, envVars>>

----------------------------------------------------------------------------
(* Types                                                                   *)

Status == {"invalid", "pending", "in_progress", "completed", "failed", "deleted"}
Ended == {"completed", "failed", "deleted"}
CaptureStatus == {"none", "pending", "success", "failed"}
JobRow == [status: Status, superseded: BOOLEAN, attempt: Nat]
NewJob == [status |-> "invalid", superseded |-> FALSE, attempt |-> 0]

\* A worker past Check holds a link whose primary capture it saw pending.
CapturingPc == {"attempt", "capture", "store", "metadata", "attach", "complete"}
\* The worker has taken a job and may still write to its row.
HoldingPc == {"refresh", "load", "check", "close", "settle"} \cup CapturingPc
WorkerPc == {"idle", "sweep", "sweepcaptures", "purge", "select", "reserve",
             "requeue"} \cup HoldingPc

DeployPhase == {"normal", "paused", "draining", "resuming", "unscheduled"}

TypeOK ==
    /\ job \in [Links -> JobRow]
    /\ capture \in [Links -> CaptureStatus]
    /\ upload \in [Links -> {"none", "success"}]
    /\ attachments \in [Links -> BOOLEAN]
    /\ archive \in [Links -> {"none", "scoop", "upload"}]
    /\ user_deleted \in [Links -> BOOLEAN]
    /\ post \in [Links -> {"new", "link", "captured", "done"}]
    /\ delete \in [Links -> {"none", "checked"}]
    /\ patch \in [Links -> {"none", "open", "moved", "written"}]
    /\ patchCopy \in [Links -> JobRow]
    /\ patches \in [Links -> 0..MaxPatches]
    /\ pc \in [Workers -> WorkerPc]
    /\ held \in [Workers -> Links \cup {NoLink}]
    /\ copy \in [Workers -> JobRow]
    /\ gone \in [Workers -> BOOLEAN]
    /\ stale \in [Workers -> SUBSET Links]
    /\ taskAge \in [Workers -> 0..HardLimit]
    /\ jobAge \in [Links -> 0..(HardLimit + 1)]
    /\ tasks \in 0..MaxTasks
    /\ lost \in 0..MaxLost
    /\ deploy \in DeployPhase
    /\ deploys \in 0..MaxDeploys

Init ==
    /\ job = [l \in Links |-> NewJob]
    /\ capture = [l \in Links |-> "none"]
    /\ upload = [l \in Links |-> "none"]
    /\ attachments = [l \in Links |-> FALSE]
    /\ archive = [l \in Links |-> "none"]
    /\ user_deleted = [l \in Links |-> FALSE]
    /\ post = [l \in Links |-> "new"]
    /\ delete = [l \in Links |-> "none"]
    /\ patch = [l \in Links |-> "none"]
    /\ patchCopy = [l \in Links |-> NewJob]
    /\ patches = [l \in Links |-> 0]
    /\ pc = [w \in Workers |-> "idle"]
    /\ held = [w \in Workers |-> NoLink]
    /\ copy = [w \in Workers |-> NewJob]
    /\ gone = [w \in Workers |-> FALSE]
    /\ stale = [w \in Workers |-> {}]
    /\ taskAge = [w \in Workers |-> 0]
    /\ jobAge = [l \in Links |-> 0]
    /\ tasks = 0
    /\ lost = 0
    /\ deploy = "normal"
    /\ deploys = 0

----------------------------------------------------------------------------
(* What the code computes from the rows                                    *)

\* The link's row is there and no PATCH transaction holds its row lock, so a
\* statement that updates or references the row does not block.
LinkUnlocked(l) == patch[l] = "none"

\* POST has committed the Link row.
LinkExists(l) == post[l] # "new"

\* Link.primary_capture: of two primary rows the upload is always the older.
PrimaryCapture(l) == IF upload[l] # "none" THEN upload[l] ELSE capture[l]

\* Link.captures.count() > 0
HasCaptures(l) == capture[l] # "none" \/ upload[l] # "none" \/ attachments[l]

\* Link.has_capture_job(): POST attaches the job by the save that queues it.
HasCaptureJob(l) == job[l].status # "invalid"

\* The checks PATCH and DELETE make before they touch a captured link.
CaptureInProgress(l) == job[l].status = "in_progress"

\* Mutant: the age of the job is not looked at.
TimedOutAtAnyAge(l) == job[l].status = "in_progress"

\* clean_up_failed_captures: capture_start_time < now() - CELERY_TASK_TIME_LIMIT
TimedOut(l) == job[l].status = "in_progress" /\ jobAge[l] > HardLimit

\* Link.can_play_back while nothing is cached yet.
Playable(l) ==
    /\ ~user_deleted[l]
    /\ capture[l] = "success" \/ upload[l] = "success" \/ attachments[l]
    /\ ~HasCaptureJob(l) \/ job[l].superseded \/ job[l].status = "completed"

\* What the export of a folder's links says of a link.
report_status(l) ==
    IF HasCaptureJob(l) /\ job[l].status \in {"pending", "in_progress"} THEN job[l].status
    ELSE IF Playable(l) THEN "success" ELSE "failure"

\* What the export of a batch says of it, looking at the job only.
batch_status(l) == IF job[l].status = "completed" THEN "success" ELSE "error"

\* deployment_pending(), and whether celerybeat is running. The sentinel is
\* looked at and the message sent in one step.
SentinelSet == deploy \in {"paused", "draining", "resuming"}

\* Mutant: the scheduler rolls with the other services.
BeatRunningWhileDraining == deploy # "unscheduled"

BeatRunning == deploy \notin {"draining", "unscheduled"}

\* run_next_capture.delay(), unless the sentinel is set.
TasksAfterDispatch ==
    IF SentinelSet \/ tasks = MaxTasks THEN tasks ELSE tasks + 1

----------------------------------------------------------------------------
(* POST /archives                                                          *)

\* The transaction that saves the Link and files it in its folder. Before it
\* the request has only saved a job with the status "invalid", which is all
\* that is left of a request that is refused.
PostLink(l) ==
    /\ post[l] = "new"
    /\ post' = [post EXCEPT ![l] = "link"]
    /\ UNCHANGED <<job, linkVars, delete, patch, patchCopy, patches,
                   workerVars, jobAge, envVars>>

\* The request carried a file: the upload is the archive, and the job is
\* never attached to the link.
PostFile(l) ==
    /\ post[l] = "link"
    /\ LinkUnlocked(l)
    /\ post' = [post EXCEPT ![l] = "done"]
    /\ upload' = [upload EXCEPT ![l] = "success"]
    /\ archive' = [archive EXCEPT ![l] = "upload"]
    /\ UNCHANGED <<job, capture, attachments, user_deleted, delete, patch,
                   patchCopy, patches, workerVars, jobAge, envVars>>

PostCapture(l) ==
    /\ post[l] = "link"
    /\ LinkUnlocked(l)
    /\ post' = [post EXCEPT ![l] = "captured"]
    /\ capture' = [capture EXCEPT ![l] = "pending"]
    /\ UNCHANGED <<job, upload, attachments, archive, user_deleted, delete,
                   patch, patchCopy, patches, workerVars, jobAge, envVars>>

PostEnqueue(l) ==
    /\ post[l] = "captured"
    /\ LinkUnlocked(l)
    /\ post' = [post EXCEPT ![l] = "done"]
    /\ job' = [job EXCEPT ![l].status = "pending"]
    /\ tasks' = TasksAfterDispatch
    /\ UNCHANGED <<linkVars, delete, patch, patchCopy, patches, workerVars,
                   jobAge, lost, deploy, deploys>>

----------------------------------------------------------------------------
(* DELETE /archives/:guid                                                  *)

\* Permission and job status are read before the transaction starts.
DeleteCheck(l) ==
    /\ LinkExists(l) /\ ~user_deleted[l]
    /\ delete[l] = "none"
    /\ ~CaptureInProgress(l)
    /\ delete' = [delete EXCEPT ![l] = "checked"]
    /\ UNCHANGED <<job, linkVars, post, patch, patchCopy, patches, workerVars,
                   jobAge, envVars>>

DeleteCommit(l) ==
    /\ delete[l] = "checked"
    /\ LinkUnlocked(l)
    /\ delete' = [delete EXCEPT ![l] = "none"]
    /\ user_deleted' = [user_deleted EXCEPT ![l] = TRUE]
    /\ capture' = [capture EXCEPT ![l] = "none"]
    /\ upload' = [upload EXCEPT ![l] = "none"]
    /\ attachments' = [attachments EXCEPT ![l] = FALSE]
    /\ UNCHANGED <<job, archive, post, patch, patchCopy, patches, workerVars,
                   jobAge, envVars>>

----------------------------------------------------------------------------
(* PATCH /archives/:guid with a file: one transaction holding the link's   *)
(* row lock, with object store writes that no rollback undoes              *)

\* Lock the link and load its capture_job, once.
PatchOpen(l) ==
    /\ l \in Replacers /\ patches[l] < MaxPatches
    /\ LinkExists(l) /\ ~user_deleted[l]
    /\ LinkUnlocked(l)
    /\ ~CaptureInProgress(l)
    /\ patch' = [patch EXCEPT ![l] = "open"]
    /\ patchCopy' = [patchCopy EXCEPT ![l] = job[l]]
    /\ patches' = [patches EXCEPT ![l] = @ + 1]
    /\ UNCHANGED <<job, linkVars, post, delete, workerVars, jobAge, envVars>>

\* safe_delete_warc, safe_delete_wacz: rename what is stored.
PatchMoveAside(l) ==
    /\ patch[l] = "open"
    /\ patch' = [patch EXCEPT ![l] = "moved"]
    /\ archive' = [archive EXCEPT ![l] = "none"]
    /\ UNCHANGED <<job, capture, upload, attachments, user_deleted, post,
                   delete, patchCopy, patches, workerVars, jobAge, envVars>>

\* write_uploaded_file stores the new WACZ.
PatchWrite(l) ==
    /\ patch[l] = "moved"
    /\ patch' = [patch EXCEPT ![l] = "written"]
    /\ archive' = [archive EXCEPT ![l] = "upload"]
    /\ UNCHANGED <<job, capture, upload, attachments, user_deleted, post,
                   delete, patchCopy, patches, workerVars, jobAge, envVars>>

\* The transaction is over, and with it its lock and its objects.
EndPatch(l) ==
    /\ patch' = [patch EXCEPT ![l] = "none"]
    /\ patchCopy' = [patchCopy EXCEPT ![l] = NewJob]

\* Captures replaced; mark_capturejob_superseded saves every field of the
\* job object that was loaded when the transaction began.
PatchCommit(l) ==
    /\ patch[l] = "written"
    /\ EndPatch(l)
    /\ job' = IF patchCopy[l].status # "invalid"
              THEN [job EXCEPT ![l] = [patchCopy[l] EXCEPT !.superseded = TRUE]]
              ELSE job
    /\ capture' = [capture EXCEPT ![l] = "none"]
    /\ attachments' = [attachments EXCEPT ![l] = FALSE]
    /\ upload' = [upload EXCEPT ![l] = "success"]
    /\ UNCHANGED <<archive, user_deleted, post, delete, patches, workerVars,
                   jobAge, envVars>>

\* An exception or a lost web worker: the database rolls back.
PatchAbort(l) ==
    /\ patch[l] # "none"
    /\ EndPatch(l)
    /\ UNCHANGED <<job, linkVars, post, delete, patches, workerVars, jobAge,
                   envVars>>

----------------------------------------------------------------------------
(* run_next_capture: the sweep of timed out jobs                           *)

Goto(w, label) == pc' = [pc EXCEPT ![w] = label]

\* The worker lets go of its job and of the objects it loaded.
DropJob(w) ==
    /\ held' = [held EXCEPT ![w] = NoLink]
    /\ copy' = [copy EXCEPT ![w] = NewJob]
    /\ gone' = [gone EXCEPT ![w] = FALSE]

\* The task is over, or lost with its worker.
EndTask(w) ==
    /\ Goto(w, "idle")
    /\ DropJob(w)
    /\ stale' = [stale EXCEPT ![w] = {}]
    /\ taskAge' = [taskAge EXCEPT ![w] = 0]

\* Mutant: the task does not clean up after lost workers.
StartTaskWithoutSweep(w) ==
    /\ pc[w] = "idle" /\ tasks > 0
    /\ tasks' = tasks - 1
    /\ Goto(w, "sweep")
    /\ UNCHANGED <<job, linkVars, apiVars, heldVars, stale, taskAge, jobAge, lost,
                   deploy, deploys>>

StartTask(w) ==
    /\ pc[w] = "idle" /\ tasks > 0
    /\ tasks' = tasks - 1
    /\ Goto(w, "sweep")
    /\ stale' = [stale EXCEPT ![w] = {l \in Links : TimedOut(l)}]
    /\ UNCHANGED <<job, linkVars, apiVars, heldVars, taskAge, jobAge, lost,
                   deploy, deploys>>

\* mark_failed("Timed out.") on the row read by the query, whatever it is now.
SweepJob(w, l) ==
    /\ pc[w] = "sweep" /\ l \in stale[w]
    /\ job' = [job EXCEPT ![l].status = "failed"]
    /\ held' = [held EXCEPT ![w] = l]
    /\ Goto(w, "sweepcaptures")
    /\ UNCHANGED <<linkVars, apiVars, copy, gone, stale, taskAge, jobAge,
                   envVars>>

FailPendingCapture(l) ==
    capture' = [capture EXCEPT ![l] = IF @ = "pending" THEN "failed" ELSE @]

SweepCaptures(w) ==
    /\ pc[w] = "sweepcaptures"
    /\ FailPendingCapture(held[w])
    /\ stale' = [stale EXCEPT ![w] = @ \ {held[w]}]
    /\ DropJob(w)
    /\ Goto(w, "sweep")
    /\ UNCHANGED <<job, upload, attachments, archive, user_deleted, apiVars,
                   taskAge, jobAge, envVars>>

SweepDone(w) ==
    /\ pc[w] = "sweep" /\ stale[w] = {}
    /\ Goto(w, "purge")
    /\ UNCHANGED <<job, linkVars, apiVars, heldVars, stale, taskAge, jobAge,
                   envVars>>

----------------------------------------------------------------------------
(* CaptureJob.get_next_job(reserve=True)                                   *)

Pending == {l \in Links : job[l].status = "pending"}

\* Mutant: the update does not select status='pending'.
PurgeAnyStatus(w) ==
    /\ pc[w] = "purge"
    /\ job' = [l \in Links |-> IF user_deleted[l]
                               THEN [job[l] EXCEPT !.status = "deleted"]
                               ELSE job[l]]
    /\ Goto(w, "select")
    /\ UNCHANGED <<linkVars, apiVars, heldVars, stale, taskAge, jobAge,
                   envVars>>

\* Jobs whose link was deleted before capture leave the queue.
Purge(w) ==
    /\ pc[w] = "purge"
    /\ job' = [l \in Links |->
                 IF job[l].status = "pending" /\ user_deleted[l]
                 THEN [job[l] EXCEPT !.status = "deleted"]
                 ELSE job[l]]
    /\ Goto(w, "select")
    /\ UNCHANGED <<linkVars, apiVars, heldVars, stale, taskAge, jobAge,
                   envVars>>

\* The first pending job; which one that is, CaptureQueue models.
Select(w, l) ==
    /\ pc[w] = "select" /\ l \in Pending
    /\ held' = [held EXCEPT ![w] = l]
    /\ Goto(w, "reserve")
    /\ UNCHANGED <<job, linkVars, apiVars, copy, gone, stale, taskAge, jobAge,
                   envVars>>

\* No jobs waiting: the chain of tasks ends here.
SelectNone(w) ==
    /\ pc[w] = "select" /\ Pending = {}
    /\ EndTask(w)
    /\ UNCHANGED <<job, linkVars, apiVars, jobAge, envVars>>

\* Mutant: the update selects the job by key only.
ReserveUnconditionally(w) ==
    LET l == held[w] IN
    /\ pc[w] = "reserve"
    /\ job' = [job EXCEPT ![l].status = "in_progress"]
    /\ jobAge' = [jobAge EXCEPT ![l] = 0]
    /\ Goto(w, "refresh")
    /\ UNCHANGED <<linkVars, apiVars, heldVars, stale, taskAge, envVars>>

\* UPDATE ... WHERE status = 'pending'
Reserve(w) ==
    LET l == held[w] IN
    /\ pc[w] = "reserve" /\ l \in Pending
    /\ job' = [job EXCEPT ![l].status = "in_progress"]
    /\ jobAge' = [jobAge EXCEPT ![l] = 0]
    /\ Goto(w, "refresh")
    /\ UNCHANGED <<linkVars, apiVars, heldVars, stale, taskAge, envVars>>

\* No row updated: another worker claimed the job already.
ReserveAgain(w) ==
    /\ pc[w] = "reserve" /\ held[w] \notin Pending
    /\ DropJob(w)
    /\ Goto(w, "select")
    /\ UNCHANGED <<job, linkVars, apiVars, stale, taskAge, jobAge, envVars>>

\* next_job.refresh_from_db()
Refresh(w) ==
    /\ pc[w] = "refresh"
    /\ copy' = [copy EXCEPT ![w] = job[held[w]]]
    /\ Goto(w, "load")
    /\ UNCHANGED <<job, linkVars, apiVars, held, gone, stale, taskAge, jobAge,
                   envVars>>

----------------------------------------------------------------------------
(* capture_with_scoop                                                      *)

\* Mutant: captured_by_software is not saved, so no lock is waited for.
LoadLinkWithoutSave(w) ==
    /\ pc[w] = "load"
    /\ gone' = [gone EXCEPT ![w] = user_deleted[held[w]]]
    /\ Goto(w, "check")
    /\ UNCHANGED <<job, linkVars, apiVars, held, copy, stale, taskAge, jobAge,
                   envVars>>

\* Load the link, then save captured_by_software: the save needs the row lock.
LoadLink(w) ==
    LET l == held[w] IN
    /\ pc[w] = "load" /\ LinkUnlocked(l)
    /\ gone' = [gone EXCEPT ![w] = user_deleted[l]]
    /\ Goto(w, "check")
    /\ UNCHANGED <<job, linkVars, apiVars, held, copy, stale, taskAge, jobAge,
                   envVars>>

\* The primary capture is still pending: go on.
CheckPending(w) ==
    LET l == held[w] IN
    /\ pc[w] = "check" /\ ~gone[w] /\ PrimaryCapture(l) = "pending"
    /\ Goto(w, "attempt")
    /\ UNCHANGED <<job, linkVars, apiVars, heldVars, stale, taskAge, jobAge,
                   envVars>>

Unwanted(w) == gone[w] \/ PrimaryCapture(held[w]) \in {"success", "failed"}

\* Deleted or replaced in the meantime: mark_completed('deleted').
CheckDrop(w) ==
    /\ pc[w] = "check" /\ Unwanted(w)
    /\ job' = [job EXCEPT ![held[w]].status = "deleted"]
    /\ copy' = [copy EXCEPT ![w].status = "deleted"]
    /\ Goto(w, "close")
    /\ UNCHANGED <<linkVars, apiVars, held, gone, stale, taskAge, jobAge,
                   envVars>>

\* attempt += 1; capture_job.save() writes every field of the copy.
Attempt(w) ==
    LET saved == [copy[w] EXCEPT !.attempt = @ + 1] IN
    /\ pc[w] = "attempt"
    /\ copy' = [copy EXCEPT ![w] = saved]
    /\ job' = [job EXCEPT ![held[w]] = saved]
    /\ Goto(w, "capture")
    /\ UNCHANGED <<linkVars, apiVars, held, gone, stale, taskAge, jobAge,
                   envVars>>

\* POST the capture to Scoop and poll until it reports success.
Capture(w) ==
    /\ pc[w] = "capture"
    /\ Goto(w, "store")
    /\ UNCHANGED <<job, linkVars, apiVars, heldVars, stale, taskAge, jobAge,
                   envVars>>

\* save_scoop_archive: wacz_size is saved, the WACZ stored with overwrite=True.
Store(w) ==
    LET l == held[w] IN
    /\ pc[w] = "store" /\ LinkUnlocked(l)
    /\ archive' = [archive EXCEPT ![l] = "scoop"]
    /\ Goto(w, "metadata")
    /\ UNCHANGED <<job, capture, upload, attachments, user_deleted, apiVars,
                   heldVars, stale, taskAge, jobAge, envVars>>

\* Mutant: the primary capture's status is left to the finally clause.
MetadataWithoutStatus(w) ==
    /\ pc[w] = "metadata"
    /\ capture[held[w]] # "none"
    /\ Goto(w, "attach")
    /\ UNCHANGED <<job, linkVars, apiVars, heldVars, stale, taskAge, jobAge,
                   envVars>>

\* save_archive_metadata: the update of the primary capture row fails if a
\* DELETE has removed it.
Metadata(w) ==
    LET l == held[w] IN
    /\ pc[w] = "metadata"
    /\ capture[l] # "none"
    /\ capture' = [capture EXCEPT ![l] = "success"]
    /\ Goto(w, "attach")
    /\ UNCHANGED <<job, upload, attachments, archive, user_deleted, apiVars,
                   heldVars, stale, taskAge, jobAge, envVars>>

\* Captures for the provenance summary and the attachments Scoop reported.
Attach(w) ==
    LET l == held[w] IN
    /\ pc[w] = "attach" /\ LinkUnlocked(l)
    /\ \E some \in BOOLEAN :
         attachments' = [attachments EXCEPT ![l] = @ \/ some]
    /\ Goto(w, "complete")
    /\ UNCHANGED <<job, capture, upload, archive, user_deleted, apiVars,
                   heldVars, stale, taskAge, jobAge, envVars>>

\* Mutant: the vocabulary of Capture.status.
OutcomeAsCapture(l) == IF HasCaptures(l) THEN "success" ELSE "failed"

\* mark_completed(): a link left with no captures counts as failed.
Outcome(l) == IF HasCaptures(l) THEN "completed" ELSE "failed"

Complete(w) ==
    LET l == held[w] IN
    /\ pc[w] = "complete"
    /\ job' = [job EXCEPT ![l].status = Outcome(l)]
    /\ copy' = [copy EXCEPT ![w].status = Outcome(l)]
    /\ Goto(w, "close")
    /\ UNCHANGED <<linkVars, apiVars, held, gone, stale, taskAge, jobAge,
                   envVars>>

\* Scoop reports failure, an exception, or the soft time limit: every one of
\* them ends in the finally clause. In mark_completed the object's status is
\* set before the save that is interrupted.
Abandon(w) ==
    LET l == held[w] IN
    /\ pc[w] \in CapturingPc \cup {"check"}
    /\ \/ copy' = copy
       \/ /\ pc[w] = "complete"
          /\ copy' = [copy EXCEPT ![w].status = Outcome(l)]
       \/ /\ pc[w] = "check" /\ Unwanted(w)
          /\ copy' = [copy EXCEPT ![w].status = "deleted"]
    /\ Goto(w, "close")
    /\ UNCHANGED <<job, linkVars, apiVars, held, gone, stale, taskAge, jobAge,
                   envVars>>

\* finally: captures still pending have failed
Close(w) ==
    /\ pc[w] = "close"
    /\ FailPendingCapture(held[w])
    /\ Goto(w, "settle")
    /\ UNCHANGED <<job, upload, attachments, archive, user_deleted, apiVars,
                   heldVars, stale, taskAge, jobAge, envVars>>

\* Mutant: the job is failed without looking at the object's status.
SettleAlways(w) ==
    /\ pc[w] = "settle"
    /\ job' = [job EXCEPT ![held[w]].status = "failed"]
    /\ DropJob(w)
    /\ Goto(w, "requeue")
    /\ UNCHANGED <<linkVars, apiVars, stale, taskAge, jobAge, envVars>>

\* and so has a job whose object still says in_progress.
Settle(w) ==
    LET l == held[w] IN
    /\ pc[w] = "settle"
    /\ job' = IF copy[w].status = "in_progress"
              THEN [job EXCEPT ![l].status = "failed"]
              ELSE job
    /\ DropJob(w)
    /\ Goto(w, "requeue")
    /\ UNCHANGED <<linkVars, apiVars, stale, taskAge, jobAge, envVars>>

\* run_next_capture calls itself again unless a deployment is pending.
Requeue(w) ==
    /\ pc[w] = "requeue"
    /\ tasks' = TasksAfterDispatch
    /\ EndTask(w)
    /\ UNCHANGED <<job, linkVars, apiVars, jobAge, lost, deploy, deploys>>

----------------------------------------------------------------------------
(* Celery and the deployment                                               *)

\* The hard limit, a crash, a replaced container, or an exception outside the
\* try: run_next_capture is not acks_late, so its message is gone.
LoseWorker(w) ==
    /\ pc[w] # "idle" /\ lost < MaxLost
    /\ lost' = lost + 1
    /\ EndTask(w)
    /\ UNCHANGED <<job, linkVars, apiVars, jobAge, tasks, deploy, deploys>>

\* celerybeat sends run_next_capture every minute.
Beat ==
    /\ BeatRunning /\ tasks < MaxTasks
    /\ tasks' = tasks + 1
    /\ UNCHANGED <<job, linkVars, apiVars, workerVars, jobAge, lost, deploy,
                   deploys>>

\* Time passes; no task outlives the hard limit.
Tick ==
    /\ \A w \in Workers : pc[w] # "idle" => taskAge[w] < HardLimit
    /\ taskAge' = [w \in Workers |->
                     IF pc[w] # "idle" THEN taskAge[w] + 1 ELSE 0]
    /\ jobAge' = [l \in Links |->
                     CASE job[l].status # "in_progress" -> 0
                       [] TimedOut(l)                   -> jobAge[l]
                       [] OTHER                         -> jobAge[l] + 1]
    /\ UNCHANGED <<job, linkVars, apiVars, pc, heldVars, stale, envVars>>

\* deployment_sentinel set
PauseIntake ==
    /\ deploy = "normal" /\ deploys < MaxDeploys
    /\ deploy' = "paused"
    /\ deploys' = deploys + 1
    /\ UNCHANGED <<job, linkVars, apiVars, workerVars, jobAge, tasks, lost>>

StopBeat ==
    /\ deploy = "paused"
    /\ deploy' = "draining"
    /\ UNCHANGED <<job, linkVars, apiVars, workerVars, jobAge, tasks, lost,
                   deploys>>

\* After a bounded wait for idle workers, the migration and the rollout; by
\* hand when the rollout failed.
StartBeat ==
    /\ \/ deploy = "draining" /\ deploy' = "resuming"
       \/ deploy = "unscheduled" /\ deploy' = "normal"
    /\ UNCHANGED <<job, linkVars, apiVars, workerVars, jobAge, tasks, lost,
                   deploys>>

\* deployment_sentinel clear. A rollout that fails after the migration leaves
\* the scheduler stopped, and intake resumes all the same.
ResumeIntake ==
    /\ \/ deploy = "resuming" /\ deploy' = "normal"
       \/ deploy = "draining" /\ deploy' = "unscheduled"
    /\ UNCHANGED <<job, linkVars, apiVars, workerVars, jobAge, tasks, lost,
                   deploys>>

----------------------------------------------------------------------------

Api(l) ==
    \/ PostLink(l) \/ PostFile(l) \/ PostCapture(l) \/ PostEnqueue(l)
    \/ DeleteCheck(l) \/ DeleteCommit(l)
    \/ PatchOpen(l) \/ PatchMoveAside(l) \/ PatchWrite(l) \/ PatchCommit(l)
    \/ PatchAbort(l)

\* The steps of a worker that it takes by itself.
Work(w) ==
    \/ StartTask(w)
    \/ \E l \in Links : SweepJob(w, l) \/ Select(w, l)
    \/ SweepCaptures(w) \/ SweepDone(w)
    \/ Purge(w) \/ SelectNone(w) \/ Reserve(w) \/ ReserveAgain(w) \/ Refresh(w)
    \/ LoadLink(w) \/ CheckPending(w) \/ CheckDrop(w) \/ Attempt(w)
    \/ Capture(w) \/ Store(w) \/ Metadata(w) \/ Attach(w) \/ Complete(w)
    \/ Abandon(w) \/ Close(w) \/ Settle(w) \/ Requeue(w)

Deployment == PauseIntake \/ StopBeat \/ StartBeat \/ ResumeIntake

Next ==
    \/ \E l \in Links : Api(l)
    \/ \E w \in Workers : Work(w) \/ LoseWorker(w)
    \/ Beat \/ Tick \/ Deployment

Spec == Init /\ [][Next]_vars

(***************************************************************************)
(* Fairness. A worker process that has a task runs it; celerybeat, while   *)
(* it runs, fires every minute; the clock advances; a PATCH transaction    *)
(* ends one way or the other (the request has its own timeout). Nothing is *)
(* assumed of users: a POST or a DELETE may stop anywhere, no deployment   *)
(* need ever end, and the number of lost workers is finite.                *)
(***************************************************************************)
Fairness ==
    /\ \A w \in Workers : WF_vars(Work(w))
    /\ \A l \in Links : WF_vars(PatchMoveAside(l) \/ PatchWrite(l)
                                \/ PatchCommit(l) \/ PatchAbort(l))
    /\ WF_vars(Beat)
    /\ WF_vars(Tick)

FairSpec == Spec /\ Fairness

----------------------------------------------------------------------------
(* Safety                                                                  *)

Capturing(w, l) == pc[w] \in CapturingPc /\ held[w] = l

\* Two workers are never past the check on the same link at once, although a
\* PATCH that read the job while it was pending writes that status back over
\* the claim of a worker, and the job is then claimed twice.
OneCaptureAtATime ==
    \A v, w \in Workers : \A l \in Links :
        Capturing(v, l) /\ Capturing(w, l) => v = w

\* A link goes to Scoop at most once in the life of its job: the attempt
\* counter that keys CaptureAttemptFacts never passes 1.
AtMostOneAttempt == \A l \in Links : job[l].attempt <= 1

\* While a replacement upload is the link's primary capture, the file stored
\* for playback is never Scoop's: no capture that was under way when the
\* PATCH began stores its WACZ over the user's file.
UploadKept == \A l \in Links : upload[l] # "none" => archive[l] # "scoop"

\* The sweep only fails jobs whose worker is gone: a job that a live worker
\* is capturing is in no sweep's list and has not timed out.
SweepSparesLiveCaptures ==
    \A w \in Workers : \A l \in Links :
        Capturing(w, l) => /\ ~TimedOut(l)
                           /\ \A v \in Workers : l \notin stale[v]

\* A completed job of a link whose owner neither deleted it nor started to
\* replace its file has a successful primary capture and Scoop's archive in
\* storage: mark_completed comes after the store and the metadata, and no
\* sweep or late failure path turns the capture back to failed. Once its job has
\* ended, the export of the batch says of it what the export of the folder says.
CompletedHasArchive ==
    \A l \in Links :
        ~user_deleted[l] /\ patches[l] = 0 =>
          /\ job[l].status = "completed" => capture[l] = "success" /\ archive[l] = "scoop"
          /\ job[l].status \in Ended =>
               (batch_status(l) = "success" <=> report_status(l) = "success")

\* A save of a stale CaptureJob object never clears the mark a PATCH has set.
SupersededKept ==
    [][\A l \in Links : job[l].superseded => job'[l].superseded]_vars

\* Once ended, a job keeps its outcome: no sweep, purge or late worker
\* rewrites it, only a PATCH whose owner replaces the capture may.
OutcomeIsFinal ==
    [][\A l \in Links :
         job[l].status \in Ended /\ patches[l] = 0
            => job'[l].status = job[l].status]_vars

----------------------------------------------------------------------------
(* Why they hold: an inductive invariant. A claim is trustworthy only while  *)
(* the capture POST made is still the pending primary capture of the link;  *)
(* the check of that capture, made after a save that needs the row lock, is *)
(* what keeps the worker of a claim that was written over from capturing.   *)

Owns(w, l) == pc[w] \in HoldingPc /\ held[w] = l

Untouched(l) == capture[l] = "pending" /\ upload[l] = "none"

Unowned(l) == \A w \in Workers : ~Owns(w, l)
SoleOwner(w, l) == \A v \in Workers : Owns(v, l) => v = w
Unswept(l) == \A v \in Workers : l \notin stale[v]

\* Nothing has happened yet to a job that POST has not queued.
FreshJobs ==
    \A l \in Links :
        /\ HasCaptureJob(l) => post[l] = "done"
        /\ ~HasCaptureJob(l) => job[l] = NewJob /\ Unowned(l) /\ Unswept(l)

LinksHeld ==
    \A w \in Workers :
        /\ pc[w] \in HoldingPc \cup {"reserve", "sweepcaptures"} => held[w] \in Links
        /\ pc[w] = "reserve" => HasCaptureJob(held[w])
        /\ pc[w] = "sweepcaptures" => held[w] \in stale[w]

QueuedJobs ==
    \A l \in Links :
        job[l].status = "pending" /\ Untouched(l)
            => Unowned(l) /\ Unswept(l) /\ job[l].attempt = 0

\* The claim of w on l stands.
Claim(w, l) ==
    /\ job[l].status = "in_progress"
    /\ jobAge[l] <= taskAge[w]
    /\ SoleOwner(w, l)
    /\ Unswept(l)

ClaimedJobs ==
    \A w \in Workers : \A l \in Links :
        pc[w] \in {"refresh", "load", "check"} /\ held[w] = l /\ Untouched(l)
            => /\ Claim(w, l)
               /\ job[l].attempt = 0
               /\ pc[w] # "refresh" => copy[w] = job[l]
               /\ pc[w] = "check" => LinkUnlocked(l)

CapturedJobs ==
    \A w \in Workers : \A l \in Links :
        Capturing(w, l)
            => /\ Claim(w, l)
               /\ copy[w] = job[l]
               /\ LinkUnlocked(l)
               /\ upload[l] = "none"
               /\ pc[w] = "attempt" => job[l].attempt = 0

PatchedLinks ==
    \A l \in Links :
        /\ patch[l] # "none"
            => /\ patchCopy[l].attempt <= 1
               /\ patchCopy[l].status # "invalid" => HasCaptureJob(l)
        /\ patch[l] = "written" => archive[l] = "upload"

CaptureInv ==
    /\ FreshJobs /\ LinksHeld /\ QueuedJobs /\ ClaimedJobs /\ CapturedJobs
    /\ PatchedLinks /\ AtMostOneAttempt /\ UploadKept

----------------------------------------------------------------------------
(* Liveness                                                                *)

Unfinished(l) == job[l].status \in {"pending", "in_progress"}

Quiescent == tasks = 0 /\ \A w \in Workers : pc[w] = "idle"

\* A queued job ends, whatever workers are lost on the way and whatever the
\* deployment paused, provided the scheduler is eventually left running: the
\* minute beat restarts a chain that broke and the sweep frees claimed jobs.
JobsEnd ==
    <>[]BeatRunning => \A l \in Links : Unfinished(l) ~> ~Unfinished(l)

\* "Intake is paused and the scheduler is stopped, so nothing new is being
\* queued" (deploy_sequence.yml): whatever users do meanwhile, and whether
\* tasks end, are lost or requeue themselves, the workers go idle for good.
PauseDrains ==
    <>[](deploy = "draining") => <>[]Quiescent

=============================================================================
