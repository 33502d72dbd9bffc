-------------------------- MODULE InternetArchive --------------------------
(***************************************************************************)
(* The copies of public links that Perma keeps at the Internet Archive     *)
(* (IA): the Celery tasks that upload, delete and confirm the files of one *)
(* daily item, and the jobs that queue those tasks.                        *)
(*                                                                         *)
(* Two queuings may name the same link and a retried message looks like a  *)
(* fresh one, so a task is identified by the message that carries it: a    *)
(* member of Tasks, from the moment it is sent until it is acknowledged.   *)
(* Every task is acks_late: when its worker is lost, the message may be    *)
(* delivered again.                                                        *)
(*                                                                         *)
(* IA works off the requests made for a file in the order it accepted them,*)
(* some time after it accepted them.                                       *)
(***************************************************************************)
EXTENDS Integers, Sequences, FiniteSets

CONSTANTS
    Links,            \* links created on the day of the item
    Tasks,            \* bound: messages that are in the broker or in hand
    NoLink,           \* the link of no task
    Workers,          \* messages the workers of the IA queues may hold
    MaxUploads,       \* INTERNET_ARCHIVE_MAX_SIMULTANEOUS_UPLOADS
    DailyLimit,       \* daily_limit
    ErrorLimit,       \* INTERNET_ARCHIVE_RETRY_FOR_ERROR_LIMIT
    ConnectionLimit,  \* INTERNET_ARCHIVE_RETRY_FOR_CONFIRMATION_CONNECTION_ERROR
    MaxIaTasks,       \* bound: requests accepted and not yet worked off, per file
    MaxFaults,        \* bound: refused requests, errors and lost workers
    MaxToggles,       \* bound: changes of a link's eligibility
    MaxEdits,         \* bound: changes of a link's title
    MaxDeletionRuns   \* bound: runs of queue_internet_archive_deletions

ASSUME SetAssumption ==
    /\ IsFiniteSet(Links) /\ IsFiniteSet(Tasks)
    /\ NoLink \notin Links

ASSUME LimitAssumption ==
    /\ Workers \in Nat \ {0}
    /\ MaxUploads \in Nat /\ DailyLimit \in Nat
    /\ ErrorLimit \in Nat \ {0} /\ ConnectionLimit \in Nat
    /\ MaxIaTasks \in Nat /\ MaxFaults \in Nat /\ MaxToggles \in Nat
    /\ MaxEdits \in Nat /\ MaxDeletionRuns \in Nat

VARIABLES
    eligible,           \* Link.can_upload_to_internet_archive()
    title,              \* Link.submitted_title, as a version
    file,               \* InternetArchiveFile.status, or "none"
    item,               \* the InternetArchiveItem: no row, open or complete
    tasks_in_progress,  \* InternetArchiveItem.tasks_in_progress
    batch,              \* links a queuing job has read and not yet sent
    phase,              \* what each task does next
    task,               \* its message, and the title its Link object has
    ia,                 \* requests IA has accepted and not yet worked off
    remote,             \* the title the file has at IA, or Absent
    overconfirmed,      \* confirmations written over a file that awaited none
    faults,             \* for the bound
    changes             \* toggles, edits and deletion runs, for the bounds

linkVars == <<eligible, title>>
rowVars == <<file, item, tasks_in_progress>>
taskVars == <<phase, task>>
iaVars == <<ia, remote>>
vars == <<linkVars, rowVars, batch, taskVars, iaVars, overconfirmed, faults,
          changes>>

----------------------------------------------------------------------------

Kind == {"upload", "delete", "confirm_upload", "confirm_delete"}
Writers == {"upload", "delete"}                    \* the queue named ia
Readers == {"confirm_upload", "confirm_delete"}    \* the queue ia-readonly

FileStatus == {"none", "upload_attempted", "upload_submitted", "confirmed_present",
               "deletion_attempted", "deletion_submitted", "confirmed_absent"}
Awaiting == {"upload_submitted", "deletion_submitted"}

\* The phases of a task in hand.
Held == {"start", "create", "count", "mark", "request", "recount", "submit",
         "look", "confirm", "settle"}

Absent == -1
Title == 0..MaxEdits

Message == [kind: Kind \cup {"none"}, link: Links \cup {NoLink},
            attempts: 0..ErrorLimit, connections: 0..ConnectionLimit,
            title: Title]
NoMessage == [kind |-> "none", link |-> NoLink, attempts |-> 0,
              connections |-> 0, title |-> 0]

TypeOK ==
    /\ eligible \in [Links -> BOOLEAN]
    /\ title \in [Links -> Title]
    /\ file \in [Links -> FileStatus]
    /\ item \in {"none", "open", "complete"}
    /\ tasks_in_progress \in Int
    /\ batch \in [Kind -> SUBSET Links]
    /\ phase \in [Tasks -> Held \cup {"none", "ready"}]
    /\ task \in [Tasks -> Message]
    /\ ia \in [Links -> Seq(Title \cup {Absent})]
    /\ remote \in [Links -> Title \cup {Absent}]
    /\ overconfirmed \in Nat
    /\ faults \in 0..MaxFaults
    /\ changes \in [toggles: 0..MaxToggles, edits: 0..MaxEdits,
                    deletionRuns: 0..MaxDeletionRuns]

Init ==
    /\ eligible \in [Links -> BOOLEAN]
    /\ title = [l \in Links |-> 0]
    /\ file = [l \in Links |-> "none"]
    /\ item = "none"
    /\ tasks_in_progress = 0
    /\ batch = [k \in Kind |-> {}]
    /\ phase = [t \in Tasks |-> "none"]
    /\ task = [t \in Tasks |-> NoMessage]
    /\ ia = [l \in Links |-> <<>>]
    /\ remote = [l \in Links |-> Absent]
    /\ overconfirmed = 0
    /\ faults = 0
    /\ changes = [toggles |-> 0, edits |-> 0, deletionRuns |-> 0]

----------------------------------------------------------------------------
(* Helpers                                                                 *)

LinkOf(t) == task[t].link
IsA(t, kind) == task[t].kind = kind
At(t, label) == phase[t] = label
Goto(t, label) == phase' = [phase EXCEPT ![t] = label]

\* llen: messages waiting in the broker. One that a worker holds, started or
\* not, is not in the list any more.
NoneWaiting(kinds) == \A t \in Tasks : At(t, "ready") => task[t].kind \notin kinds

InHand == {t \in Tasks : phase[t] \in Held}

\* The task is done: its message is acknowledged.
End(t) ==
    /\ Goto(t, "none")
    /\ task' = [task EXCEPT ![t] = NoMessage]

\* delay() with the attempts and connection errors counted so far.
Resend(t, attempts, connections) ==
    /\ Goto(t, "ready")
    /\ task' = [task EXCEPT ![t] = [@ EXCEPT !.attempts = attempts,
                                             !.connections = connections,
                                             !.title = 0]]

\* attempts + 1, as far as the comparisons with ErrorLimit can tell.
OneMore(attempts) == IF attempts < ErrorLimit THEN attempts + 1 ELSE attempts
MayRetry(t) == ErrorLimit > task[t].attempts + 1

Fault == faults < MaxFaults /\ faults' = faults + 1

AttemptStatus(t) == IF IsA(t, "upload") THEN "upload_attempted" ELSE "deletion_attempted"

\* Mutant: a status that no InternetArchiveFile has.
SubmittedStatusMisspelt(t) ==
    IF IsA(t, "upload") THEN "upload_submitted" ELSE "delete_submitted"

SubmittedStatus(t) == IF IsA(t, "upload") THEN "upload_submitted" ELSE "deletion_submitted"
ConfirmedStatus(t) == IF IsA(t, "confirm_upload") THEN "confirmed_present" ELSE "confirmed_absent"

Lesser(m, n) == IF m < n THEN m ELSE n

\* ia_upload_pending: public links no file was ever recorded for.
UploadPending == {l \in Links : eligible[l] /\ file[l] = "none"}

\* Mutant: the tasks under way are not subtracted.
BucketLimitWhatever == Lesser(DailyLimit, MaxUploads)

\* How many uploads may be queued for this day.
BucketLimit == Lesser(DailyLimit, MaxUploads - tasks_in_progress) - tasks_in_progress

----------------------------------------------------------------------------
(* The queuing jobs: read a list, then send one message per entry          *)

\* conditionally_queue_internet_archive_uploads_for_date_range; a day more
\* than three days old that has nothing to upload is complete.
QueueUploads ==
    /\ batch["upload"] = {}
    /\ NoneWaiting(Writers)
    /\ item # "complete" /\ BucketLimit > 0
    /\ \/ \E S \in SUBSET UploadPending :
            /\ S # {}
            /\ Cardinality(S) = Lesser(BucketLimit, Cardinality(UploadPending))
            /\ batch' = [batch EXCEPT !["upload"] = S]
            /\ UNCHANGED item
       \/ /\ UploadPending = {} /\ item = "open"
          /\ item' = "complete"
          /\ UNCHANGED batch
    /\ UNCHANGED <<linkVars, file, tasks_in_progress, taskVars, iaVars,
                   overconfirmed, faults, changes>>

\* Mutant: like the uploads, only for items that are not complete.
QueueConfirmationsOfOpenItem(kind, status) ==
    /\ batch[kind] = {}
    /\ NoneWaiting(Readers)
    /\ item # "complete"
    /\ \E l \in Links : file[l] = status
    /\ batch' = [batch EXCEPT ![kind] = {l \in Links : file[l] = status}]
    /\ UNCHANGED <<linkVars, rowVars, taskVars, iaVars, overconfirmed, faults,
                   changes>>

\* queue_file_uploaded_confirmation_tasks, queue_file_deleted_confirmation_tasks
QueueConfirmations(kind, status) ==
    /\ batch[kind] = {}
    /\ NoneWaiting(Readers)
    /\ \E l \in Links : file[l] = status
    /\ batch' = [batch EXCEPT ![kind] = {l \in Links : file[l] = status}]
    /\ UNCHANGED <<linkVars, rowVars, taskVars, iaVars, overconfirmed, faults,
                   changes>>

\* queue_internet_archive_deletions, which no schedule runs: a person does.
QueueDeletions ==
    /\ changes.deletionRuns < MaxDeletionRuns
    /\ changes' = [changes EXCEPT !.deletionRuns = @ + 1]
    /\ batch["delete"] = {}
    /\ batch' = [batch EXCEPT !["delete"] =
                   {l \in Links :
                      /\ ~eligible[l]
                      /\ file[l] \in {"confirmed_present", "deletion_attempted"}}]
    /\ UNCHANGED <<linkVars, rowVars, taskVars, iaVars, overconfirmed, faults>>

Send(kind, l, t) ==
    /\ l \in batch[kind] /\ At(t, "none")
    /\ batch' = [batch EXCEPT ![kind] = @ \ {l}]
    /\ Goto(t, "ready")
    /\ task' = [task EXCEPT ![t] = [NoMessage EXCEPT !.kind = kind, !.link = l]]
    /\ UNCHANGED <<linkVars, rowVars, iaVars, overconfirmed, faults, changes>>

\* The soft time limit or a lost worker: the rest of the list is not sent.
StopSending(kind) ==
    /\ batch[kind] # {}
    /\ Fault
    /\ batch' = [batch EXCEPT ![kind] = {}]
    /\ UNCHANGED <<linkVars, rowVars, taskVars, iaVars, overconfirmed, changes>>

----------------------------------------------------------------------------
(* upload_link_to_internet_archive and delete_link_from_daily_item         *)

\* A worker takes the message off the list.
Receive(t) ==
    /\ At(t, "ready") /\ Cardinality(InHand) < Workers
    /\ Goto(t, "start")
    /\ UNCHANGED <<linkVars, rowVars, batch, task, iaVars, overconfirmed, faults,
                   changes>>

\* Load the link and verify it is eligible, get or create the item, look at
\* the file's status.
UploadStart(t) ==
    LET l == LinkOf(t) IN
    /\ At(t, "start") /\ IsA(t, "upload")
    /\ item' = IF eligible[l] /\ item = "none" THEN "open" ELSE item
    /\ \/ /\ ~eligible[l] \/ file[l] \in {"confirmed_present", "deletion_attempted",
                                          "deletion_submitted"}
          /\ End(t)
       \/ /\ eligible[l] /\ file[l] = "none"
          /\ Goto(t, "create")
          /\ task' = [task EXCEPT ![t].title = title[l]]
       \/ /\ eligible[l] /\ file[l] \in {"upload_attempted", "upload_submitted",
                                         "confirmed_absent"}
          /\ Goto(t, "count")
          /\ task' = [task EXCEPT ![t].title = title[l]]
    /\ UNCHANGED <<linkVars, file, tasks_in_progress, batch, iaVars,
                   overconfirmed, faults, changes>>

\* Mutant: the row of a fresh file waits for the request to be submitted.
UploadCreateLate(t) ==
    /\ At(t, "create")
    /\ Goto(t, "request")
    /\ UNCHANGED <<linkVars, rowVars, batch, task, iaVars, overconfirmed, faults,
                   changes>>

\* The row of a fresh file; link and item are unique together, so a task that
\* lost the race dies of an IntegrityError.
UploadCreate(t) ==
    LET l == LinkOf(t) IN
    /\ At(t, "create")
    /\ IF file[l] = "none"
       THEN /\ file' = [file EXCEPT ![l] = "upload_attempted"]
            /\ Goto(t, "count")
            /\ UNCHANGED task
       ELSE End(t) /\ UNCHANGED file
    /\ UNCHANGED <<linkVars, item, tasks_in_progress, batch, iaVars,
                   overconfirmed, faults, changes>>

DeleteStart(t) ==
    LET l == LinkOf(t) IN
    /\ At(t, "start") /\ IsA(t, "delete")
    /\ IF file[l] \in {"confirmed_present", "deletion_attempted", "deletion_submitted"}
       THEN Goto(t, "mark") /\ UNCHANGED task
       ELSE End(t)
    /\ UNCHANGED <<linkVars, rowVars, batch, iaVars, overconfirmed, faults,
                   changes>>

\* Mutant: a redundant upload is not counted again.
CountOnce(t) ==
    /\ At(t, "count")
    /\ tasks_in_progress' = IF file[LinkOf(t)] = "upload_submitted"
                            THEN tasks_in_progress ELSE tasks_in_progress + 1
    /\ Goto(t, IF IsA(t, "upload") THEN "mark" ELSE "request")
    /\ UNCHANGED <<linkVars, file, item, batch, task, iaVars, overconfirmed,
                   faults, changes>>

\* tasks_in_progress = F('tasks_in_progress') + 1. An upload is counted, then
\* recorded as attempted; a deletion is recorded first.
Count(t) ==
    /\ At(t, "count")
    /\ tasks_in_progress' = tasks_in_progress + 1
    /\ Goto(t, IF IsA(t, "upload") THEN "mark" ELSE "request")
    /\ UNCHANGED <<linkVars, file, item, batch, task, iaVars, overconfirmed,
                   faults, changes>>

Mark(t) ==
    /\ At(t, "mark")
    /\ file' = [file EXCEPT ![LinkOf(t)] = AttemptStatus(t)]
    /\ Goto(t, IF IsA(t, "upload") THEN "request" ELSE "count")
    /\ UNCHANGED <<linkVars, item, tasks_in_progress, batch, task, iaVars,
                   overconfirmed, faults, changes>>

\* IA accepts the request.
Requested(t) ==
    LET l == LinkOf(t) IN
    /\ Len(ia[l]) < MaxIaTasks
    /\ ia' = [ia EXCEPT ![l] = Append(@, IF IsA(t, "upload") THEN task[t].title
                                                             ELSE Absent)]

Request(t) ==
    /\ At(t, "request")
    /\ Requested(t)
    /\ Goto(t, "submit")
    /\ UNCHANGED <<linkVars, rowVars, batch, task, remote, overconfirmed, faults,
                   changes>>

\* A rate limit, looked up before or run into: retried without limit.
RateLimited(t) ==
    /\ At(t, "request") /\ Fault
    /\ Goto(t, "recount")
    /\ task' = [task EXCEPT ![t].attempts = OneMore(@)]
    /\ UNCHANGED <<linkVars, rowVars, batch, iaVars, overconfirmed, changes>>

\* A connection error or the soft time limit: not a failed attempt. The upload
\* may have reached IA all the same.
Disconnected(t) ==
    /\ At(t, "request") /\ Fault
    /\ Goto(t, "recount")
    /\ UNCHANGED ia \/ (IsA(t, "upload") /\ Requested(t))
    /\ UNCHANGED <<linkVars, rowVars, batch, task, remote, overconfirmed, changes>>

\* Any other error is retried up to the limit. Giving up changes no row.
RequestFails(t) ==
    /\ At(t, "request") /\ Fault
    /\ UNCHANGED ia \/ Requested(t)
    /\ IF MayRetry(t)
       THEN /\ Goto(t, "recount")
            /\ task' = [task EXCEPT ![t].attempts = OneMore(@)]
       ELSE End(t)
    /\ UNCHANGED <<linkVars, rowVars, batch, remote, overconfirmed, changes>>

\* retry_upload, retry_deletion
Recount(t) ==
    /\ At(t, "recount")
    /\ tasks_in_progress' = tasks_in_progress - 1
    /\ Resend(t, task[t].attempts, 0)
    /\ UNCHANGED <<linkVars, file, item, batch, iaVars, overconfirmed, faults,
                   changes>>

\* Record that the request has been submitted.
Submit(t) ==
    /\ At(t, "submit")
    /\ file' = [file EXCEPT ![LinkOf(t)] = SubmittedStatus(t)]
    /\ End(t)
    /\ UNCHANGED <<linkVars, item, tasks_in_progress, batch, iaVars,
                   overconfirmed, faults, changes>>

----------------------------------------------------------------------------
(* confirm_file_uploaded_to_internet_archive and                           *)
(* confirm_file_deleted_from_daily_item                                    *)

ConfirmStart(t) ==
    LET l == LinkOf(t) IN
    /\ At(t, "start") /\ task[t].kind \in Readers
    /\ IF file[l] = ConfirmedStatus(t)
       THEN End(t)
       ELSE /\ Goto(t, "look")
            /\ task' = [task EXCEPT ![t].title = title[l]]
    /\ UNCHANGED <<linkVars, rowVars, batch, iaVars, overconfirmed, faults,
                   changes>>

\* What the task hopes to see: the file with the metadata its link has, or
\* no file.
Visible(t) ==
    remote[LinkOf(t)] = IF IsA(t, "confirm_upload") THEN task[t].title ELSE Absent

\* Not there yet: an upload waits for the next run of the queuing job, a
\* deletion is looked for again up to the limit.
Look(t) ==
    /\ At(t, "look")
    /\ IF Visible(t)
       THEN Goto(t, "confirm") /\ UNCHANGED task
       ELSE IF IsA(t, "confirm_delete") /\ MayRetry(t)
            THEN Resend(t, OneMore(task[t].attempts), 0)
            ELSE End(t)
    /\ UNCHANGED <<linkVars, rowVars, batch, iaVars, overconfirmed, faults,
                   changes>>

LookFails(t) ==
    /\ At(t, "look") /\ Fault
    /\ IF task[t].connections < ConnectionLimit
       THEN Resend(t, task[t].attempts, task[t].connections + 1)
       ELSE End(t)
    /\ UNCHANGED <<linkVars, rowVars, batch, iaVars, overconfirmed, changes>>

Confirm(t) ==
    LET l == LinkOf(t) IN
    /\ At(t, "confirm")
    /\ file' = [file EXCEPT ![l] = ConfirmedStatus(t)]
    /\ overconfirmed' = overconfirmed + (IF file[l] \in Awaiting THEN 0 ELSE 1)
    /\ Goto(t, "settle")
    /\ UNCHANGED <<linkVars, item, tasks_in_progress, batch, task, iaVars, faults,
                   changes>>

\* Greatest(F('tasks_in_progress') - 1, 0)
Settle(t) ==
    /\ At(t, "settle")
    /\ tasks_in_progress' = IF tasks_in_progress > 0 THEN tasks_in_progress - 1 ELSE 0
    /\ End(t)
    /\ UNCHANGED <<linkVars, file, item, batch, iaVars, overconfirmed, faults,
                   changes>>

----------------------------------------------------------------------------
(* Around the tasks                                                        *)

\* A lost worker or an exception nothing catches: the message is delivered
\* again, as it was sent, or it counts as acknowledged.
Lose(t) ==
    /\ phase[t] \in Held /\ Fault
    /\ \/ Resend(t, task[t].attempts, task[t].connections)
       \/ End(t)
    /\ UNCHANGED <<linkVars, rowVars, batch, iaVars, overconfirmed, changes>>

\* IA works off a request.
WorkOff(l) ==
    /\ ia[l] # <<>>
    /\ remote' = [remote EXCEPT ![l] = Head(ia[l])]
    /\ ia' = [ia EXCEPT ![l] = Tail(@)]
    /\ UNCHANGED <<linkVars, rowVars, batch, taskVars, overconfirmed, faults,
                   changes>>

\* The owner makes the link private or public, or it is taken down.
Toggle(l) ==
    /\ changes.toggles < MaxToggles
    /\ changes' = [changes EXCEPT !.toggles = @ + 1]
    /\ eligible' = [eligible EXCEPT ![l] = ~@]
    /\ UNCHANGED <<title, rowVars, batch, taskVars, iaVars, overconfirmed, faults>>

\* PATCH /archives/:guid with a title.
EditTitle(l) ==
    /\ changes.edits < MaxEdits
    /\ changes' = [changes EXCEPT !.edits = @ + 1]
    /\ title' = [title EXCEPT ![l] = changes.edits + 1]
    /\ UNCHANGED <<eligible, rowVars, batch, taskVars, iaVars, overconfirmed,
                   faults>>

----------------------------------------------------------------------------

\* What a worker does with the task it has, unless something goes wrong.
Run(t) ==
    \/ UploadStart(t) \/ UploadCreate(t) \/ DeleteStart(t)
    \/ Count(t) \/ Mark(t) \/ Request(t) \/ Recount(t) \/ Submit(t)
    \/ ConfirmStart(t) \/ Look(t) \/ Confirm(t) \/ Settle(t)

Mishap(t) ==
    RateLimited(t) \/ Disconnected(t) \/ RequestFails(t) \/ LookFails(t) \/ Lose(t)

QueueUploadConfirmations == QueueConfirmations("confirm_upload", "upload_submitted")
QueueDeletionConfirmations == QueueConfirmations("confirm_delete", "deletion_submitted")

Sending(kind) == \E l \in Links, t \in Tasks : Send(kind, l, t)

Queuing ==
    \/ QueueUploads \/ QueueUploadConfirmations \/ QueueDeletionConfirmations
    \/ QueueDeletions
    \/ \E kind \in Kind : Sending(kind) \/ StopSending(kind)

Next ==
    \/ Queuing
    \/ \E t \in Tasks : Receive(t) \/ Run(t) \/ Mishap(t)
    \/ \E l \in Links : WorkOff(l) \/ Toggle(l) \/ EditTitle(l)

Spec == Init /\ [][Next]_vars

(***************************************************************************)
(* Fairness. queue_file_uploaded_confirmation_tasks sends the list it has  *)
(* read; a broker list is first in, first out, so a message that a free    *)
(* worker could take again and again is taken (strong fairness); a worker  *)
(* runs the task it holds; IA works off what it has accepted. Faults are   *)
(* finitely many. Nobody has to queue deletions, and the scheduled jobs    *)
(* need not queue anything: they wait in the list ia-readonly themselves,  *)
(* whose length they look at, so that each may always find another there.  *)
(***************************************************************************)
Fairness ==
    /\ SF_vars(Sending("confirm_upload"))
    /\ \A t \in Tasks : SF_vars(Receive(t)) /\ WF_vars(Run(t))
    /\ \A l \in Links : WF_vars(WorkOff(l))

FairSpec == Spec /\ Fairness

----------------------------------------------------------------------------
(* Safety                                                                  *)

\* Tasks that have added themselves to tasks_in_progress and neither taken
\* that back nor submitted their request.
Counted == {t \in Tasks : \/ phase[t] \in {"request", "submit", "recount"}
                          \/ At(t, "mark") /\ IsA(t, "upload")}
Settling == {t \in Tasks : At(t, "settle")}
AwaitingFiles == {l \in Links : file[l] \in Awaiting}

\* tasks_in_progress never falls short of the requests under way and the
\* submitted files by more than the confirmations that were written over a
\* file that was not, or no longer, awaiting one. Retries, redundant tasks,
\* lost workers and tasks that give up only ever leave it too high.
UndercountExplained ==
    tasks_in_progress + overconfirmed
        >= Cardinality(Counted) + Cardinality(Settling) + Cardinality(AwaitingFiles)

UploadTasks == {t \in Tasks : IsA(t, "upload")}
SubmittedUploads == {l \in Links : file[l] = "upload_submitted"}

\* The queuing job looks at the list and at the counter, not at the messages
\* that workers hold and have not counted: uploads requested or still to come
\* exceed MAX_SIMULTANEOUS_UPLOADS by at most what the workers hold, as long
\* as no confirmation came twice.
UploadsBounded ==
    Cardinality(UploadTasks) + Cardinality(SubmittedUploads) + Cardinality(batch["upload"])
        <= MaxUploads + Workers + 2 * overconfirmed

\* Nothing is at IA, or on its way there or back, that no InternetArchiveFile
\* row remembers: every later confirmation and deletion starts from that row.
RemoteRecorded ==
    \A l \in Links : remote[l] # Absent \/ ia[l] # <<>> => file[l] # "none"

----------------------------------------------------------------------------
(* Liveness                                                                *)

Submitted(l) == file[l] = "upload_submitted"

\* IA has no such file and nothing to do for it: a deletion was accepted after
\* the upload, and an upload task recorded its own end last (Submit).
DeletedSince(l) == remote[l] = Absent /\ ia[l] = <<>>

\* A submitted upload does not stay submitted, whichever confirmation tasks are
\* lost, give up or overlap with uploads and a deletion on the way: it is
\* confirmed, or another task of the link writes a status of its own. Three things
\* may prevent it: the title is edited, so that IA's metadata never match; a
\* deletion under way removes the file; and queue_file_uploaded_confirmation_tasks
\* never finds the list it shares with the other queuing jobs empty (the premise
\* SF says that it does, now and then).
SubmittedMovesOn ==
    \A l \in Links :
        [](title[l] = 0) /\ SF_vars(QueueUploadConfirmations)
            => (Submitted(l) ~> ~Submitted(l) \/ DeletedSince(l))

=============================================================================
