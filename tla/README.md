# Perma.cc: TLA+ models and proofs

A verification project for the server side of Perma (`src/perma_web`): the
Django application and REST API, the Celery workers that capture links through
Scoop, and the jobs that keep copies at the Internet Archive. The modules are
translated from the Python source; `PROJECT.json` names, for every definition,
the lines it stands for.

## 1. Inventory

State lives in PostgreSQL rows, in an object store (WACZ and WARC files), in
the Celery broker (Redis) and in the Python objects each process has loaded.
The last kind is what makes the system hard: a Django model instance is a copy
of a row, and `save()` writes the whole copy back.

| Component | State | Operations | What is hard | What makes it correct |
|---|---|---|---|---|
| **Capture pipeline** (`perma/celery_tasks.py`, `perma/models/link.py`, `api/views/links.py`) | `CaptureJob.status/superseded/attempt/capture_start_time`, `Capture` rows, the archive in storage, `Link.user_deleted` | POST, PATCH with a file, DELETE; `run_next_capture`: `clean_up_failed_captures`, `get_next_job`, `capture_with_scoop`, `save_scoop_archive`, `save_archive_metadata` | several workers, API requests during a capture, stale copies of the job, hard and soft time limits, lost workers, deployments | one capture at a time, one attempt, the user's file is kept, outcomes are final, every job ends |
| **Capture queue order** (`CaptureJob.save`, `get_next_job`, `queue_position`) | `CaptureJob.order`, `human` | enqueue, claim, report position | two statements per enqueue, bisection of a float | a user's jobs stay in order, users are interleaved, humans first |
| **Internet Archive** (`perma/celery_tasks.py`, `perma/models/internet_archive.py`) | `InternetArchiveItem.tasks_in_progress`, `InternetArchiveFile.status`, the item at IA | upload, confirm, delete, confirm deletion, and the jobs that queue them | at-least-once tasks, retries, rate limits, an eventually consistent remote, privacy toggles in between | a private link's file is not left at IA, the counter of requested tasks is right, uploads end |
| **Folders and moves** (`perma/models/folder.py`, `api/views/folders.py`, `Link.move_to_folder_for_user`) | the folder forest, `Folder.organization/sponsored_by/read_only`, `Link.organization` | create, rename, move and delete folders, move links | moves of subtrees by two users at once | no cycles, a subtree belongs to one organization, links agree with their folder |
| **Link counts** (`perma/models/link_counts.py`, `tasks/once.py`) | `link_count` of users, organizations, registrars | a link is created, deleted or moved; an organization changes registrar | counters maintained beside the rows they count | counter = number of rows |
| **Subscriptions, quotas, bonus links** (`perma/models/customer.py`, `perma/models/user.py`, POST and DELETE) | `link_limit`, `link_limit_period`, `bonus_links`, cached subscription fields; Perma Payments | `get_subscription`, `credit_for_purchased_links`, `get_links_remaining`, decrement and refund | a remote service, two requests at once, lost answers | no purchase credited twice or lost, the quota is not exceeded |
| **Sponsorships and affiliations** (`perma/models/registrar.py`, `perma/models/user.py`, nightly tasks) | `Sponsorship.status/expires_at`, `Folder.read_only`, `UserOrganizationAffiliation.expires_at` | sponsor, deactivate, reactivate, expire, warn | bulk updates that bypass `save()`, times compared with dates | a lapsed sponsorship's folder is read-only, what has expired ends, its user was warned |
| **Deployment sentinel** (`perma/utils.py`, `deployment_sentinel`, `deploy_sequence.yml`) | a cache flag, the scheduler's count | set, clear, stop and start celerybeat | tasks requeue themselves | intake pauses, workers drain |
| **WARC to WACZ conversion** (`convert_warc_to_wacz`) | `Link.wacz_size`, two stored files | convert | partial failure | the size matches the stored file |
| **Playback** (`perma/views/playback.py`, `memento.py`) | none of its own | read | stale `cached_can_play_back` | only playable links are served |
| **Sign-up and user management** (`perma/views/user_sign_up.py`, `perma/views/user_management/`, `perma/forms.py`, `perma/views/user_settings.py`) | a `LinkUser` row, its affiliations and sponsorships, pending registrars | some twenty form handlers that change what an account belongs to | each saves the whole row it loaded; no transaction spans a view | an account is staff, a registrar's or a member of organizations; a confirmed account is not deleted |
| **Permission rules** (querysets' `user_access_filter`, models' `accessible_to`, `LinkUser.can_edit*`, forms' choices, `ui_context.py`) | none of their own | list, open, offer, change | each rule exists several times, with its own order of cases | what is listed opens, what is offered works |
| **Link batches, serializers** (`api/views/link_batches.py`, `api/serializers.py`) | single rows | a batch posts its urls in turn; validation | the queue between two posts | a batch is captured in order |
| **Admin, reporting, statistics, email** | none of their own | presentation | little | - |

Components interact through the database (API requests and tasks read and write
the same `Link`, `CaptureJob` and `Capture` rows), through the broker
(`run_next_capture.delay()` after a POST, by itself and by celerybeat) and
through the object store, whose writes no database rollback undoes.

The hazards, each at its line, are listed in `PROJECT.json`.

## 2. Plan

| Module | Extends or composes | State |
|---|---|---|
| **CapturePipeline**, **CaptureService**, **CaptureRefinement** | the second is the abstract promise to the submitter, the third the mapping | modelled, checked, proved |
| **InternetArchive** | - | modelled, checked, proved; left: several days sharing the limit |
| **LinkQuota** | - | modelled, checked, proved |
| **CaptureQueue** | - | modelled, checked, proved |
| **Memberships**, **Access**, **Expiry** | Access and Expiry evaluate their rules on the accounts Memberships reaches | modelled, checked, proved |
| **Archives** | the files behind what CapturePipeline calls an archive | modelled, checked, proved |
| **Library**, **LibraryAdmin** | LibraryAdmin adds the forms and tasks that write whole rows | modelled, checked, proved |

No module declares a RECURSIVE operator, so each can be proved about. A
component's theorems are in the module named after it with `Proofs`. Every
safety property of a run is a theorem; what is left to TLC is in section 10.

## 3. The capture pipeline

### Modules

* `CapturePipeline.tla` - the system: one action per statement that reads or
  writes something another process sees.
* `CaptureService.tla` - what a submitter is promised: a request is queued once,
  worked on once, ends once, and the link is playable exactly while it is
  archived and not deleted.
* `CaptureRefinement.tla` - the mapping from the first to the second.
* `MCCapturePipeline.tla`, `MCCaptureRefinement.tla` - symmetry sets for TLC.
* `CapturePipelineProofs.tla`, `CaptureServiceProofs.tla` - theorems.

### State and code

| Variable | In the code |
|---|---|
| `job[l]` | the `CaptureJob` row of link `l`: `status`, `superseded`, `attempt`. It is attached to the link by the same save that makes it pending, so `has_capture_job()` is `status # "invalid"` |
| `capture[l]`, `upload[l]`, `attachments[l]` | the primary `Capture` row POST makes, the primary row of an uploaded file, the provenance and attachment rows; `"none"` = no row |
| `archive[l]` | which WACZ is stored under the link's name |
| `post`, `delete`, `patch`, `patchCopy` | where each API request is, and the `CaptureJob` object a PATCH holds from the start of its transaction |
| `pc`, `held`, `copy`, `gone`, `stale` | where each Celery worker is in `run_next_capture`; the job it took, its `CaptureJob` object, its `Link` object's `user_deleted`, and the result list of its sweep's query |
| `taskAge`, `jobAge` | clocks: since the task was received, since `capture_start_time` |
| `tasks`, `deploy` | `run_next_capture` messages in the broker; the deployment sequence |

A `PATCH` is one transaction that takes the link's row lock first. Everything
that writes the link's row or inserts a row that references it (a Capture, the
attachment of a job) waits for that lock: `LinkUnlocked`. Rows of other tables
(`CaptureJob`) are not locked by it, and neither is the object store.
A task that dies (hard limit, crash, replaced container, an exception before
the `try`) loses its message, as `run_next_capture` is not `acks_late`.
Failure inside `capture_with_scoop` is `Abandon`: whatever is raised, and
wherever, control reaches the outer `finally` (`Close`, `Settle`).
Scoop is external and appears as `Capture` (success) or `Abandon`.

### Runs

| Run | Question | Bounds |
|---|---|---|
| `capture_replace` | Do POST, two PATCHes and DELETE of one link, two workers, the sweep and a lost worker keep the safety properties and the inductive invariant? | 1 link, 2 workers, 2 queued messages, 2 replacements, 1 lost worker, `HardLimit` 1. Two workers are what double claims need; two replacements let one stale object outlive another; one lost worker makes the sweep act while the other captures |
| `capture_service` | Does the pipeline implement `CaptureService`? | 1 link, 2 workers, 2 messages, 2 lost workers (the sweep fails a job, and the sweep itself can be lost half way); replaced links are excluded by the mapping, so no replacements; links only meet in the purge |
| `capture_live` | Do jobs end, does a paused deployment drain? | 1 link, 1 worker, 1 message, 1 of each fault, 1 deployment; no symmetry |

Every run disables nothing: deadlock is checked, as time always may pass.

Properties: `OneCaptureAtATime`, `AtMostOneAttempt`, `UploadKept`,
`SweepSparesLiveCaptures`, `CompletedHasArchive`, `SupersededKept`,
`OutcomeIsFinal`, the inductive `CaptureInv`, the refinement `ServiceSpec`, and
the liveness properties `JobsEnd` and `PauseDrains`. Each is stated above its
definition. Every property has a mutant of the code that breaks it; the
mutated operators stand next to the definition they replace and are named in
`PROJECT.json`; `Next` does not use them.

### Fairness

`FairSpec` assumes: a worker process that holds a task runs it; celerybeat fires
every minute while it runs; the clock advances; a PATCH transaction ends (the
web server's request timeout). Nothing is assumed of users, and a deployment
need not end: `JobsEnd` has the premise that the scheduler is eventually left
running, `PauseDrains` the premise that it is eventually left stopped with the
sentinel set. The number of lost workers is bounded, so eventually none is lost.

### Proofs

`CapturePipelineProofs.tla` proves for all values of the constants (from
`WorldAssumption` and `BoundAssumption` only) `TypeOK`, `CaptureInv`,
`UploadKept`, `AtMostOneAttempt`, `OneCaptureAtATime`,
`SweepSparesLiveCaptures`, `SupersededKept`, `CompletedHasArchive` and
`OutcomeIsFinal`, and that the pipeline implements the service
(`PipelineImplementsService`: `Spec => ServiceSpec`).

The invariant is needed because a claim on a job is *not* exclusive: a PATCH
that read the job while it was pending writes `pending` back over a worker's
claim. What is exclusive is a claim on a link whose primary capture is still
the pending one POST made and that no PATCH touches (`Untouched`): until then
no stale save can have happened (`QueuedJobs`, `ClaimedJobs`), and after
`LoadLink`, whose save has to wait for the row lock, any PATCH that could
still write the job has replaced the captures, so the check sends the worker
away (`CapturedJobs`). With `jobAge <= taskAge` from the claim, no sweep can
list a job that a live worker captures.

How a capture ends needs a second invariant, `UnpatchedInv`, of the links no
PATCH has opened, because a replacement breaks each of its parts: at most one
worker owns the job, and the row says `in_progress` while one does
(`OneOwner`); a job that a sweep has listed is in progress or failed
(`SweptJob`); the primary capture is pending until that worker has
stored an archive, unless the link was deleted (`CaptureWaits`), and when it
says success the archive is Scoop's (`ScoopStored`). It is inductive only with
`CaptureInv`, and TLC agreed with it on the instance of `capture_replace`
before it was proved. `CompletedHasArchive` and `OutcomeIsFinal` follow from it.

The refinement is proved step by step from both invariants, for `Links \
Replacers`, which stay unpatched (`Unreplaced`). A request of the API maps to
`Submit`, `Upload`, `Delete` or a stutter (`ServiceApi`); `Reserve` to `Start`;
`SweepJob` and the failing saves of `Complete` and `Settle` to `Fail`; `Purge`
to one `Drop` of all it deletes, `CheckDrop` to a `Drop` of one; `Complete`
to `Archive`; every other step of a worker to a stutter (`ServiceWork`), since
what a link shows depends on its job's status alone (`PlayableMeans`).

`CaptureServiceProofs.tla` proves that the service keeps `ArchivedIsPlayable`.
Only model-checked: the liveness properties (fairness and ENABLED are out of
the prover's reach).

## 4. Copies at the Internet Archive

### Modules

* `InternetArchive.tla` - the four tasks over one daily item, the four jobs that
  queue them, the broker, IA's own queue and the changes users make meanwhile.
* `MCInternetArchive.tla` - symmetry of the messages, for TLC.
* `InternetArchiveProofs.tla` - theorems.

### State and code

| Variable | In the code |
|---|---|
| `eligible[l]`, `title[l]` | `Link.can_upload_to_internet_archive()` (public, playable), and `submitted_title` as a version number: what the metadata of an upload depends on |
| `file[l]` | `InternetArchiveFile.status` of the link's row, `"none"` while there is none |
| `item`, `tasks_in_progress` | the `InternetArchiveItem` row: absent, open or `complete`; its counter |
| `batch[kind]` | links a queuing job has read from the database and not yet sent |
| `phase[t]`, `task[t]` | a message from the moment it is sent until it is acknowledged: where its task is, the kind, link and retry counters it carries, and the title the task's `Link` object was loaded with |
| `ia[l]`, `remote[l]` | requests IA has accepted and not yet worked off, in order; the title of the file at IA, or `Absent` |
| `overconfirmed` | history: confirmations written over a file that awaited none |
| `faults`, `changes` | counted for the bounds |

Every task is `acks_late`: `Lose` ends a task at any point, and its message is
delivered again or not. A retry is `delay()` with new arguments and the end of
the task, hence `Resend`. The queuing jobs look at `llen` of the broker list
(`NoneWaiting`), which does not count messages a worker holds. The tasks are
split where another task can see the difference: between reading the file's
status, counting, recording, asking IA and recording again. `Confirm` and
`Settle` are the two saves at the end of a confirmation, of the file and of the
item. The rate limit look-ups and the three kinds of failed requests
(`RateLimited`, `Disconnected`, `RequestFails`) differ in what they count and in
whether IA may have accepted the request all the same.

### Runs

| Run | Question | Bounds |
|---|---|---|
| `internet_archive` | Do the tasks keep their books (`UndercountExplained`, `RemoteRecorded`) whatever is delivered twice, refused or lost? | 1 link, 2 messages, 2 workers: two tasks on the same link at every pair of steps, which is where they interfere; 1 fault, 1 privacy change, 1 deletion run, retry limits as small as lets a retry happen and be exhausted |
| `archive_bound` | How far over the limit can uploads run (`UploadsBounded`)? | 2 links, so that one can be queued while the other is under way; 1 worker, limit 1 |
| `archive_live` | Does a submitted upload leave that status (`SubmittedMovesOn`)? | 1 link, 2 messages, 2 workers, 1 deletion run, 1 privacy change, 1 title change: an upload, a confirmation and a deletion of the file overlap; 1 request at IA at a time, retry limits 1 (errors) and 0 (connections), no faults. The same with 1 fault and no title change (810,791 states) holds too and takes longer than a run should |

These runs do not check deadlock: with no pending link, no submitted file and
the bounds used up nothing is left to do, and nothing happens.

### Fairness

`FairSpec`: the confirmation job sends what it has read; a waiting message is
taken some time; a task in hand runs; IA works off what it accepted. Nothing is
assumed of users, nor of the jobs that queue tasks. Those are scheduled every few
minutes, but the two that queue confirmations do nothing when they find a message
on the list they share (`ia-readonly`), and one may find the other's each time.
So that the job runs to its end now and then is no fairness the schedule gives; it
is a premise of `SubmittedMovesOn`. Its other premise is that the title stays, its
one exception a deletion overtaken by a redundant upload. TLC refutes the property
without any one of the three (section 11).

### Proofs

`InternetArchiveProofs.tla` proves, from `SetAssumption` and `LimitAssumption`,
`TypeOK`, `RemoteRecorded`, `UndercountExplained` and `UploadsBounded`, for any
number of links, messages, workers and faults.

`UndercountExplained` is inductive once every message is known to name a link:
each step moves at most one task in or out of `Counted` and `Settling` and one
file in or out of `AwaitingFiles`, and changes the counter accordingly or errs
on the high side; a confirmation that finds its file not awaiting one adds to
`overconfirmed` instead. `UploadsBounded` follows at the only step that adds
uploads, `QueueUploads`: no message is waiting, so every upload task is in a
worker's hands (`HandsFull`), and the counter accounts for the submitted files.
`RemoteRecorded` needs `RowKept`: a task on its way to the request already has
its row. Only model-checked: `SubmittedMovesOn`.

## 5. Quotas, subscriptions and bonus links

`LinkQuota.tla` is one user: `row` (the `LinkUser` row with the cached fields of
its subscription), `link` (where each link is and whether a bonus link paid for
it), `purchase` and `sub` (what Perma Payments has recorded), and for every
worker the copies it holds: `me` (`request.user`, read at authentication), `own`
(POST's second copy, under `select_for_update`), `reply` (Payments' answer it is
working through) and `known` (the cached property `subscription_status`). A
`Bonus` is a number or `F('bonus_links') + n`, because that is what a copy keeps
after `move_to_folder_for_user`; `Written` is what saving it stores. POST is
`BeginPost`, `Admit` (the check of the serializer), `Lock`, `Create`; PATCH and
PUT of a folder's link are `BeginMove`, `Move`, `Answer`; DELETE is
`BeginDelete`, `Delete`, `Refund`; the usage plan page, the periodic task and
every check of the quota run `Ask`, `Credit` and `Settle`
(`get_subscription`, `credit_for_purchased_links`). `Buy`, `Bill`, `Deal` happen
at Perma Payments.

| Run | Question | Bounds |
|---|---|---|
| `quota` | Are bonus links neither made nor lost (`QuotaInv`), is the limit kept (`QuotaKept`), does every bonus link cost one (`BonusLinkCostsOne`)? | 2 requests, which is what a race needs; 2 links over a limit of 1; 1 purchase, 1 outage, 1 deal |
| `quota_live` | Is a purchase acknowledged in the end by a transaction that credits it, or else lost (`PurchaseCredited`)? Does a pending downgrade leave the tier alone (`PendingTierIsCurrent`)? | 1 request and 1 sync, 2 deals (subscribe, then downgrade), 1 outage |

Fairness: a request in progress ends, and celerybeat starts the sync; outages
are bounded, users do nothing unless they want to. The properties of `quota`
name what excuses them (`books`): overlapping requests, a failed acknowledgment,
a purchase credited to a copy with an `F()` expression and one credited inside
POST's transaction (`inPost`) really do unbalance the books (section 11), so the
invariant says that nothing else does. A purchase is `lost` when Payments has recorded
an acknowledgment whose answer did not arrive, for the credit is then rolled back
(`Credit`); `PurchaseCredited` tells that end from `acknowledged`. While a change is
pending `Settle` saves the tier of the copy it works on, as the code does.

Abstractions: one counting period; one bonus link per purchase; "Canceled but
paid" counts as `Current`; no proration, no registrars as customers, no edits by
staff; an outer transaction that fails after the acknowledgment is left out.

`LinkQuotaProofs.tla` proves, from `QuotaAssumption`, `QuotaInv`,
`PendingTierIsCurrent`, `BonusLinkCostsOne` and `QuotaKept` for any number of
requests, links and purchases. The invariant has three layers. Always: `Fit`,
what a worker carries suits its next step, and `Holding`, the lock of
`select_for_update` keeps POST's second copy equal to the row. That alone gives
`BonusLinkCostsOne`. While nothing overlaps: one worker at a time is busy
(`Alone`) and its copies, the answer of Payments and the check before the
transaction agree with the tables (`Current`), which gives `QuotaKept`. While no
acknowledgment failed either: the numbers agree (`Counts`), so every write of
`bonus_links` is a sum over the row's own value, and the books balance.

The first attempt at that proof failed at `Create` for a reason in the code:
POST credits a purchase to its second copy, then `move_to_folder_for_user` saves
`bonus_links` from the first. `MCLinkQuota` does not reach it: it takes a second
purchase, and a user who has regular links left. With two purchases, two deals
and three outages TLC finds it, as a behaviour of 23 states. The excuse `inPost`
was added to the model for it.

## 6. Folders, links and their counts

`Library.tla` has the folder forest with everything a folder copies from its
tree (`tree_root`, `owner`, `cached_path`, `cached_has_children`), the links with
their folder and organization, the counts of users, organizations and
registrars, the row locks, and in `req` what each request has loaded, the folder's
whole row among it (`copy`). A request
loads before its transaction (`Load...`, as `load_parent` does), opens it, takes
its locks one by one (`NextLocks`, `Lock`), reads and writes
(`CreateFolder`, `MoveFolder`, `SaveLink`); `PATCH` and `DELETE` of a folder take
none. A `PATCH` loads the folder and later saves every column of that copy, also
when it changes the name alone (`SaveFolder`, the `else` branch of `Folder.save`):
what was committed since is undone, and a folder deleted since is inserted again
(`SaveRow`, `Undoes`). `Abort` is Postgres' deadlock detector. `LibraryAdmin.tla`
adds the pages that save whole rows of organizations, registrars and users (counts
included; a new name of an organization also saves its shared folder's row,
`ReadShared`), the deletion of an organization, the tasks `reconcile_*_link_counts` and
`fix_cached_folder_paths`.

| Run | Question | Bounds |
|---|---|---|
| `library` | Do folders form trees and inherit what their tree says (`LibraryInv`), are the counts exact (`CountsExact`), is every link in one folder (`LinksPlaced`)? | 2 requests at once, 3 in all; 5 folders of which one can be created; a personal and a shared tree; 1 link, 1 organization that may change between 2 registrars, one of which also sponsors |

Two overlapping requests are what the missing locks and stale copies need, and a
third lets something be moved after they went wrong. The excuses are in `past`:
`unlocked` (a folder moved by PATCH or to a stale destination, or a row saved over
what had changed since it was loaded), `stale` (a count or owner written
back), `swept` (a folder deleted with a link that arrived meanwhile), `rows`
(tables whose counts were written whole), which a recounting task clears.

`LibraryProofs.tla` proves the three of `AdminSpec`, from `LibraryAssumption`
alone: for any number of requests, organizations and registrars, any finite set
of folders and links, and trees of any depth. The invariant `Inv` has five parts.

* `Typed`: the types, which fields a request of each kind has filled in (`Fits`),
  and what is true of rows even after a PATCH has made a cycle of folders (`Rows`).
* `Serial`: what the locks are for. As long as nothing moved outside them, folders
  are a forest whose cached paths are those of the parent and the folder itself
  (`Forest`, `Trees`), and each request that holds locks has read what is still so
  (`Guarded`). POST holds its parent's row and then its tree's, so the tree it was
  told of stays the parent's (`Creating`). PUT holds the folder's row, its tree's
  and the destination's, so the subtree it read is the subtree it writes, and the
  parent it checked is still outside it (`Putting`, `Moving`). Whoever would change
  either needs one of those rows. `Fresh` and `Locked` say whose the new rows and
  the held locks are.
* `Picked`: what links and tasks in flight have found.
* `LinksPlaced` is inductive once `Fresh` is known.
* `Tallied`: `CountsExact` speaks of the links of folders of an owner; the code adds
  and subtracts by the link's `organization`, by `registrar` of a row that is not
  `user_deleted`, and by `SponsoredBy`. So the invariant gives each link the three
  rows that count it (`OrgKey`, `RegistrarKey`, `SponsorKey`) and says that each
  count is the number of links with that key. `TransferTallies` says once and for
  all that `_transfer` of the number of links of a set takes the tallies along when
  the set changes its key: a move of a folder, a move, creation or deletion of a
  link and a change of registrar are each that lemma for the set they touch. A
  recount is right because the rows it leaves alone agreed with what it counted.
  `TalliesImply` goes back from keys to folders, by `LinksPlaced`.

Paths are computed by iteration, and a subtree is a set of paths: the lemmas at
the head of the module say what an iteration computes and that in a forest it
ends at the top. They are by the least number for which a claim fails
(`Least`, `UpTo`), as the library's induction theorems cannot be used. TLC checked
`Inv` on the instance of `library`, as an invariant, before the proof.

Abstractions: no `read_only`; a name is not stored, though the rows saved to change
one are (so that names in one place differ is not checked); organizations are there from the start;
`settings_organizations_change_privacy` saves as the edit form does.

## 7. The order of the queue

`CaptureQueue.tla` has the table of jobs with their float order in units of its
last place (`Unit`), so that bisection runs out of places and rounds to even.
`Place` is `CaptureJob.save`'s search for a place, `Save` and `Queue` the insert
and the later change to pending, `Look` and `Claim` the two statements of
`get_next_job`. A request that posts a batch posts its urls one by one. `LoadJob` and
`SaveJob` are a PATCH with a file, which saves the job as it loaded it: a job that was
pending then is pending again whoever has taken it since (`past.revived`).

Run `queue`: two interchangeable users of the human queue and one of the robot
queue (only `human` and the user of a job matter to its place), 4 jobs,
2 requests, 1 worker, `Unit` 2 so that rounding happens at the second
bisection, 1 mishap: a refusal, a deletion, a PATCH of a pending job, or an overlap of
POSTs (`MaxMishaps`, `Mishaps`). `QueueInv` has the round robin the comment in
`CaptureJob.save` describes, with five excuses; `PositionIsTurn` says that the
reported position is the turn, unless orders may be equal; `BatchInOrder` excuses
only a job whose own predecessor a PATCH put back into the queue.

`CaptureQueueProofs.tla` proves the three from `QueueAssumption`, for any number
of users, requests, workers and jobs. Counts are not inductive, so the invariant
speaks of three jobs at a time (`TurnsKept`): of two jobs of another user ahead
of a job, at least the second has a job of that user between the first and it.
`KeepsTurns` says the same of a place that a POST has computed and not yet
filled. That a place is of this kind (`PlaceOf`, `FairPlace`) follows from what
`takewhile` and the search for second jobs leave, and from half way lying
strictly between two different orders unless it is rounded. The count then
follows by sending each job ahead but the last to the first job of the user after
it, which is an injection. `BatchInOrder` rests on `Chosen`: what a worker has
read has no pending predecessor, and none becomes pending later but by a PATCH,
because a batch goes on only when its job is queued or refused (`Apart`).

The proof found what 4 jobs are too few to show: `get_next_job` takes the job it
has read although a job ahead of it has become pending since, after which a user
may have two turns before another's first. The smallest case has 5 jobs. The
model notes it as `past.passed`, an excuse of `RoundRobin`; one request
and 5 jobs have been checked with it, two requests and 5 jobs are out of TLC's
reach, and the theorem covers both.

## 8. Memberships, permission rules and expiry

`Memberships.tla` is one account: its row, its affiliations, sponsorships and
sponsored folders, the approved registrars, and for each web worker the copy it
loaded and the tables it has still to write. Each view is one action that reads
and decides, followed by one action per table it writes (`Write`), so two views
interleave between any two statements that are not in one transaction. The names
are those of the views. `DayPasses` makes dates pass, the two nightly tasks end
what has expired.

`Access.tla` has the permission rules as operators over an account and a world
of organizations: the querysets, the predicates, the choices of the forms, the
tests before the views, the sidebar, the exports, and who may view, download or
change the privacy of a link. `Guises` is what the account
Memberships has reached looks like, with any organizations deleted and any
memberships kept in deleted ones. `Expiry.tla` has the two warning tasks and the
end of an affiliation over 45 days.

| Run | Question | Bounds |
|---|---|---|
| `memberships` | Is an account of one kind (`MembershipInv`), has every sponsorship its folder (`SponsorshipHasFolder`), is a folder read-only when its sponsorship is off (`ReadOnlyIsInactive`), do confirmed accounts stay (`ConfirmedStays`), does what expired end (`ExpiredEnds`); do the rules agree (`AccessRulesAgree`, `ListedOpens`); is the user warned (`WarnedOfTheEnd`)? | 2 requests at once, 3 in all (an overlap and one that acts on its outcome); 1 organization, 2 registrars, one not approved; the rules see one more organization |

`WarnedOfTheEnd` says what holds of the 7, 15 and 30 days: see section 11 for
the warning that is never sent. It is evaluated on every account with a date to
come, over all dates (midnights as the forms give, and 15:00 as the admin can)
and all first days.

`MembershipsProofs.tla` proves, for any organizations, registrars and requests,
every safety property of the run: `MembershipInv`, `SponsorshipHasFolder`,
`ReadOnlyIsInactive`, `ConfirmedStays`, `AccessRulesAgree`, `ListedOpens` and
`WarnedOfTheEnd`. The inductive part is `RequestInv`: what a request carries is
what its view decided (`Decided`), and while no table it read has changed since,
what the view checked still holds of the tables (`Fresh`); otherwise it is
`stale`, and its write is noted in `past`. The permission rules need no
invariant of their own: for an account of one kind the several forms of a rule
are shown equal case by case. Only `ExpiredEnds` (liveness) is left to TLC.

Fairness: the nightly tasks run. Abstractions: one account at a time; what
staff may do that registrars may not is allowed to both where only the outcome
matters; a PATCH that saves the whole row of a sponsored folder, `read_only` as it was
loaded, is Library's and left out here; passwords, activation links and emails are left out, as are filters,
search, sorting and pagination of lists.

## 9. Archives

`Archives.tla` looks into what the pipeline calls an archive: the objects in
storage (`store`: WARC, WACZ, what was set aside), the rows that say which one
is played back, the capture, a PATCH with a file (`MoveAside`, `WriteFile`,
`CommitPatch`), DELETE, the hourly task that caches the playback status, and the
conversion of WARCs to WACZs (`Convert`, `CopyWarc`, `Make`, `SaveSize`,
`StoreWacz`, with `LoseConverter`). Storage changes when it is written, rows
when a request commits.

Run `archives`: 1 link, old (a WARC) or just created, 2 uploads, 2 converters
(two messages for one link are what a view and a benchmark make). `ArchivesInv`:
what is played back or downloaded is what the rows describe, and a page has
Memento headers just when timemaps and timegates list its link, which then plays
back (`MementosServe`, for every privacy, whoever looks); `CachedStatusTrue`;
`ArchiveKept`: no step destroys an archive the rows call successful;
`StatusIsCached` under the fairness that requests end and the hourly task runs.

`ArchivesProofs.tla` proves `ArchivesInv`, `CachedStatusTrue` and `ArchiveKept`
for any links, files and converters. The invariant splits the links: the rows of
one from before WACZs change by conversions only and its WARC stays (`OldLink`);
a new one has no WARC, and its capture and its PATCH exclude each other
(`NewLink`). `StatusInv` says which answers of `can_play_back` may be on their
way to the cache; before the end of the first day nothing is cached, after it
nothing changes the answer unless it straddled that moment. `StatusIsCached` is
left to TLC.

Abstractions: links with a WARC only are all permanent, so that a PATCH and a
conversion do not meet; a failure between two renames counts as after them; one
caching task per link at a time; `populate_*` one-off tasks and the steps of a
direct POST upload are left out.

## 10. What is proved and what is only model-checked

| Component | Proved for all values of the constants | Left to TLC |
|---|---|---|
| Capture pipeline | `TypeOK`, `CaptureInv`, `UploadKept`, `AtMostOneAttempt`, `OneCaptureAtATime`, `SweepSparesLiveCaptures`, `SupersededKept`, `CompletedHasArchive`, `OutcomeIsFinal`, the refinement `ServiceSpec` | `JobsEnd`, `PauseDrains` |
| Internet Archive | `TypeOK`, `RemoteRecorded`, `UndercountExplained`, `UploadsBounded` | `SubmittedMovesOn` |
| Quotas | `QuotaInv`, `PendingTierIsCurrent`, `BonusLinkCostsOne`, `QuotaKept` | `PurchaseCredited` |
| Queue | `QueueInv`, `PositionIsTurn`, `BatchInOrder` | - |
| Memberships, rules, expiry | `MembershipInv`, `SponsorshipHasFolder`, `ReadOnlyIsInactive`, `ConfirmedStays`, `AccessRulesAgree`, `ListedOpens`, `WarnedOfTheEnd` | `ExpiredEnds` |
| Archives | `ArchivesInv`, `CachedStatusTrue`, `ArchiveKept` | `StatusIsCached` |
| Folders and counts | `LibraryInv`, `LinksPlaced`, `CountsExact` | - |

The proofs assume what the modules' ASSUMEs say of the constants (kinds of
names are disjoint, bounds are natural numbers) and nothing else; TLC evaluates
each ASSUME in the runs. They are of safety only: fairness and ENABLED, and so
every liveness property, are out of the prover's reach. Induction is out of its
reach as a rule with an operator parameter; where a proof needs one (the paths of
folders) it is by the least counterexample, and counts are compared set by set.

Two theorems were false when they were first attempted: each found an interleaving
that the bounds of its run hide (sections 5 and 7). The statements were corrected
in the model, by naming what the code really does, and TLC confirms the
counterexamples on larger instances.

Deadlock is checked in the pipeline's runs, where time always may pass. The
others say `CHECK_DEADLOCK FALSE`: with the bounds used up nothing is left to do.

### Not modelled

The moment between looking at the sentinel and sending the next message;
Scoop's polling and progress messages; tags; archive contents; the dates by
which a timegate chooses; proration and the
encryption of Perma Payments' messages; `manage_registrar`'s and the admin's
creation of registrars; email; statistics, reporting and the Django admin;
search and pagination; the JavaScript front end. These compute or present, and
keep no state the modelled parts depend on.

## 11. Disagreements met while modelling

They are not runs of their own; the properties above name them as excuses, or
the model simply does what the code does.

Capture pipeline and archives:
* `get_next_job` promises that "the same job can't be returned twice". A PATCH
  that loaded the job while it was pending saves the whole object and hands it
  out again; the second worker notices before it captures.
* DELETE's "Capture in progress: please wait" is checked before, and outside of,
  the transaction that deletes.
* A PATCH that fails after the old archive was moved aside leaves a link
  `can_play_back` reports as ready, without an archive under its name.
* After a failed job's link was replaced by an upload, the export of its folder
  says "success" and that of its batch "error".
* A converter saves `wacz_size` before the file; lost in between, it leaves
  playback pointing at nothing, and `View` does not retry. A benchmark keeps a
  WACZ that failed validation.
* A capture, PATCH or DELETE that spans the end of a link's first day may leave
  its cached playback status wrong for good: a deleted link may answer 410 with
  Memento headers.

Capture queue:
* `get_next_job` reads the first job and takes it in a second statement that only
  asks whether it is still pending; a job that became pending ahead of it meanwhile
  waits one turn more than the comment on the round robin in `CaptureJob.save` has it.
* A PATCH with a file that loaded a job while it was pending saves it as pending after
  a worker has taken it. The job is back at its old place, before jobs that were
  placed meanwhile, perhaps with their very order, and a worker that has already read
  the next url of its batch takes that one first.

Internet Archive:
* `queue_internet_archive_deletions` is to find links "that were eligible ... and
  so were uploaded"; an upload whose task died after IA accepted it stays
  `upload_attempted`, which no job selects.
* `tasks_in_progress` is taken back by retries and confirmations only; a task
  that is lost, gives up or repeats a submitted upload is counted for ever.
* The confirmation takes a mismatch of metadata for slowness; after the link's
  title was edited it never matches.
* Every task saves its own status over what others have recorded. An upload that ends
  after a deletion of the file was requested leaves `upload_submitted` (line 875 over
  1133-1135): once IA has worked off both, the file is looked for again and again and
  is not there. A redundant upload leaves a submitted file `upload_attempted`, which no
  job selects.
* The jobs that queue confirmations of uploads and of deletions each do nothing while
  `ia-readonly` holds a message, the other's included: one can be kept waiting for ever.

Quotas:
* The credit of a purchase is rolled back when its acknowledgment fails, yet
  Payments may have recorded the acknowledgment; the purchase is then lost.
* `request.user` keeps `F('bonus_links') + 1` after `move_to_folder_for_user`;
  a later save of the field from that object adds it again.
* A purchase that POST credits inside its transaction is in the second copy of
  the user; `move_to_folder_for_user(folder, request.user)` then saves
  `bonus_links` from the first (`api/views/links.py:216-237`), and it is lost.
* Two overlapping POSTs exceed the limit of plain links; bonus links are counted
  again under the row's lock.

Folders and counts:
* PATCH of a folder's parent takes no lock: two at once make a cycle, or a
  subtree that inherits from a tree it has left.
* PATCH of a folder's name takes no lock either and saves every column
  (`folder.py:270-271`): a move committed since it was loaded is undone for that row
  (parent, tree_root, owner, path) and kept for its subtree, its links and the counts;
  a folder deleted since is there again, without its links.
* Renaming an organization saves its shared folder's whole row in the same way.
* A folder found empty is deleted although a link has arrived since.
* `Organization.save`, `Registrar.save` and `LinkUser.save` write the cached
  counts they loaded; an edit that overlaps a deletion resurrects the
  organization.
* `reconcile_registrar_link_counts` counts links of deleted organizations, which
  `adjust_owner_link_counts` does not.

Accounts:
* The nightly `deactivate_expired_sponsored_users` updates a queryset, so
  `Sponsorship.save` does not make the folders read-only: an expired sponsorship
  stays writable.
* `UserAddRegistrarForm.save` gives an existing user a random password and sends
  only a notice, which ends an unconfirmed user's activation link.
* Members of organizations never get the 30-day warning:
  `expires_at__lt` a date is a comparison with its midnight
  (`celery_tasks.py:1686`; the warning for sponsored users has `__lte`). Neither
  does anybody whose date has a time of day. A night on which the task does not
  run loses its warnings.
* `can_toggle_private` still names the reason `old_policy`, which migration 0028
  renamed to `meta`: the page of such a link offers no button for the change that
  the serializer accepts.
* Registrars' users still open folders of deleted organizations by a direct
  address, which no list shows; `LinkQuerySet` leaves out the links a registrar
  sponsors, which its users can open; staff are shown affiliations with deleted
  organizations whose pages are not found.
