------------------------------- MODULE Archives -------------------------------
(***************************************************************************)
(* A link's archive: the files in storage, the rows that say which file is *)
(* played back, and everything that writes either: the capture, PATCH with *)
(* a file, DELETE, the cached playback status, and the conversion of WARCs *)
(* to WACZs.                                                               *)
(*                                                                         *)
(* Storage has no transactions: files change when they are written, rows   *)
(* when a request commits.                                                 *)
(***************************************************************************)
EXTENDS FiniteSets

CONSTANTS
    Links,
    Files,        \* what users upload
    Converters,   \* workers of the wacz-conversion queue
    NoLink

ASSUME ArchivesAssumption ==
    /\ {"none", "capture", "broken"} \cap Files = {}
    /\ NoLink \notin Links

VARIABLES
    row,        \* Link, its primary Capture and its CaptureJob
    store,      \* the objects in storage
    capture,    \* how far the worker of the link's job is
    patch,      \* how far a PATCH with a file is, and the file
    deleting,   \* whether a DELETE has passed its checks
    caching,    \* what a cache_playback_status task has computed
    queue,      \* convert_warc_to_wacz messages
    conv,       \* what each converter does
    past        \* history: what has gone wrong

vars == <<row, store, capture, patch, deleting, caching, queue, conv, past>>

----------------------------------------------------------------------------

Content == {"none", "capture", "broken"} \cup Files
Answer == {"unknown", "yes", "no"}

Row == [warc_size: BOOLEAN, wacz_size: BOOLEAN,
        primary: {"none", "pending", "failed", "success"}, content: Content,
        job: {"none", "pending", "in_progress", "completed", "failed", "deleted"},
        superseded: BOOLEAN, user_deleted: BOOLEAN, permanent: BOOLEAN, cached: Answer]

\* converted: the WARC inside the WACZ is archive/GUID.warc.gz, not data.warc.gz.
Store == [warc: Content, wacz: Content, converted: BOOLEAN, aside: SUBSET Content]

Idle == [stage |-> "idle", link |-> NoLink, kind |-> "view", copy |-> "none", wacz |-> "none"]
NoPatch == [stage |-> "none", file |-> "none"]

Patch == [stage: {"none", "open", "aside", "written"}, file: Files \cup {"none"}]
Conversion == [stage: {"idle", "loaded", "copied", "made", "sized"},
               link: Links \cup {NoLink}, kind: {"view", "benchmark"},
               copy: Content, wacz: Content]
Past == [straddled: BOOLEAN, torn: BOOLEAN, kept: BOOLEAN]

TypeOK ==
    /\ row \in [Links -> Row]
    /\ store \in [Links -> Store]
    /\ capture \in [Links -> {"none", "started", "sized", "stored", "described"}]
    /\ patch \in [Links -> Patch]
    /\ deleting \in [Links -> BOOLEAN]
    /\ caching \in [Links -> Answer]
    /\ queue \in [Links -> SUBSET {"view", "benchmark"}]
    /\ conv \in [Converters -> Conversion]
    /\ past \in [Links -> Past]

\* A link from before WACZs, and one that was just created.
OldRow == [warc_size |-> TRUE, wacz_size |-> FALSE, primary |-> "success",
           content |-> "capture", job |-> "none", superseded |-> FALSE,
           user_deleted |-> FALSE, permanent |-> TRUE, cached |-> "unknown"]
NewRow == [warc_size |-> FALSE, wacz_size |-> FALSE, primary |-> "pending",
           content |-> "capture", job |-> "pending", superseded |-> FALSE,
           user_deleted |-> FALSE, permanent |-> FALSE, cached |-> "unknown"]

Init ==
    /\ row \in [Links -> {OldRow, NewRow}]
    /\ store = [l \in Links |-> [warc |-> IF row[l].warc_size THEN "capture" ELSE "none",
                                 wacz |-> "none", converted |-> FALSE, aside |-> {}]]
    /\ capture = [l \in Links |-> "none"]
    /\ patch = [l \in Links |-> NoPatch]
    /\ deleting = [l \in Links |-> FALSE]
    /\ caching = [l \in Links |-> "unknown"]
    /\ queue = [l \in Links |-> {}]
    /\ conv = [w \in Converters |-> Idle]
    /\ past = [l \in Links |-> [straddled |-> FALSE, torn |-> FALSE, kept |-> FALSE]]

----------------------------------------------------------------------------
(* What the rows say.                                                      *)

\* can_play_back, when nothing is cached.
Playable(l) ==
    /\ ~row[l].user_deleted
    /\ row[l].primary = "success"
    /\ row[l].job \in {"none", "completed"} \/ row[l].superseded

can_play_back(l) ==
    IF row[l].cached = "unknown" THEN Playable(l) ELSE row[l].cached = "yes"

\* What stream_archive and single_permalink's context ask.
Served(l) == ~row[l].user_deleted /\ can_play_back(l)

\* The object single_permalink's playback_url names.
Playback(l) == IF row[l].wacz_size THEN store[l].wacz ELSE store[l].warc

\* Mutant: the WACZ is preferred.
DownloadFromWacz(l) ==
    IF row[l].wacz_size THEN IF store[l].converted THEN "none" ELSE store[l].wacz
    ELSE IF row[l].warc_size THEN store[l].warc ELSE "none"

\* get_warc: without a WARC of its own, from data.warc.gz in the WACZ.
Download(l) ==
    IF row[l].warc_size THEN store[l].warc
    ELSE IF row[l].wacz_size /\ ~store[l].converted THEN store[l].wacz
    ELSE "none"

\* Who may see a link is changed at any time, before and after it is permanent:
\* the rules are asked about every value.
Visibility == [is_private: BOOLEAN, is_unlisted: BOOLEAN]

is_discoverable(v) == ~v.is_private /\ ~v.is_unlisted
can_view(v, editor) == ~v.is_private \/ editor

\* The query of timemaps, timegates and uploads to the Internet Archive, of links
\* that are not deleted, and the predicate of pages and of the upload task.
visible_to_memento(l, v) ==
    ~row[l].user_deleted /\ is_discoverable(v) /\ row[l].cached = "yes"
is_visible_to_memento(l, v) == row[l].cached = "yes" /\ is_discoverable(v)

\* Views that list links: the timemap of a url, which is not found when no link is
\* visible, the timegate, which redirects to one of them, and /public/archives.
memento_data_for_url(vis) == {l \in Links : visible_to_memento(l, vis[l])}
timemap(vis) == [status |-> IF memento_data_for_url(vis) = {} THEN 404 ELSE 200,
                 list |-> memento_data_for_url(vis)]
timegate(vis) ==
    IF memento_data_for_url(vis) = {} THEN {404} ELSE memento_data_for_url(vis)
PublicLinkList(vis) == {l \in Links : ~row[l].user_deleted /\ is_discoverable(vis[l])}

\* The page of a link.
single_permalink(l, v, editor) ==
    [status |-> IF row[l].user_deleted THEN 410
                ELSE IF can_view(v, editor) THEN 200 ELSE 403,
     plays |-> can_view(v, editor) /\ can_play_back(l),
     memento |-> is_visible_to_memento(l, v)]

\* Downloads, for users who are logged in.
stream_archive_if_permissible(l, v, editor) ==
    IF ~can_view(v, editor) THEN 403 ELSE IF Served(l) THEN 200 ELSE 404

\* A PATCH holds the lock of the link's row until its transaction ends.
Unlocked(l) == patch[l].stage = "none"

----------------------------------------------------------------------------
(* The capture.                                                            *)

captureVars == <<patch, deleting, caching, queue, conv, past>>

\* capture_with_scoop goes on only with a pending capture; CapturePipeline shows
\* that none is captured while a PATCH is under way.
StartCapture(l) ==
    /\ row[l].job = "pending" /\ ~row[l].user_deleted /\ Unlocked(l)
    /\ IF row[l].primary = "pending"
       THEN /\ row' = [row EXCEPT ![l].job = "in_progress"]
            /\ capture' = [capture EXCEPT ![l] = "started"]
       ELSE /\ row' = [row EXCEPT ![l].job = "deleted"]
            /\ UNCHANGED capture
    /\ UNCHANGED <<store, captureVars>>

\* get_next_job, of jobs whose link was deleted.
CleanUp(l) ==
    /\ row[l].job = "pending" /\ row[l].user_deleted
    /\ row' = [row EXCEPT ![l].job = "deleted"]
    /\ UNCHANGED <<store, capture, captureVars>>

\* save_scoop_archive saves the size before the file.
SizeArchive(l) ==
    /\ capture[l] = "started" /\ Unlocked(l)
    /\ row' = [row EXCEPT ![l].wacz_size = TRUE]
    /\ capture' = [capture EXCEPT ![l] = "sized"]
    /\ UNCHANGED <<store, captureVars>>

StoreArchive(l) ==
    /\ capture[l] = "sized"
    /\ store' = [store EXCEPT ![l].wacz = "capture", ![l].converted = FALSE]
    /\ capture' = [capture EXCEPT ![l] = "stored"]
    /\ UNCHANGED <<row, captureVars>>

\* save_archive_metadata; it fails when the primary capture is gone.
Describe(l) ==
    /\ capture[l] = "stored" /\ row[l].primary = "pending" /\ Unlocked(l)
    /\ row' = [row EXCEPT ![l].primary = "success"]
    /\ capture' = [capture EXCEPT ![l] = "described"]
    /\ UNCHANGED <<store, captureVars>>

\* mark_completed, which fails a job whose link has no captures.
Complete(l) ==
    /\ capture[l] = "described"
    /\ row' = [row EXCEPT ![l].job = IF row[l].primary = "none" THEN "failed" ELSE "completed"]
    /\ capture' = [capture EXCEPT ![l] = "none"]
    /\ UNCHANGED <<store, captureVars>>

\* A failure anywhere, or the sweep of a lost worker's job.
FailCapture(l) ==
    /\ capture[l] # "none"
    /\ row' = [row EXCEPT ![l].job = "failed",
                          ![l].primary = IF @ = "pending" THEN "failed" ELSE @]
    /\ capture' = [capture EXCEPT ![l] = "none"]
    /\ UNCHANGED <<store, captureVars>>

----------------------------------------------------------------------------
(* PATCH with a file, DELETE, and the day after which neither is allowed.  *)

patchVars == <<capture, deleting, caching, queue, conv>>

\* Mutant: the serializer's check of is_permanent is dropped.
MayReplaceAlways(l) == ~row[l].user_deleted /\ row[l].job # "in_progress"

\* AuthenticatedLinkSerializer.validate, and the check of the job.
MayReplace(l) ==
    ~row[l].user_deleted /\ ~row[l].permanent /\ row[l].job # "in_progress"

OpenPatch(l, f) ==
    /\ Unlocked(l) /\ MayReplace(l)
    /\ patch' = [patch EXCEPT ![l] = [stage |-> "open", file |-> f]]
    /\ UNCHANGED <<row, store, past, patchVars>>

\* Mutant: what is replaced is deleted.
Discarded(s) == [s EXCEPT !.warc = "none", !.wacz = "none"]

\* safe_delete_warc and safe_delete_wacz: a copy under another name.
SetAside(s) ==
    [s EXCEPT !.warc = "none", !.wacz = "none",
              !.aside = @ \cup ({s.warc, s.wacz} \ {"none"})]

MoveAside(l) ==
    /\ patch[l].stage = "open"
    /\ store' = [store EXCEPT ![l] = SetAside(@)]
    /\ patch' = [patch EXCEPT ![l].stage = "aside"]
    /\ UNCHANGED <<row, past, patchVars>>

\* preserve_perma_wacz
WriteFile(l) ==
    /\ patch[l].stage = "aside"
    /\ store' = [store EXCEPT ![l].wacz = patch[l].file, ![l].converted = FALSE]
    /\ patch' = [patch EXCEPT ![l].stage = "written"]
    /\ UNCHANGED <<row, past, patchVars>>

\* What delete_related_captures, mark_capturejob_superseded and
\* write_uploaded_file wrote, committed.
CommitPatch(l) ==
    /\ patch[l].stage = "written"
    /\ row' = [row EXCEPT ![l].warc_size = FALSE, ![l].wacz_size = TRUE,
                          ![l].primary = "success", ![l].content = patch[l].file,
                          ![l].superseded = row[l].job # "none"]
    /\ patch' = [patch EXCEPT ![l] = NoPatch]
    /\ UNCHANGED <<store, past, patchVars>>

\* The rows are rolled back, the files are not.
FailPatch(l) ==
    /\ patch[l].stage # "none"
    /\ past' = [past EXCEPT ![l].torn = @ \/ patch[l].stage # "open"]
    /\ patch' = [patch EXCEPT ![l] = NoPatch]
    /\ UNCHANGED <<row, store, patchVars>>

CheckDelete(l) ==
    /\ ~row[l].user_deleted /\ ~row[l].permanent /\ row[l].job # "in_progress"
    /\ deleting' = [deleting EXCEPT ![l] = TRUE]
    /\ UNCHANGED <<row, store, capture, patch, caching, queue, conv, past>>

\* The files stay.
Delete(l) ==
    /\ deleting[l] /\ Unlocked(l)
    /\ row' = [row EXCEPT ![l].primary = "none", ![l].content = "none",
                          ![l].cached = "no", ![l].user_deleted = TRUE]
    /\ deleting' = [deleting EXCEPT ![l] = FALSE]
    /\ UNCHANGED <<store, capture, patch, caching, queue, conv, past>>

\* archive_timestamp is reached, whatever is still under way.
DayPasses(l) ==
    /\ ~row[l].permanent
    /\ row' = [row EXCEPT ![l].permanent = TRUE]
    /\ past' = [past EXCEPT ![l].straddled =
                    \/ row[l].job \in {"pending", "in_progress"}
                    \/ ~Unlocked(l) \/ deleting[l]]
    /\ UNCHANGED <<store, patch, patchVars>>

----------------------------------------------------------------------------
(* cache_playback_status, of links cache_playback_status_for_new_links     *)
(* selected.                                                               *)

cacheVars == <<store, capture, patch, deleting, queue, conv, past>>

Uncached(l) == row[l].permanent /\ row[l].cached = "unknown" /\ ~row[l].user_deleted

LoadStatus(l) ==
    /\ Uncached(l) /\ caching[l] = "unknown"
    /\ caching' = [caching EXCEPT ![l] = IF can_play_back(l) THEN "yes" ELSE "no"]
    /\ UNCHANGED <<row, cacheVars>>

\* Mutant: a link that does not play back keeps no status.
SaveStatusIfYes(l) ==
    /\ caching[l] # "unknown" /\ Unlocked(l)
    /\ row' = IF caching[l] = "yes" THEN [row EXCEPT ![l].cached = "yes"] ELSE row
    /\ caching' = [caching EXCEPT ![l] = "unknown"]
    /\ UNCHANGED cacheVars

SaveStatus(l) ==
    /\ caching[l] # "unknown" /\ Unlocked(l)
    /\ row' = [row EXCEPT ![l].cached = caching[l]]
    /\ caching' = [caching EXCEPT ![l] = "unknown"]
    /\ UNCHANGED cacheVars

----------------------------------------------------------------------------
(* Conversion.                                                             *)

convVars == <<capture, patch, deleting, caching>>

\* single_permalink prepares a WACZ for the next playback.
View(l) ==
    /\ \E v \in Visibility, editor \in BOOLEAN : single_permalink(l, v, editor).plays
    /\ row[l].warc_size /\ ~row[l].wacz_size /\ row[l].content \notin Files
    /\ queue' = [queue EXCEPT ![l] = @ \cup {"view"}]
    /\ UNCHANGED <<row, store, conv, past, convVars>>

\* benchmark_wacz_conversion
Benchmark(l) ==
    /\ row[l].cached = "yes" /\ ~row[l].user_deleted
    /\ queue' = [queue EXCEPT ![l] = @ \cup {"benchmark"}]
    /\ UNCHANGED <<row, store, conv, past, convVars>>

Convert(w, l, k) ==
    /\ conv[w] = Idle /\ k \in queue[l]
    /\ queue' = [queue EXCEPT ![l] = @ \ {k}]
    /\ conv' = IF Served(l)
               THEN [conv EXCEPT ![w] = [Idle EXCEPT !.stage = "loaded", !.link = l, !.kind = k]]
               ELSE conv
    /\ UNCHANGED <<row, store, past, convVars>>

At(w, stage) == conv[w].stage = stage
End(w) == conv' = [conv EXCEPT ![w] = Idle]

\* Storage raises an error for a WARC that is not there.
CopyWarc(w) ==
    LET warc == store[conv[w].link].warc IN
    /\ At(w, "loaded")
    /\ IF warc = "none" THEN End(w)
       ELSE conv' = [conv EXCEPT ![w].stage = "copied", ![w].copy = warc]
    /\ UNCHANGED <<row, store, queue, past, convVars>>

\* Mutant: the checksums are not compared.
SuccessUnchecked(w, wacz) == wacz # "none"

\* No error, not smaller than the WARC, and the embedded WARC has the checksum of
\* the one in storage.
Success(w, wacz) == wacz = conv[w].copy /\ wacz = store[conv[w].link].warc

\* js-wacz: nothing, a WACZ, or something else.
Make(w) ==
    \E wacz \in {"none", "broken", conv[w].copy} :
        /\ At(w, "copied")
        /\ IF wacz # "none" /\ (Success(w, wacz) \/ conv[w].kind = "benchmark")
           THEN conv' = [conv EXCEPT ![w].stage = "made", ![w].wacz = wacz]
           ELSE End(w)
        /\ UNCHANGED <<row, store, queue, past, convVars>>

\* The size is saved before the file, here too.  save_wacz_on_error keeps broken
\* ones around.
SaveSize(w) ==
    LET l == conv[w].link IN
    /\ At(w, "made") /\ Unlocked(l)
    /\ row' = [row EXCEPT ![l].wacz_size = TRUE]
    /\ past' = [past EXCEPT ![l].kept = @ \/ (conv[w].kind = "benchmark"
                                               /\ ~Success(w, conv[w].wacz))]
    /\ conv' = [conv EXCEPT ![w].stage = "sized"]
    /\ UNCHANGED <<store, queue, convVars>>

StoreWacz(w) ==
    /\ At(w, "sized")
    /\ store' = [store EXCEPT ![conv[w].link].wacz = conv[w].wacz,
                              ![conv[w].link].converted = TRUE]
    /\ End(w)
    /\ UNCHANGED <<row, queue, past, convVars>>

\* A worker is lost, and its message with it.
LoseConverter(w) ==
    /\ conv[w] # Idle
    /\ past' = IF At(w, "sized") THEN [past EXCEPT ![conv[w].link].torn = TRUE] ELSE past
    /\ End(w)
    /\ UNCHANGED <<row, store, queue, convVars>>

----------------------------------------------------------------------------

Patching(l) == MoveAside(l) \/ WriteFile(l) \/ CommitPatch(l) \/ FailPatch(l)
Caching(l) == LoadStatus(l) \/ SaveStatus(l)

Next ==
    \/ \E l \in Links :
          \/ StartCapture(l) \/ CleanUp(l) \/ SizeArchive(l) \/ StoreArchive(l)
          \/ Describe(l) \/ Complete(l) \/ FailCapture(l)
          \/ Patching(l) \/ CheckDelete(l) \/ Delete(l) \/ DayPasses(l)
          \/ Caching(l) \/ View(l) \/ Benchmark(l)
          \/ \E f \in Files : OpenPatch(l, f)
    \/ \E w \in Converters :
          \/ CopyWarc(w) \/ Make(w) \/ SaveSize(w) \/ StoreWacz(w) \/ LoseConverter(w)
          \/ \E l \in Links, k \in {"view", "benchmark"} : Convert(w, l, k)

Spec == Init /\ [][Next]_vars

\* Requests end, and celerybeat selects links until their status is cached; its
\* tasks are acks_late.
FairSpec == Spec /\ \A l \in Links : WF_vars(Patching(l)) /\ WF_vars(Caching(l))

----------------------------------------------------------------------------
(* Properties.                                                             *)

Sizing(l) == \E w \in Converters : conv[w].link = l /\ At(w, "sized")

Sound(l) == Unlocked(l) /\ ~Sizing(l) /\ ~past[l].torn /\ ~past[l].kept

\* What is played back is in storage and is what the link's primary capture says
\* (single_permalink's playback_url), through captures, replacements and
\* conversions that overlap: unless a PATCH or a converter stopped between its
\* files and its rows, or a benchmark kept a broken WACZ.
PlaybackServes == \A l \in Links : Served(l) /\ Sound(l) => Playback(l) = row[l].content

\* A WARC can be downloaded of every link that is played back (get_warc), also when
\* it has to come out of a WACZ.
DownloadServes == \A l \in Links : Served(l) /\ Sound(l) => Download(l) = row[l].content

\* A page has memento headers just when timemaps and timegates list its link
\* (is_visible_to_memento, visible_to_memento), and then anyone is played the archive,
\* and every user may download it: of the lists, the page and the download, one asks
\* for the cached answer only, one for the deletion too and one for the privacy.
\* Excused are links of which a request straddled the day's end.
MementosServe ==
    \A vis \in [Links -> Visibility] : \A l \in Links :
        ~past[l].straddled =>
            LET page == single_permalink(l, vis[l], FALSE) IN
            /\ page.memento <=> l \in timemap(vis).list
            /\ l \in timemap(vis).list => l \in timegate(vis) /\ l \in PublicLinkList(vis)
            /\ page.memento =>
                 /\ page.status = 200 /\ page.plays
                 /\ stream_archive_if_permissible(l, vis[l], FALSE) = 200

\* Rows and files stay of their types, playback and downloads find their files, and
\* what is listed can be played.
ArchivesInv == TypeOK /\ PlaybackServes /\ DownloadServes /\ MementosServe

\* The cached answer is the one can_play_back would compute from the captures and
\* the job, which nothing invalidates: PATCH, DELETE and captures have ended when
\* it is cached, unless one of them was under way as the link became permanent.
CachedStatusTrue ==
    \A l \in Links :
        row[l].cached # "unknown" /\ ~past[l].straddled
            => (row[l].cached = "yes" <=> Playable(l))

Stored(l) == {store[l].warc, store[l].wacz} \cup store[l].aside

\* No step destroys the archive that the rows of a link call successful: what is
\* replaced is kept under another name (safe_delete_warc, safe_delete_wacz), also
\* when the replacement fails.
ArchiveKept ==
    [][\A l \in Links :
          row[l].primary = "success" /\ row[l].content \in Stored(l)
             => row[l].content \in Stored(l)']_vars

\* The status of every permanent link is cached some time, whatever else happens to
\* the link (cache_playback_status_for_new_links).
StatusIsCached ==
    \A l \in Links : Uncached(l) ~> ~Uncached(l)

=============================================================================
