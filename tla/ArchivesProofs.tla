------------------------------ MODULE ArchivesProofs ------------------------------
(***************************************************************************)
(* Theorems about Archives, for any links, files and converters.           *)
(*                                                                         *)
(* A link is either from before WACZs or new, and stays so.  The rows of   *)
(* one from before WACZs do not change but for its WACZ and its cached     *)
(* status, and its WARC stays in storage: only such links are converted.   *)
(* A new one never has a WARC, and its worker and a PATCH exclude each     *)
(* other.                                                                  *)
(***************************************************************************)
EXTENDS Archives, TLAPS

----------------------------------------------------------------------------
(* The inductive invariant.                                                *)

\* Nothing but conversions, and the playback status, happens to a link from before
\* WACZs.
OldLink(l) ==
    /\ row[l].warc_size /\ row[l].permanent /\ ~row[l].user_deleted
    /\ row[l].primary = "success" /\ row[l].content = "capture" /\ row[l].job = "none"
    /\ store[l].warc = "capture"
    /\ capture[l] = "none" /\ patch[l].stage = "none" /\ ~deleting[l]
    /\ row[l].wacz_size /\ Sound(l) => store[l].wacz = "capture"

\* A new link has no WARC to convert.
NoWarc(l) ==
    /\ ~row[l].warc_size /\ row[l].job # "none"
    /\ store[l].warc = "none" /\ ~store[l].converted

\* The worker of a link's job, and what it finds in rows and storage.
CaptureInv(l) ==
    /\ capture[l] # "none" <=> row[l].job = "in_progress"
    /\ capture[l] # "none" => patch[l].stage = "none"
    /\ capture[l] \in {"started", "sized", "stored"} => row[l].primary \in {"pending", "none"}
    /\ capture[l] \in {"sized", "stored"} => row[l].wacz_size
    /\ capture[l] = "stored" => store[l].wacz = "capture"

\* A PATCH keeps deletion out, and what it wrote stays until it commits.
PatchInv(l) ==
    /\ patch[l].stage # "none" => patch[l].file \in Files /\ ~row[l].user_deleted
    /\ patch[l].stage = "aside" => store[l].wacz = "none"
    /\ patch[l].stage = "written" => store[l].wacz = patch[l].file

\* What the primary capture of a link says of its content.
PrimaryInv(l) ==
    /\ row[l].primary = "pending" => row[l].content = "capture"
    /\ row[l].primary = "success" => row[l].content # "none"
    /\ row[l].primary = "none" <=> row[l].user_deleted
    /\ row[l].primary = "success" /\ ~past[l].torn /\ patch[l].stage \in {"none", "open"}
          => row[l].wacz_size /\ store[l].wacz = row[l].content

NewLink(l) == NoWarc(l) /\ CaptureInv(l) /\ PatchInv(l) /\ PrimaryInv(l)

\* The playback status: what is cached, and what is about to be.
StatusInv(l) ==
    /\ "yes" \in {row[l].cached, caching[l]} /\ ~row[l].user_deleted
          => row[l].primary = "success"
    /\ past[l].straddled => row[l].permanent
    /\ row[l].permanent /\ ~past[l].straddled
          => /\ row[l].job \notin {"pending", "in_progress"}
             /\ patch[l].stage = "none" /\ ~deleting[l]
    /\ row[l].cached # "unknown" => row[l].permanent \/ row[l].user_deleted
    /\ caching[l] # "unknown" => row[l].permanent
    /\ caching[l] # "unknown" /\ ~past[l].straddled
          => ~row[l].user_deleted /\ (caching[l] = "yes" <=> Playable(l))

\* A converter works with the WARC of a link from before WACZs; a WACZ that is not
\* a copy of it is one a benchmark keeps.
ConverterInv(w) ==
    /\ conv[w].stage = "idle" <=> conv[w].link = NoLink
    /\ conv[w].stage = "idle" => conv[w] = Idle
    /\ conv[w].stage \in {"copied", "made", "sized"}
          => row[conv[w].link].warc_size /\ conv[w].copy = "capture"
    /\ conv[w].stage = "made" /\ conv[w].kind = "view" => conv[w].wacz = "capture"
    /\ conv[w].stage = "sized" /\ ~past[conv[w].link].kept => conv[w].wacz = "capture"

\* CachedStatusTrue, of a link.
StatusTrue(l) ==
    row[l].cached # "unknown" /\ ~past[l].straddled => (row[l].cached = "yes" <=> Playable(l))

LinkInv(l) == (OldLink(l) \/ NewLink(l)) /\ StatusInv(l) /\ StatusTrue(l)

Inv ==
    /\ TypeOK
    /\ \A l \in Links : LinkInv(l)
    /\ \A w \in Converters : ConverterInv(w)

----------------------------------------------------------------------------
(* Type correctness.                                                       *)

Job == {"none", "pending", "in_progress", "completed", "failed", "deleted"}
Primary == {"none", "pending", "failed", "success"}
PatchStage == {"none", "open", "aside", "written"}
Stage == {"idle", "loaded", "copied", "made", "sized"}

\* The parts of a row that actions write.
LEMMA RowTyped ==
    ASSUME NEW r \in Row
    PROVE  /\ \A j \in Job : [r EXCEPT !.job = j] \in Row
           /\ \A p \in Primary : [r EXCEPT !.primary = p] \in Row
           /\ \A j \in Job, p \in Primary : [r EXCEPT !.job = j, !.primary = p] \in Row
           /\ \A a \in Answer : [r EXCEPT !.cached = a] \in Row
           /\ [r EXCEPT !.wacz_size = TRUE] \in Row
           /\ [r EXCEPT !.permanent = TRUE] \in Row
           /\ [r EXCEPT !.primary = "none", !.content = "none", !.cached = "no",
                       !.user_deleted = TRUE] \in Row
           /\ \A c \in Content, s \in BOOLEAN :
                 [r EXCEPT !.warc_size = FALSE, !.wacz_size = TRUE, !.primary = "success",
                           !.content = c, !.superseded = s] \in Row
  <1> USE DEF Row, Job, Primary, Answer, Content
  <1>1. \A j \in Job : [r EXCEPT !.job = j] \in Row
    OBVIOUS
  <1>2. \A p \in Primary : [r EXCEPT !.primary = p] \in Row
    OBVIOUS
  <1>3. \A j \in Job, p \in Primary : [r EXCEPT !.job = j, !.primary = p] \in Row
    OBVIOUS
  <1>4. \A a \in Answer : [r EXCEPT !.cached = a] \in Row
    OBVIOUS
  <1>5. /\ [r EXCEPT !.wacz_size = TRUE] \in Row
        /\ [r EXCEPT !.permanent = TRUE] \in Row
    OBVIOUS
  <1>6. [r EXCEPT !.primary = "none", !.content = "none", !.cached = "no",
                  !.user_deleted = TRUE] \in Row
    OBVIOUS
  <1>7. \A c \in Content, s \in BOOLEAN :
           [r EXCEPT !.warc_size = FALSE, !.wacz_size = TRUE, !.primary = "success",
                     !.content = c, !.superseded = s] \in Row
    OBVIOUS
  <1> QED
    BY <1>1, <1>2, <1>3, <1>4, <1>5, <1>6, <1>7

\* The parts of a link's files that actions write.
LEMMA StoreTyped ==
    ASSUME NEW s \in Store
    PROVE  /\ \A c \in Content, b \in BOOLEAN : [s EXCEPT !.wacz = c, !.converted = b] \in Store
           /\ SetAside(s) \in Store
  <1>1. s.aside \cup ({s.warc, s.wacz} \ {"none"}) \in SUBSET Content /\ "none" \in Content
    BY DEF Store, Content
  <1>2. \A c \in Content, b \in BOOLEAN : [s EXCEPT !.wacz = c, !.converted = b] \in Store
    BY DEF Store
  <1>3. SetAside(s) \in Store
    BY <1>1 DEF Store, SetAside
  <1> QED
    BY <1>2, <1>3

\* The parts of a PATCH, a conversion and the history that actions write.
LEMMA PatchTyped ==
    /\ NoPatch \in Patch
    /\ \A f \in Files : [stage |-> "open", file |-> f] \in Patch
    /\ \A p \in Patch, x \in PatchStage : [p EXCEPT !.stage = x] \in Patch
  BY DEF NoPatch, Patch, PatchStage

LEMMA ConversionTyped ==
    /\ Idle \in Conversion
    /\ \A l \in Links, k \in {"view", "benchmark"} :
          [Idle EXCEPT !.stage = "loaded", !.link = l, !.kind = k] \in Conversion
    /\ \A c \in Conversion, x \in Stage : [c EXCEPT !.stage = x] \in Conversion
    /\ \A c \in Conversion, x \in Stage, y \in Content :
          /\ [c EXCEPT !.stage = x, !.copy = y] \in Conversion
          /\ [c EXCEPT !.stage = x, !.wacz = y] \in Conversion
  BY ZenonT(60) DEF Idle, Conversion, Stage, Content

LEMMA PastTyped ==
    ASSUME NEW p \in Past, NEW b \in BOOLEAN
    PROVE  /\ [p EXCEPT !.straddled = b] \in Past
           /\ [p EXCEPT !.torn = b] \in Past
           /\ [p EXCEPT !.kept = b] \in Past
  BY DEF Past

\* Rows and files have their types at first.
LEMMA TypeInit == Init => TypeOK
  <1> SUFFICES ASSUME Init PROVE TypeOK
    OBVIOUS
  <1>1. OldRow \in Row /\ NewRow \in Row
    BY DEF OldRow, NewRow, Row, Content, Answer
  <1>2. row \in [Links -> Row]
    BY <1>1 DEF Init
  <1>3. store \in [Links -> Store]
    BY DEF Init, Store, Content
  <1> QED
    BY <1>2, <1>3, PatchTyped, ConversionTyped DEF Init, TypeOK, Past, Answer

\* Every step of a capture keeps the types.
LEMMA CaptureTypes ==
    ASSUME TypeOK, NEW l \in Links,
           \/ StartCapture(l) \/ CleanUp(l) \/ SizeArchive(l) \/ StoreArchive(l)
           \/ Describe(l) \/ Complete(l) \/ FailCapture(l)
    PROVE  TypeOK'
  <1> USE DEF TypeOK, captureVars
  <1>1. row[l] \in Row /\ store[l] \in Store
    OBVIOUS
  <1>2. CASE StartCapture(l)
    BY <1>1, <1>2, RowTyped, ZenonT(60) DEF StartCapture, Job
  <1>3. CASE CleanUp(l)
    BY <1>1, <1>3, RowTyped DEF CleanUp, Job
  <1>4. CASE SizeArchive(l)
    BY <1>1, <1>4, RowTyped DEF SizeArchive
  <1>5. CASE StoreArchive(l)
    <2>1. [store[l] EXCEPT !.wacz = "capture", !.converted = FALSE] \in Store
      BY <1>1, StoreTyped DEF Content
    <2> QED
      BY <1>5, <2>1 DEF StoreArchive
  <1>6. CASE Describe(l)
    BY <1>1, <1>6, RowTyped DEF Describe, Primary
  <1>7. CASE Complete(l)
    BY <1>1, <1>7, RowTyped DEF Complete, Job
  <1>8. CASE FailCapture(l)
    <2>1. /\ "failed" \in Job
          /\ (IF row[l].primary = "pending" THEN "failed" ELSE row[l].primary) \in Primary
      BY <1>1 DEF Row, Primary, Job
    <2>2. [row[l] EXCEPT !.job = "failed", !.primary = IF @ = "pending" THEN "failed" ELSE @]
             \in Row
      BY <1>1, <2>1, RowTyped
    <2> QED
      BY <1>8, <2>2 DEF FailCapture
  <1> QED
    BY <1>2, <1>3, <1>4, <1>5, <1>6, <1>7, <1>8

\* Every step of a request, of the calendar and of the playback status.
LEMMA RequestTypes ==
    ASSUME TypeOK, NEW l \in Links,
           \/ Patching(l) \/ CheckDelete(l) \/ Delete(l) \/ DayPasses(l) \/ Caching(l)
           \/ View(l) \/ Benchmark(l) \/ \E f \in Files : OpenPatch(l, f)
    PROVE  TypeOK'
  <1> USE PatchTyped DEF TypeOK, patchVars, cacheVars, convVars
  <1>1. row[l] \in Row /\ store[l] \in Store /\ patch[l] \in Patch /\ past[l] \in Past
    OBVIOUS
  <1>2. CASE MoveAside(l)
    <2>1. SetAside(store[l]) \in Store /\ [patch[l] EXCEPT !.stage = "aside"] \in Patch
      BY <1>1, StoreTyped DEF PatchStage
    <2> QED
      BY <1>2, <2>1 DEF MoveAside
  <1>3. CASE WriteFile(l)
    <2>1. patch[l].file \in Content
      BY <1>1 DEF Patch, Content
    <2>2. /\ [store[l] EXCEPT !.wacz = patch[l].file, !.converted = FALSE] \in Store
          /\ [patch[l] EXCEPT !.stage = "written"] \in Patch
      BY <1>1, <2>1, StoreTyped DEF PatchStage
    <2> QED
      BY <1>3, <2>2 DEF WriteFile
  <1>4. CASE CommitPatch(l)
    <2>1. patch[l].file \in Content
      BY <1>1 DEF Patch, Content
    <2>2. [row[l] EXCEPT !.warc_size = FALSE, !.wacz_size = TRUE, !.primary = "success",
                         !.content = patch[l].file, !.superseded = row[l].job # "none"] \in Row
      BY <1>1, <2>1, RowTyped
    <2> QED
      BY <1>4, <2>2 DEF CommitPatch
  <1>5. CASE FailPatch(l)
    <2>1. [past[l] EXCEPT !.torn = @ \/ patch[l].stage # "open"] \in Past
      BY <1>1 DEF Past
    <2> QED
      BY <1>5, <2>1 DEF FailPatch
  <1>6. CASE CheckDelete(l)
    BY <1>6 DEF CheckDelete
  <1>7. CASE Delete(l)
    BY <1>1, <1>7, RowTyped DEF Delete
  <1>8. CASE DayPasses(l)
    <2>1. /\ [row[l] EXCEPT !.permanent = TRUE] \in Row
          /\ [past[l] EXCEPT !.straddled = \/ row[l].job \in {"pending", "in_progress"}
                                          \/ ~Unlocked(l) \/ deleting[l]] \in Past
      BY <1>1, RowTyped, PastTyped DEF Unlocked
    <2> QED
      BY <1>8, <2>1 DEF DayPasses
  <1>9. CASE LoadStatus(l)
    BY <1>9 DEF LoadStatus, Answer
  <1>10. CASE SaveStatus(l)
    <2>1. [row[l] EXCEPT !.cached = caching[l]] \in Row
      BY <1>1, RowTyped
    <2> QED
      BY <1>10, <2>1 DEF SaveStatus, Answer
  <1>11. CASE View(l)
    BY <1>11 DEF View
  <1>12. CASE Benchmark(l)
    BY <1>12 DEF Benchmark
  <1>13. CASE \E f \in Files : OpenPatch(l, f)
    BY <1>13 DEF OpenPatch
  <1> QED
    BY <1>2, <1>3, <1>4, <1>5, <1>6, <1>7, <1>8, <1>9, <1>10, <1>11, <1>12, <1>13
    DEF Patching, Caching

\* A converter that works has a link.
LEMMA Working ==
    ASSUME TypeOK, NEW w \in Converters, ConverterInv(w), conv[w].stage # "idle"
    PROVE  /\ conv[w].link \in Links /\ conv[w].copy \in Content /\ conv[w].wacz \in Content
           /\ row[conv[w].link] \in Row /\ store[conv[w].link] \in Store
           /\ past[conv[w].link] \in Past
  <1>1. conv[w] \in Conversion
    BY DEF TypeOK
  <1>2. conv[w].link \in Links \cup {NoLink} /\ conv[w].link # NoLink
    BY <1>1 DEF Conversion, ConverterInv
  <1> QED
    BY <1>1, <1>2 DEF Conversion, TypeOK

\* Every step of a converter.
LEMMA ConverterTypes ==
    ASSUME TypeOK, NEW w \in Converters, ConverterInv(w),
           \/ CopyWarc(w) \/ Make(w) \/ SaveSize(w) \/ StoreWacz(w) \/ LoseConverter(w)
           \/ \E l \in Links, k \in {"view", "benchmark"} : Convert(w, l, k)
    PROVE  TypeOK'
  <1> USE ConversionTyped DEF TypeOK, convVars, End, At
  <1>1. conv[w] \in Conversion
    OBVIOUS
  <1>2. CASE CopyWarc(w)
    <2>1. store[conv[w].link].warc \in Content
      BY <1>2, Working DEF CopyWarc, Store
    <2>2. [conv[w] EXCEPT !.stage = "copied", !.copy = store[conv[w].link].warc] \in Conversion
      BY <1>1, <2>1 DEF Stage
    <2> QED
      BY <1>2, <2>2 DEF CopyWarc
  <1>3. CASE Make(w)
    <2>1. PICK wacz \in {"none", "broken", conv[w].copy} :
             /\ conv' = [conv EXCEPT ![w].stage = "made", ![w].wacz = wacz] \/ End(w)
             /\ UNCHANGED <<row, store, queue, past, convVars>>
      BY <1>3 DEF Make
    <2>2. wacz \in Content /\ "made" \in Stage
      <3>1. conv[w].copy \in Content
        BY <1>1 DEF Conversion
      <3> QED
        BY <2>1, <3>1 DEF Content, Stage
    <2>3. [conv[w] EXCEPT !.stage = "made", !.wacz = wacz] \in Conversion
      BY <1>1, <2>2
    <2> QED
      BY <2>1, <2>3
  <1>4. CASE SaveSize(w)
    <2> DEFINE l == conv[w].link
    <2>1. [conv[w] EXCEPT !.stage = "sized"] \in Conversion
      BY <1>1 DEF Stage
    <2>2. l \in Links
      BY <1>4, Working DEF SaveSize
    <2>3. [row[l] EXCEPT !.wacz_size = TRUE] \in Row
      BY <2>2, RowTyped
    <2>4. [past[l] EXCEPT !.kept = @ \/ (conv[w].kind = "benchmark"
                                         /\ ~Success(w, conv[w].wacz))] \in Past
      <3>1. past[l].kept \in BOOLEAN /\ past[l] \in Past
        BY <2>2 DEF Past
      <3> QED
        BY <3>1, PastTyped DEF Success
    <2> HIDE DEF l
    <2>5. /\ row' = [row EXCEPT ![l].wacz_size = TRUE]
          /\ past' = [past EXCEPT ![l].kept = @ \/ (conv[w].kind = "benchmark"
                                                     /\ ~Success(w, conv[w].wacz))]
          /\ conv' = [conv EXCEPT ![w].stage = "sized"]
          /\ UNCHANGED <<store, queue, convVars>>
      BY <1>4 DEF SaveSize, l
    <2> QED
      BY <2>1, <2>2, <2>3, <2>4, <2>5
  <1>5. CASE StoreWacz(w)
    <2>1. /\ conv[w].wacz \in Content /\ conv[w].link \in Links
          /\ store[conv[w].link] \in Store
      BY <1>5, Working DEF StoreWacz
    <2>2. [store[conv[w].link] EXCEPT !.wacz = conv[w].wacz, !.converted = TRUE] \in Store
      BY <2>1, StoreTyped
    <2> QED
      BY <1>5, <2>1, <2>2 DEF StoreWacz
  <1>6. CASE LoseConverter(w)
    <2>1. [past[conv[w].link] EXCEPT !.torn = TRUE] \in Past
      BY <1>6, Working, PastTyped DEF LoseConverter, ConverterInv
    <2>2. past' \in [Links -> Past]
      BY <1>6, <2>1 DEF LoseConverter
    <2> QED
      BY <1>6, <2>2 DEF LoseConverter
  <1>7. CASE \E l \in Links, k \in {"view", "benchmark"} : Convert(w, l, k)
    <2>1. PICK l \in Links, k \in {"view", "benchmark"} : Convert(w, l, k)
      BY <1>7
    <2>2. [Idle EXCEPT !.stage = "loaded", !.link = l, !.kind = k] \in Conversion
      OBVIOUS
    <2>3. conv' \in [Converters -> Conversion] /\ queue' \in [Links -> SUBSET {"view", "benchmark"}]
      BY <2>1, <2>2 DEF Convert
    <2> QED
      BY <2>1, <2>3 DEF Convert
  <1> QED
    BY <1>2, <1>3, <1>4, <1>5, <1>6, <1>7

\* Every step keeps the types.
LEMMA TypeStep ==
    ASSUME TypeOK, \A w \in Converters : ConverterInv(w), [Next]_vars
    PROVE  TypeOK'
  <1>1. CASE UNCHANGED vars
    BY <1>1 DEF vars, TypeOK
  <1> QED
    BY <1>1, CaptureTypes, RequestTypes, ConverterTypes DEF Next

----------------------------------------------------------------------------
(* Every step keeps the invariant.  What a capture, a request or a task    *)
(* does is about one link; what a converter does is about the link it      *)
(* works on.                                                               *)

\* What the steps about a link leave alone of another one.
Same(l) ==
    /\ row'[l] = row[l] /\ store'[l] = store[l] /\ capture'[l] = capture[l]
    /\ patch'[l] = patch[l] /\ deleting'[l] = deleting[l] /\ caching'[l] = caching[l]
    /\ past'[l] = past[l]

LEMMA LinkFrame ==
    ASSUME NEW l \in Links, LinkInv(l), Same(l), Sound(l)' => Sound(l)
    PROVE  LinkInv(l)'
  BY DEF LinkInv, OldLink, NewLink, NoWarc, CaptureInv, PatchInv, PrimaryInv, StatusInv,
         StatusTrue, Playable, Same

LEMMA ConverterFrame ==
    ASSUME NEW w \in Converters, ConverterInv(w), conv'[w] = conv[w],
           LET l == conv[w].link IN
           conv[w].stage # "idle" =>
               /\ row[l].warc_size => row'[l].warc_size
               /\ past[l].kept => past'[l].kept
    PROVE  ConverterInv(w)'
  BY DEF ConverterInv

\* What a converter does leaves the other links' files as trustworthy as they were.
LEMMA OtherSound ==
    ASSUME NEW w \in Converters, NEW k \in Links, k # conv[w].link, Same(k),
           \A v \in Converters \ {w} : conv'[v] = conv[v]
    PROVE  Sound(k)' => Sound(k)
  <1>1. Sizing(k) => Sizing(k)'
    <2> SUFFICES ASSUME Sizing(k) PROVE Sizing(k)'
      OBVIOUS
    <2>1. PICK v \in Converters : conv[v].link = k /\ conv[v].stage = "sized"
      BY DEF Sizing, At
    <2>2. conv'[v] = conv[v]
      BY <2>1
    <2> QED
      BY <2>1, <2>2 DEF Sizing, At
  <1> QED
    BY <1>1 DEF Sound, Unlocked, Same

\* A step about a link keeps the invariant if it keeps the link's part.
LEMMA LinkStep ==
    ASSUME Inv, NEW l \in Links, conv' = conv, LinkInv(l)',
           row[l].warc_size => row'[l].warc_size, past'[l].kept = past[l].kept,
           \A k \in Links \ {l} : Same(k)
    PROVE  (\A k \in Links : LinkInv(k))' /\ (\A w \in Converters : ConverterInv(w))'
  <1>1. ASSUME NEW k \in Links, k # l PROVE LinkInv(k)'
    <2>1. Same(k) /\ LinkInv(k)
      BY <1>1 DEF Inv
    <2>2. Sound(k)' => Sound(k)
      BY <2>1 DEF Same, Sound, Unlocked, Sizing, At
    <2> QED
      BY <2>1, <2>2, LinkFrame
  <1>2. ASSUME NEW w \in Converters PROVE ConverterInv(w)'
    <2>1. ConverterInv(w) /\ conv[w] \in Conversion
      BY DEF Inv, TypeOK
    <2>2. conv[w].stage # "idle" => conv[w].link \in Links
      BY <2>1 DEF ConverterInv, Conversion
    <2>3. conv[w].stage # "idle" =>
              /\ row[conv[w].link].warc_size => row'[conv[w].link].warc_size
              /\ past[conv[w].link].kept => past'[conv[w].link].kept
      BY <2>2 DEF Same
    <2> QED
      BY <2>1, <2>3, ConverterFrame
  <1> QED
    BY <1>1, <1>2

LEMMA CaptureStep ==
    ASSUME Inv, NEW l \in Links,
           \/ StartCapture(l) \/ CleanUp(l) \/ SizeArchive(l) \/ StoreArchive(l)
           \/ Describe(l) \/ Complete(l) \/ FailCapture(l)
    PROVE  /\ conv' = conv /\ row'[l].warc_size = row[l].warc_size
           /\ past'[l].kept = past[l].kept
           /\ \A k \in Links \ {l} : Same(k)
           /\ LinkInv(l)'
  <1> DEFINE Rest == /\ conv' = conv /\ row'[l].warc_size = row[l].warc_size
                     /\ past'[l].kept = past[l].kept
                     /\ \A k \in Links \ {l} : Same(k)
  <1>1. LinkInv(l) /\ row[l] \in Row /\ store[l] \in Store
    BY DEF Inv, TypeOK
  <1> USE <1>1 DEF TypeOK, captureVars
  <1>2. CASE StartCapture(l)
    <2>1. Rest
      BY <1>2 DEF Inv, StartCapture, Same, Row
    <2>2. (OldLink(l) \/ NewLink(l))'
      <3>1. NewLink(l) /\ patch[l].stage = "none"
        BY <1>2 DEF StartCapture, LinkInv, OldLink, Unlocked
      <3>2. CASE row[l].primary = "pending"
        <4>1. /\ row'[l] = [row[l] EXCEPT !.job = "in_progress"] /\ capture'[l] = "started"
              /\ store'[l] = store[l] /\ patch'[l] = patch[l] /\ past'[l] = past[l]
          BY <1>2, <3>2 DEF StartCapture, Inv
        <4> QED
          BY <3>1, <3>2, <4>1 DEF NewLink, NoWarc, CaptureInv, PatchInv, PrimaryInv, Row
      <3>3. CASE row[l].primary # "pending"
        <4>1. /\ row'[l] = [row[l] EXCEPT !.job = "deleted"] /\ capture'[l] = capture[l]
              /\ store'[l] = store[l] /\ patch'[l] = patch[l] /\ past'[l] = past[l]
          BY <1>2, <3>3 DEF StartCapture, Inv
        <4> QED
          BY <1>2, <3>1, <4>1 DEF StartCapture, NewLink, NoWarc, CaptureInv, PatchInv, PrimaryInv, Row
      <3> QED
        BY <3>2, <3>3
    <2>3. StatusInv(l)' /\ StatusTrue(l)'
      BY <1>2 DEF Inv, StartCapture, LinkInv, OldLink, NewLink, CaptureInv, StatusInv, StatusTrue, Playable, Row
    <2> QED
      BY <2>1, <2>2, <2>3 DEF LinkInv
  <1>3. CASE CleanUp(l)
    <2>1. Rest
      BY <1>3 DEF Inv, CleanUp, Same, Row
    <2>2. (OldLink(l) \/ NewLink(l))'
      BY <1>3 DEF Inv, CleanUp, LinkInv, OldLink, NewLink, NoWarc, CaptureInv, PatchInv, PrimaryInv, Row, Store, Unlocked
    <2>3. StatusInv(l)' /\ StatusTrue(l)'
      BY <1>3 DEF Inv, CleanUp, LinkInv, OldLink, NewLink, CaptureInv, StatusInv, StatusTrue, Playable, Row
    <2> QED
      BY <2>1, <2>2, <2>3 DEF LinkInv
  <1>4. CASE SizeArchive(l)
    <2>1. Rest
      BY <1>4 DEF Inv, SizeArchive, Same, Row
    <2>2. (OldLink(l) \/ NewLink(l))'
      BY <1>4 DEF Inv, SizeArchive, LinkInv, OldLink, NewLink, NoWarc, CaptureInv, PatchInv, PrimaryInv, Row, Store, Unlocked
    <2>3. StatusInv(l)' /\ StatusTrue(l)'
      BY <1>4 DEF Inv, SizeArchive, LinkInv, OldLink, NewLink, CaptureInv, StatusInv, StatusTrue, Playable, Row
    <2> QED
      BY <2>1, <2>2, <2>3 DEF LinkInv
  <1>5. CASE StoreArchive(l)
    <2>1. Rest
      BY <1>5 DEF Inv, StoreArchive, Same, Row
    <2>2. (OldLink(l) \/ NewLink(l))'
      BY <1>5 DEF Inv, StoreArchive, LinkInv, OldLink, NewLink, NoWarc, CaptureInv, PatchInv, PrimaryInv, Row, Store, Unlocked
    <2>3. StatusInv(l)' /\ StatusTrue(l)'
      BY <1>5 DEF Inv, StoreArchive, LinkInv, OldLink, NewLink, CaptureInv, StatusInv, StatusTrue, Playable, Row
    <2> QED
      BY <2>1, <2>2, <2>3 DEF LinkInv
  <1>6. CASE Describe(l)
    <2>1. Rest
      BY <1>6 DEF Inv, Describe, Same, Row
    <2>2. (OldLink(l) \/ NewLink(l))'
      BY <1>6 DEF Inv, Describe, LinkInv, OldLink, NewLink, NoWarc, CaptureInv, PatchInv, PrimaryInv, Row, Store, Unlocked
    <2>3. StatusInv(l)' /\ StatusTrue(l)'
      BY <1>6 DEF Inv, Describe, LinkInv, OldLink, NewLink, CaptureInv, StatusInv, StatusTrue, Playable, Row
    <2> QED
      BY <2>1, <2>2, <2>3 DEF LinkInv
  <1>7. CASE Complete(l)
    <2>1. Rest
      BY <1>7 DEF Inv, Complete, Same, Row
    <2>2. (OldLink(l) \/ NewLink(l))'
      BY <1>7 DEF Inv, Complete, LinkInv, OldLink, NewLink, NoWarc, CaptureInv, PatchInv, PrimaryInv, Row, Store, Unlocked
    <2>3. StatusInv(l)' /\ StatusTrue(l)'
      BY <1>7 DEF Inv, Complete, LinkInv, OldLink, NewLink, CaptureInv, StatusInv, StatusTrue, Playable, Row
    <2> QED
      BY <2>1, <2>2, <2>3 DEF LinkInv
  <1>8. CASE FailCapture(l)
    <2>1. Rest
      BY <1>8 DEF Inv, FailCapture, Same, Row
    <2>2. (OldLink(l) \/ NewLink(l))'
      BY <1>8 DEF Inv, FailCapture, LinkInv, OldLink, NewLink, NoWarc, CaptureInv, PatchInv, PrimaryInv, Row, Store, Unlocked
    <2>3. StatusInv(l)' /\ StatusTrue(l)'
      BY <1>8 DEF Inv, FailCapture, LinkInv, OldLink, NewLink, CaptureInv, StatusInv, StatusTrue, Playable, Row
    <2> QED
      BY <2>1, <2>2, <2>3 DEF LinkInv
  <1> QED
    BY <1>2, <1>3, <1>4, <1>5, <1>6, <1>7, <1>8

LEMMA RequestStep ==
    ASSUME Inv, NEW l \in Links,
           \/ Patching(l) \/ CheckDelete(l) \/ Delete(l) \/ DayPasses(l) \/ Caching(l)
           \/ View(l) \/ Benchmark(l) \/ \E f \in Files : OpenPatch(l, f)
    PROVE  /\ conv' = conv /\ (row[l].warc_size => row'[l].warc_size)
           /\ past'[l].kept = past[l].kept
           /\ \A k \in Links \ {l} : Same(k)
           /\ LinkInv(l)'
  <1> DEFINE Rest == /\ conv' = conv /\ (row[l].warc_size => row'[l].warc_size)
                     /\ past'[l].kept = past[l].kept
                     /\ \A k \in Links \ {l} : Same(k)
  <1>1. LinkInv(l) /\ row[l] \in Row /\ store[l] \in Store
    BY DEF Inv, TypeOK
  <1> USE <1>1 DEF TypeOK, patchVars, cacheVars, convVars
  <1>2. CASE MoveAside(l)
    <2>1. Rest
      BY <1>2 DEF Inv, MoveAside, Same, Row, Past
    <2>2. (OldLink(l) \/ NewLink(l))'
      BY <1>2 DEF Inv, MoveAside, SetAside, LinkInv, OldLink, NewLink, NoWarc, CaptureInv, PatchInv, PrimaryInv, Row, Store, Past, Unlocked, Sound, Sizing, At
    <2>3. StatusInv(l)' /\ StatusTrue(l)'
      BY <1>2 DEF Inv, MoveAside, SetAside, LinkInv, OldLink, NewLink, CaptureInv, PatchInv, PrimaryInv, StatusInv, StatusTrue, Playable, Row, Past, Unlocked
    <2> QED
      BY <2>1, <2>2, <2>3 DEF LinkInv
  <1>3. CASE WriteFile(l)
    <2>1. Rest
      BY <1>3 DEF Inv, WriteFile, Same, Row, Past
    <2>2. (OldLink(l) \/ NewLink(l))'
      BY <1>3 DEF Inv, WriteFile, LinkInv, OldLink, NewLink, NoWarc, CaptureInv, PatchInv, PrimaryInv, Row, Store, Past, Unlocked, Sound, Sizing, At
    <2>3. StatusInv(l)' /\ StatusTrue(l)'
      BY <1>3 DEF Inv, WriteFile, LinkInv, OldLink, NewLink, CaptureInv, PatchInv, PrimaryInv, StatusInv, StatusTrue, Playable, Row, Past, Unlocked
    <2> QED
      BY <2>1, <2>2, <2>3 DEF LinkInv
  <1>4. CASE CommitPatch(l)
    <2>1. Rest
      BY <1>4 DEF Inv, CommitPatch, Same, Row, Past, LinkInv, OldLink, NewLink, NoWarc
    <2>2. (OldLink(l) \/ NewLink(l))'
      BY <1>4 DEF Inv, CommitPatch, NoPatch, Patch, LinkInv, OldLink, NewLink, NoWarc, CaptureInv, PatchInv, PrimaryInv, Row, Store, Past, Unlocked, Sound, Sizing, At
    <2>3. StatusInv(l)' /\ StatusTrue(l)'
      BY <1>4 DEF Inv, CommitPatch, NoPatch, Patch, LinkInv, OldLink, NewLink, CaptureInv, PatchInv, PrimaryInv, StatusInv, StatusTrue, Playable, Row, Past, Unlocked
    <2> QED
      BY <2>1, <2>2, <2>3 DEF LinkInv
  <1>5. CASE FailPatch(l)
    <2>1. Rest
      BY <1>5 DEF Inv, FailPatch, Same, Row, Past
    <2>2. (OldLink(l) \/ NewLink(l))'
      <3>1. NewLink(l)
        BY <1>5 DEF FailPatch, LinkInv, OldLink
      <3>2. /\ row'[l] = row[l] /\ store'[l] = store[l] /\ capture'[l] = capture[l]
            /\ patch'[l].stage = "none"
            /\ ~past'[l].torn => ~past[l].torn /\ patch[l].stage = "open"
        BY <1>5 DEF Inv, FailPatch, NoPatch, Past
      <3> QED
        BY <3>1, <3>2 DEF NewLink, NoWarc, CaptureInv, PatchInv, PrimaryInv
    <2>3. StatusInv(l)' /\ StatusTrue(l)'
      BY <1>5 DEF Inv, FailPatch, NoPatch, LinkInv, OldLink, NewLink, CaptureInv, PatchInv, PrimaryInv, StatusInv, StatusTrue, Playable, Row, Past, Unlocked
    <2> QED
      BY <2>1, <2>2, <2>3 DEF LinkInv
  <1>6. CASE CheckDelete(l)
    <2>1. Rest
      BY <1>6 DEF Inv, CheckDelete, Same, Row, Past
    <2>2. (OldLink(l) \/ NewLink(l))'
      BY <1>6 DEF Inv, CheckDelete, LinkInv, OldLink, NewLink, NoWarc, CaptureInv, PatchInv, PrimaryInv, Row, Store, Past, Unlocked, Sound, Sizing, At
    <2>3. StatusInv(l)' /\ StatusTrue(l)'
      BY <1>6 DEF Inv, CheckDelete, LinkInv, OldLink, NewLink, CaptureInv, PatchInv, PrimaryInv, StatusInv, StatusTrue, Playable, Row, Past, Unlocked
    <2> QED
      BY <2>1, <2>2, <2>3 DEF LinkInv
  <1>7. CASE Delete(l)
    <2>1. Rest
      BY <1>7 DEF Inv, Delete, Same, Row, Past
    <2>2. (OldLink(l) \/ NewLink(l))'
      BY <1>7 DEF Inv, Delete, LinkInv, OldLink, NewLink, NoWarc, CaptureInv, PatchInv, PrimaryInv, Row, Store, Past, Unlocked, Sound, Sizing, At
    <2>3. StatusInv(l)' /\ StatusTrue(l)'
      BY <1>7 DEF Inv, Delete, LinkInv, OldLink, NewLink, CaptureInv, PatchInv, PrimaryInv, StatusInv, StatusTrue, Playable, Row, Past, Unlocked
    <2> QED
      BY <2>1, <2>2, <2>3 DEF LinkInv
  <1>8. CASE DayPasses(l)
    <2>1. Rest
      BY <1>8 DEF Inv, DayPasses, Same, Row, Past
    <2>2. (OldLink(l) \/ NewLink(l))'
      BY <1>8 DEF Inv, DayPasses, LinkInv, OldLink, NewLink, NoWarc, CaptureInv, PatchInv, PrimaryInv, Row, Store, Past, Unlocked, Sound, Sizing, At
    <2>3. StatusInv(l)' /\ StatusTrue(l)'
      <3>1. /\ row'[l] = [row[l] EXCEPT !.permanent = TRUE] /\ ~row[l].permanent
            /\ patch'[l] = patch[l] /\ deleting'[l] = deleting[l] /\ caching'[l] = caching[l]
            /\ past'[l].straddled = (\/ row[l].job \in {"pending", "in_progress"}
                                     \/ patch[l].stage # "none" \/ deleting[l])
        BY <1>8 DEF Inv, DayPasses, Past, Unlocked
      <3>2. caching[l] = "unknown" /\ (row[l].cached # "unknown" => row[l].user_deleted)
        BY <3>1 DEF LinkInv, StatusInv
      <3>3. row[l].cached = "yes" => ~Playable(l)
        BY <3>2 DEF Playable
      <3>4. row[l].user_deleted => row[l].cached # "yes"
        BY <3>1 DEF LinkInv, StatusInv, StatusTrue, Playable
      <3> QED
        BY <3>1, <3>2, <3>4 DEF LinkInv, StatusInv, StatusTrue, Playable, Row
    <2> QED
      BY <2>1, <2>2, <2>3 DEF LinkInv
  <1>9. CASE LoadStatus(l)
    <2>1. Rest
      BY <1>9 DEF Inv, LoadStatus, Same, Row, Past
    <2>2. (OldLink(l) \/ NewLink(l))'
      BY <1>9 DEF Inv, LoadStatus, Uncached, can_play_back, LinkInv, OldLink, NewLink, NoWarc, CaptureInv, PatchInv, PrimaryInv, Row, Store, Past, Unlocked, Sound, Sizing, At
    <2>3. StatusInv(l)' /\ StatusTrue(l)'
      BY <1>9 DEF Inv, LoadStatus, Uncached, can_play_back, LinkInv, OldLink, NewLink, CaptureInv, PatchInv, PrimaryInv, StatusInv, StatusTrue, Playable, Row, Past, Unlocked
    <2> QED
      BY <2>1, <2>2, <2>3 DEF LinkInv
  <1>10. CASE SaveStatus(l)
    <2>1. Rest
      BY <1>10 DEF Inv, SaveStatus, Same, Row, Past
    <2>2. (OldLink(l) \/ NewLink(l))'
      BY <1>10 DEF Inv, SaveStatus, LinkInv, OldLink, NewLink, NoWarc, CaptureInv, PatchInv, PrimaryInv, Row, Store, Past, Unlocked, Sound, Sizing, At
    <2>3. StatusInv(l)' /\ StatusTrue(l)'
      BY <1>10 DEF Inv, SaveStatus, LinkInv, OldLink, NewLink, CaptureInv, PatchInv, PrimaryInv, StatusInv, StatusTrue, Playable, Row, Past, Unlocked
    <2> QED
      BY <2>1, <2>2, <2>3 DEF LinkInv
  <1>11. CASE View(l)
    <2>1. Rest
      BY <1>11 DEF Inv, View, Same, Row, Past
    <2>2. (OldLink(l) \/ NewLink(l))'
      BY <1>11 DEF Inv, View, LinkInv, OldLink, NewLink, NoWarc, CaptureInv, PatchInv, PrimaryInv, Row, Store, Past, Unlocked, Sound, Sizing, At
    <2>3. StatusInv(l)' /\ StatusTrue(l)'
      BY <1>11 DEF Inv, View, LinkInv, OldLink, NewLink, CaptureInv, PatchInv, PrimaryInv, StatusInv, StatusTrue, Playable, Row, Past, Unlocked
    <2> QED
      BY <2>1, <2>2, <2>3 DEF LinkInv
  <1>12. CASE Benchmark(l)
    <2>1. Rest
      BY <1>12 DEF Inv, Benchmark, Same, Row, Past
    <2>2. (OldLink(l) \/ NewLink(l))'
      BY <1>12 DEF Inv, Benchmark, LinkInv, OldLink, NewLink, NoWarc, CaptureInv, PatchInv, PrimaryInv, Row, Store, Past, Unlocked, Sound, Sizing, At
    <2>3. StatusInv(l)' /\ StatusTrue(l)'
      BY <1>12 DEF Inv, Benchmark, LinkInv, OldLink, NewLink, CaptureInv, PatchInv, PrimaryInv, StatusInv, StatusTrue, Playable, Row, Past, Unlocked
    <2> QED
      BY <2>1, <2>2, <2>3 DEF LinkInv
  <1>13. ASSUME NEW f \in Files, OpenPatch(l, f) PROVE Rest /\ LinkInv(l)'
    <2>1. Rest
      BY <1>13 DEF Inv, OpenPatch, Same
    <2>2. (OldLink(l) \/ NewLink(l))'
      BY <1>13, ArchivesAssumption DEF Inv, OpenPatch, MayReplace, LinkInv, OldLink, NewLink, NoWarc, CaptureInv, PatchInv, PrimaryInv, Unlocked
    <2>3. StatusInv(l)' /\ StatusTrue(l)'
      BY <1>13 DEF Inv, OpenPatch, MayReplace, LinkInv, StatusInv, StatusTrue, Playable
    <2> QED
      BY <2>1, <2>2, <2>3 DEF LinkInv
  <1> QED
    BY <1>2, <1>3, <1>4, <1>5, <1>6, <1>7, <1>8, <1>9, <1>10, <1>11, <1>12, <1>13 DEF Patching, Caching

\* A converter that changes nothing but its own state, before and after it saves a
\* size, keeps the invariant of every link.
LEMMA LoadingStep ==
    ASSUME Inv, NEW w \in Converters, UNCHANGED <<row, store, past, convVars>>,
           \A v \in Converters \ {w} : conv'[v] = conv[v],
           ConverterInv(w)', conv[w].stage # "sized", conv'[w].stage # "sized"
    PROVE  (\A k \in Links : LinkInv(k))' /\ (\A v \in Converters : ConverterInv(v))'
  <1> USE DEF convVars
  <1>1. ASSUME NEW k \in Links PROVE LinkInv(k)'
    <2>1. Same(k) /\ LinkInv(k)
      BY DEF Inv, Same
    <2>2. Sizing(k)' <=> Sizing(k)
      BY DEF Sizing, At
    <2>3. Sound(k)' => Sound(k)
      BY <2>2 DEF Sound, Unlocked
    <2> QED
      BY <2>1, <2>3, LinkFrame
  <1>2. ASSUME NEW v \in Converters, v # w PROVE ConverterInv(v)'
    BY <1>2, ConverterFrame DEF Inv
  <1> QED
    BY <1>1, <1>2

LEMMA ConverterStep ==
    ASSUME Inv, NEW w \in Converters,
           \/ CopyWarc(w) \/ Make(w) \/ SaveSize(w) \/ StoreWacz(w) \/ LoseConverter(w)
           \/ \E l \in Links, k \in {"view", "benchmark"} : Convert(w, l, k)
    PROVE  (\A k \in Links : LinkInv(k))' /\ (\A v \in Converters : ConverterInv(v))'
  <1> USE DEF convVars, At, End
  <1>1. ConverterInv(w) /\ conv[w] \in Conversion /\ conv \in [Converters -> Conversion]
    BY DEF Inv, TypeOK
  <1>2. /\ Idle.stage = "idle" /\ Idle.link = NoLink
        /\ \A k \in Links : k # NoLink
    BY ArchivesAssumption DEF Idle
  <1>3. ASSUME conv'[w] = Idle PROVE ConverterInv(w)'
    BY <1>2, <1>3 DEF ConverterInv
  <1>4. CASE \E l \in Links, k \in {"view", "benchmark"} : Convert(w, l, k)
    <2>1. PICK l \in Links, k \in {"view", "benchmark"} : Convert(w, l, k)
      BY <1>4
    <2>2. conv'[w] = Idle \/ conv'[w] = [Idle EXCEPT !.stage = "loaded", !.link = l, !.kind = k]
      BY <1>1, <2>1 DEF Convert
    <2>3. ConverterInv(w)' /\ conv'[w].stage # "sized"
      BY <1>2, <1>3, <2>2 DEF ConverterInv, Idle
    <2> QED
      BY <1>1, <1>2, <2>1, <2>3, LoadingStep DEF Convert
  <1>5. CASE CopyWarc(w)
    <2>1. conv'[w] = Idle \/ /\ conv'[w] = [conv[w] EXCEPT !.stage = "copied",
                                                          !.copy = store[conv[w].link].warc]
                             /\ store[conv[w].link].warc # "none"
      BY <1>1, <1>5 DEF CopyWarc
    <2>2. LinkInv(conv[w].link)
      BY <1>1, <1>5, Working DEF CopyWarc, Inv
    <2>3. ConverterInv(w)' /\ conv'[w].stage # "sized"
      BY <1>1, <1>2, <1>3, <1>5, <2>1, <2>2
      DEF CopyWarc, ConverterInv, Conversion, LinkInv, OldLink, NewLink, NoWarc
    <2> QED
      BY <1>1, <1>5, <2>3, LoadingStep DEF CopyWarc
  <1>6. CASE Make(w)
    <2>1. PICK wacz \in {"none", "broken", conv[w].copy} :
             \/ conv'[w] = Idle
             \/ /\ conv'[w] = [conv[w] EXCEPT !.stage = "made", !.wacz = wacz]
                /\ wacz = conv[w].copy \/ conv[w].kind = "benchmark"
      BY <1>1, <1>6 DEF Make, Success
    <2>2. ConverterInv(w)' /\ conv'[w].stage # "sized"
      <3>1. conv[w].stage = "copied"
        BY <1>6 DEF Make
      <3>2. CASE conv'[w] = Idle
        BY <1>2, <1>3, <3>2
      <3>3. CASE /\ conv'[w] = [conv[w] EXCEPT !.stage = "made", !.wacz = wacz]
                 /\ wacz = conv[w].copy \/ conv[w].kind = "benchmark"
        <4>1. /\ conv'[w].stage = "made" /\ conv'[w].wacz = wacz
              /\ conv'[w].link = conv[w].link /\ conv'[w].kind = conv[w].kind
              /\ conv'[w].copy = conv[w].copy
          BY <1>1, <3>3 DEF Conversion
        <4>2. row' = row
          BY <1>6 DEF Make
        <4> QED
          BY <1>1, <3>1, <3>3, <4>1, <4>2 DEF ConverterInv
      <3> QED
        BY <2>1, <3>2, <3>3
    <2> QED
      BY <1>1, <1>6, <2>2, LoadingStep DEF Make
  <1>7. CASE SaveSize(w)
    <2>1. PICK l \in Links :
             l = conv[w].link /\ row[l] \in Row /\ past[l] \in Past /\ LinkInv(l)
      BY <1>1, <1>7, Working DEF SaveSize, Inv
    <2>2. /\ row[l].warc_size /\ OldLink(l)
      BY <1>1, <1>7, <2>1 DEF SaveSize, ConverterInv, LinkInv, NewLink, NoWarc
    <2>3. /\ row'[l] = [row[l] EXCEPT !.wacz_size = TRUE]
          /\ conv'[w] = [conv[w] EXCEPT !.stage = "sized"]
          /\ UNCHANGED <<store, queue, convVars>>
          /\ \A k \in Links \ {l} : Same(k)
      BY <1>1, <1>7, <2>1 DEF SaveSize, Inv, TypeOK, Same
    <2>4. /\ past'[l].straddled = past[l].straddled
          /\ past[l].kept => past'[l].kept
          /\ ~past'[l].kept => conv[w].kind # "benchmark" \/ conv[w].wacz = conv[w].copy
      <3>1. past \in [Links -> Past]
        BY DEF Inv, TypeOK
      <3>2. past' = [past EXCEPT ![l].kept = @ \/ (conv[w].kind = "benchmark"
                                                 /\ ~Success(w, conv[w].wacz))]
        BY <1>7, <2>1 DEF SaveSize
      <3>3. Success(w, conv[w].wacz) => conv[w].wacz = conv[w].copy
        BY DEF Success
      <3>4. past'[l] = [past[l] EXCEPT !.kept = @ \/ (conv[w].kind = "benchmark"
                                                    /\ ~Success(w, conv[w].wacz))]
        BY <3>1, <3>2
      <3>5. /\ past'[l].straddled = past[l].straddled
            /\ past[l].kept => past'[l].kept
            /\ conv[w].kind = "benchmark" /\ ~Success(w, conv[w].wacz) => past'[l].kept
        BY <2>1, <3>4 DEF Past, Success
      <3> QED
        BY <3>3, <3>5
    <2>5. Sizing(l)'
      BY <1>1, <2>1, <2>3 DEF Sizing, Conversion
    <2>6. LinkInv(l)'
      <3>1. OldLink(l)'
        BY <2>1, <2>2, <2>3, <2>5 DEF OldLink, Sound, Row
      <3>2. StatusInv(l)' /\ StatusTrue(l)'
        BY <2>1, <2>3, <2>4, SMTT(30) DEF LinkInv, StatusInv, StatusTrue, Playable, Row
      <3> QED
        BY <3>1, <3>2 DEF LinkInv
    <2>7. ASSUME NEW k \in Links, k # l PROVE LinkInv(k)'
      <3>1. Sound(k)' => Sound(k)
        BY <1>1, <1>7, <2>1, <2>3, <2>7, OtherSound DEF SaveSize
      <3> QED
        BY <2>3, <2>7, <3>1, LinkFrame DEF Inv
    <2>8. ConverterInv(w)'
      BY <1>1, <1>7, <2>1, <2>2, <2>3, <2>4 DEF SaveSize, ConverterInv, Conversion, Row
    <2>9. ASSUME NEW v \in Converters, v # w PROVE ConverterInv(v)'
      <3>1. conv'[v] = conv[v] /\ ConverterInv(v) /\ conv[v] \in Conversion
        BY <1>1, <1>7, <2>9 DEF SaveSize, Inv
      <3>2. conv[v].stage # "idle" => conv[v].link \in Links
        BY <3>1 DEF ConverterInv, Conversion
      <3>3. conv[v].stage # "idle" =>
                /\ row[conv[v].link].warc_size => row'[conv[v].link].warc_size
                /\ past[conv[v].link].kept => past'[conv[v].link].kept
        BY <2>1, <2>3, <2>4, <3>2 DEF Same, Row
      <3> QED
        BY <3>1, <3>3, ConverterFrame
    <2> QED
      BY <2>6, <2>7, <2>8, <2>9
  <1>8. CASE StoreWacz(w)
    <2>1. PICK l \in Links : l = conv[w].link /\ store[l] \in Store /\ LinkInv(l)
      BY <1>1, <1>8, Working DEF StoreWacz, Inv
    <2>2. OldLink(l) /\ (~past[l].kept => conv[w].wacz = "capture")
      BY <1>1, <1>8, <2>1 DEF StoreWacz, ConverterInv, LinkInv, NewLink, NoWarc
    <2>3. /\ store'[l] = [store[l] EXCEPT !.wacz = conv[w].wacz, !.converted = TRUE]
          /\ conv'[w] = Idle
          /\ UNCHANGED <<row, queue, past, convVars>>
          /\ \A k \in Links \ {l} : Same(k)
      BY <1>1, <1>8, <2>1 DEF StoreWacz, Inv, TypeOK, Same
    <2>4. LinkInv(l)'
      <3>1. OldLink(l)'
        BY <2>1, <2>2, <2>3 DEF OldLink, Sound, Store
      <3>2. StatusInv(l)' /\ StatusTrue(l)'
        BY <2>1, <2>3 DEF LinkInv, StatusInv, StatusTrue, Playable
      <3> QED
        BY <3>1, <3>2 DEF LinkInv
    <2>5. ASSUME NEW k \in Links, k # l PROVE LinkInv(k)'
      <3>1. Sound(k)' => Sound(k)
        BY <1>1, <1>8, <2>1, <2>3, <2>5, OtherSound DEF StoreWacz
      <3> QED
        BY <2>3, <2>5, <3>1, LinkFrame DEF Inv
    <2>6. ConverterInv(w)'
      BY <1>3, <2>3
    <2>7. ASSUME NEW v \in Converters, v # w PROVE ConverterInv(v)'
      BY <1>8, <2>3, <2>7, ConverterFrame DEF StoreWacz, Inv
    <2> QED
      BY <2>4, <2>5, <2>6, <2>7
  <1>9. CASE LoseConverter(w)
    <2> conv[w].stage # "idle"
      BY <1>1, <1>9 DEF LoseConverter, ConverterInv
    <2>1. PICK l \in Links : l = conv[w].link /\ past[l] \in Past /\ LinkInv(l)
      BY <1>1, Working DEF Inv
    <2>2. /\ conv'[w] = Idle
          /\ UNCHANGED <<row, store, queue, convVars>>
          /\ \A k \in Links \ {l} : Same(k)
          /\ past'[l].straddled = past[l].straddled /\ past'[l].kept = past[l].kept
          /\ past[l].torn => past'[l].torn
          /\ past' = past \/ past'[l].torn
      BY <1>1, <1>9, <2>1 DEF LoseConverter, Inv, TypeOK, Same, Past
    <2>3. CASE ~At(w, "sized")
      <3>1. past' = past
        BY <1>9, <2>3 DEF LoseConverter
      <3> QED
        BY <1>2, <1>3, <1>9, <2>2, <2>3, <3>1, LoadingStep DEF LoseConverter
    <2>4. CASE At(w, "sized")
      <3>1. past'[l].torn
        BY <1>9, <2>1, <2>4 DEF LoseConverter, Inv, TypeOK, Past
      <3>2. OldLink(l)
        BY <1>1, <2>1, <2>4 DEF ConverterInv, LinkInv, NewLink, NoWarc
      <3>3. LinkInv(l)'
        <4>1. OldLink(l)'
          BY <2>2, <3>1, <3>2 DEF OldLink, Sound
        <4>2. StatusInv(l)' /\ StatusTrue(l)'
          BY <2>1, <2>2 DEF LinkInv, StatusInv, StatusTrue, Playable
        <4> QED
          BY <4>1, <4>2 DEF LinkInv
      <3>4. ASSUME NEW k \in Links, k # l PROVE LinkInv(k)'
        <4>1. Sound(k)' => Sound(k)
          BY <1>1, <1>9, <2>1, <2>2, <3>4, OtherSound DEF LoseConverter
        <4> QED
          BY <2>2, <3>4, <4>1, LinkFrame DEF Inv
      <3>5. ConverterInv(w)'
        BY <1>3, <2>2
      <3>6. ASSUME NEW v \in Converters, v # w PROVE ConverterInv(v)'
        <4>1. conv'[v] = conv[v] /\ ConverterInv(v) /\ conv[v] \in Conversion
          BY <1>1, <1>9, <3>6 DEF LoseConverter, Inv
        <4>2. conv[v].stage # "idle" => conv[v].link \in Links
          BY <4>1 DEF ConverterInv, Conversion
        <4>3. conv[v].stage # "idle" =>
                  /\ row[conv[v].link].warc_size => row'[conv[v].link].warc_size
                  /\ past[conv[v].link].kept => past'[conv[v].link].kept
          BY <2>1, <2>2, <4>2 DEF Same
        <4> QED
          BY <4>1, <4>3, ConverterFrame
      <3> QED
        BY <3>3, <3>4, <3>5, <3>6
    <2> QED
      BY <2>3, <2>4
  <1> QED
    BY <1>4, <1>5, <1>6, <1>7, <1>8, <1>9

----------------------------------------------------------------------------
(* The theorems.                                                           *)

LEMMA InvInit == Init => Inv
  <1> SUFFICES ASSUME Init PROVE Inv
    OBVIOUS
  <1>1. TypeOK
    BY TypeInit
  <1>2. ASSUME NEW l \in Links PROVE LinkInv(l)
    <2>1. /\ row[l] \in {OldRow, NewRow}
          /\ store[l] = [warc |-> IF row[l].warc_size THEN "capture" ELSE "none",
                         wacz |-> "none", converted |-> FALSE, aside |-> {}]
          /\ capture[l] = "none" /\ patch[l] = NoPatch /\ ~deleting[l]
          /\ caching[l] = "unknown" /\ ~past[l].straddled
      BY DEF Init
    <2>2. CASE row[l] = OldRow
      BY <2>1, <2>2 DEF LinkInv, OldLink, StatusInv, StatusTrue, OldRow, NoPatch
    <2>3. CASE row[l] = NewRow
      BY <2>1, <2>3 DEF LinkInv, NewLink, NoWarc, CaptureInv, PatchInv, PrimaryInv,
                        StatusInv, StatusTrue, NewRow, NoPatch
    <2> QED
      BY <2>1, <2>2, <2>3
  <1>3. ASSUME NEW w \in Converters PROVE ConverterInv(w)
    BY DEF Init, ConverterInv, Idle
  <1> QED
    BY <1>1, <1>2, <1>3 DEF Inv

LEMMA InvStep == Inv /\ [Next]_vars => Inv'
  <1> SUFFICES ASSUME Inv, [Next]_vars PROVE Inv'
    OBVIOUS
  <1>1. TypeOK'
    BY TypeStep DEF Inv
  <1>2. CASE UNCHANGED vars
    <2>1. ASSUME NEW l \in Links PROVE LinkInv(l)'
      <3>1. Same(l) /\ LinkInv(l)
        BY <1>2 DEF vars, Same, Inv
      <3>2. Sound(l)' => Sound(l)
        BY <1>2 DEF vars, Sound, Unlocked, Sizing, At
      <3> QED
        BY <3>1, <3>2, LinkFrame
    <2>2. ASSUME NEW w \in Converters PROVE ConverterInv(w)'
      BY <1>2, ConverterFrame DEF vars, Inv
    <2> QED
      BY <1>1, <2>1, <2>2 DEF Inv
  <1>3. ASSUME NEW l \in Links,
               \/ StartCapture(l) \/ CleanUp(l) \/ SizeArchive(l) \/ StoreArchive(l)
               \/ Describe(l) \/ Complete(l) \/ FailCapture(l)
        PROVE  Inv'
    BY <1>1, <1>3, CaptureStep, LinkStep DEF Inv
  <1>4. ASSUME NEW l \in Links,
               \/ Patching(l) \/ CheckDelete(l) \/ Delete(l) \/ DayPasses(l) \/ Caching(l)
               \/ View(l) \/ Benchmark(l) \/ \E f \in Files : OpenPatch(l, f)
        PROVE  Inv'
    BY <1>1, <1>4, RequestStep, LinkStep DEF Inv
  <1>5. ASSUME NEW w \in Converters,
               \/ CopyWarc(w) \/ Make(w) \/ SaveSize(w) \/ StoreWacz(w) \/ LoseConverter(w)
               \/ \E l \in Links, k \in {"view", "benchmark"} : Convert(w, l, k)
        PROVE  Inv'
    BY <1>1, <1>5, ConverterStep DEF Inv
  <1> QED
    BY <1>2, <1>3, <1>4, <1>5 DEF Next

\* What captures, PATCHes, DELETEs and converters rely on between their statements stays
\* true however they overlap.
THEOREM Invariant == Spec => []Inv
  BY InvInit, InvStep, PTL DEF Spec

\* Of a link that may be played, the primary capture is a success.
LEMMA ServedSuccess ==
    ASSUME Inv, NEW l \in Links, Served(l)
    PROVE  row[l].primary = "success"
  <1>1. LinkInv(l) /\ row[l] \in Row
    BY DEF Inv, TypeOK
  <1> QED
    BY <1>1 DEF Served, can_play_back, Playable, LinkInv, StatusInv, Row, Answer

LEMMA InvServes ==
    ASSUME Inv
    PROVE  PlaybackServes /\ DownloadServes
  <1> SUFFICES ASSUME NEW l \in Links, Served(l), Sound(l)
               PROVE  Playback(l) = row[l].content /\ Download(l) = row[l].content
    BY DEF PlaybackServes, DownloadServes
  <1>1. LinkInv(l) /\ row[l].primary = "success"
    BY ServedSuccess DEF Inv
  <1>2. CASE OldLink(l)
    BY <1>2 DEF OldLink, Playback, Download
  <1>3. CASE NewLink(l)
    BY <1>1, <1>3 DEF NewLink, NoWarc, PrimaryInv, Sound, Unlocked, Playback, Download
  <1> QED
    BY <1>1, <1>2, <1>3 DEF LinkInv

LEMMA InvMementos ==
    ASSUME Inv
    PROVE  MementosServe
  <1> SUFFICES ASSUME NEW vis \in [Links -> Visibility], NEW l \in Links, ~past[l].straddled
               PROVE  LET page == single_permalink(l, vis[l], FALSE) IN
                      /\ page.memento <=> l \in timemap(vis).list
                      /\ l \in timemap(vis).list
                            => l \in timegate(vis) /\ l \in PublicLinkList(vis)
                      /\ page.memento =>
                           /\ page.status = 200 /\ page.plays
                           /\ stream_archive_if_permissible(l, vis[l], FALSE) = 200
    BY DEF MementosServe
  <1>1. LinkInv(l)
    BY DEF Inv
  <1>2. row[l].cached = "yes" => ~row[l].user_deleted
    BY <1>1 DEF LinkInv, StatusTrue, Playable
  <1>3. timemap(vis).list = {k \in Links : visible_to_memento(k, vis[k])}
    BY DEF timemap, memento_data_for_url
  <1>4. l \in timemap(vis).list <=> row[l].cached = "yes" /\ is_discoverable(vis[l])
    BY <1>2, <1>3 DEF visible_to_memento
  <1>5. l \in timemap(vis).list => l \in timegate(vis) /\ l \in PublicLinkList(vis)
    BY <1>2, <1>3, <1>4 DEF timegate, memento_data_for_url, PublicLinkList
  <1>6. row[l].cached = "yes" /\ is_discoverable(vis[l])
           => /\ can_view(vis[l], FALSE) /\ can_play_back(l) /\ Served(l)
    BY <1>2 DEF can_view, can_play_back, Served, is_discoverable
  <1> QED
    BY <1>2, <1>4, <1>5, <1>6
    DEF single_permalink, is_visible_to_memento, stream_archive_if_permissible

\* Through captures, replacements, deletions and conversions that overlap, what is
\* played back and downloaded of a link is in storage and is what its primary capture
\* says, and the pages, timemaps and lists agree on which links are mementos.
THEOREM ArchivesAlwaysServe == Spec => []ArchivesInv
  <1>1. Inv => ArchivesInv
    BY InvServes, InvMementos DEF ArchivesInv, Inv
  <1> QED
    BY <1>1, Invariant, PTL

\* The cached playback status of a link, which nothing invalidates, is the one
\* can_play_back would compute, unless a request straddled the day's end.
THEOREM CachedStatusAlwaysTrue == Spec => []CachedStatusTrue
  <1>1. Inv => CachedStatusTrue
    BY DEF Inv, LinkInv, StatusTrue, CachedStatusTrue
  <1> QED
    BY <1>1, Invariant, PTL

\* Only these steps write files.
LEMMA StoreWriters ==
    ASSUME Inv, Next
    PROVE  \/ store' = store
           \/ \E l \in Links : StoreArchive(l) \/ MoveAside(l) \/ WriteFile(l)
           \/ \E w \in Converters : StoreWacz(w)
  BY ZenonT(60) DEF Next, Patching, Caching, StartCapture, CleanUp, SizeArchive, Describe, Complete,
         FailCapture, CommitPatch, FailPatch, CheckDelete, Delete, DayPasses, LoadStatus,
         SaveStatus, View, Benchmark, OpenPatch, CopyWarc, Make, SaveSize, LoseConverter,
         Convert, captureVars, patchVars, cacheVars, convVars

LEMMA KeptStep ==
    ASSUME Inv, Next, NEW l \in Links, row[l].primary = "success", row[l].content \in Stored(l)
    PROVE  row[l].content \in Stored(l)'
  <1>1. /\ LinkInv(l) /\ row[l] \in Row /\ store[l] \in Store /\ store \in [Links -> Store]
        /\ row[l].content # "none"
    BY DEF Inv, TypeOK, LinkInv, OldLink, NewLink, PrimaryInv
  <1>2. CASE store' = store
    BY <1>2 DEF Stored
  <1>3. ASSUME NEW k \in Links, StoreArchive(k) PROVE row[l].content \in Stored(l)'
    <2>1. k # l
      BY <1>1, <1>3 DEF StoreArchive, LinkInv, OldLink, NewLink, CaptureInv
    <2> QED
      BY <1>1, <1>3, <2>1 DEF StoreArchive, Stored
  <1>4. ASSUME NEW k \in Links, MoveAside(k) PROVE row[l].content \in Stored(l)'
    <2>1. store'[l] = store[l] \/ store'[l] = SetAside(store[l])
      BY <1>1, <1>4 DEF MoveAside
    <2>2. SetAside(store[l]).aside
             = store[l].aside \cup ({store[l].warc, store[l].wacz} \ {"none"})
      BY <1>1 DEF SetAside, Store
    <2> QED
      BY <1>1, <2>1, <2>2 DEF Stored
  <1>5. ASSUME NEW k \in Links, WriteFile(k) PROVE row[l].content \in Stored(l)'
    <2>1. CASE k # l
      BY <1>1, <1>5, <2>1 DEF WriteFile, Stored
    <2>2. CASE k = l
      <3>1. store[l].wacz = "none"
        BY <1>1, <1>5, <2>2 DEF WriteFile, LinkInv, OldLink, NewLink, PatchInv
      <3>2. store'[l] = [store[l] EXCEPT !.wacz = patch[l].file, !.converted = FALSE]
        BY <1>1, <1>5, <2>2 DEF WriteFile
      <3>3. store'[l].warc = store[l].warc /\ store'[l].aside = store[l].aside
        BY <1>1, <3>2 DEF Store
      <3> QED
        BY <1>1, <3>1, <3>3 DEF Stored
    <2> QED
      BY <2>1, <2>2
  <1>6. ASSUME NEW w \in Converters, StoreWacz(w) PROVE row[l].content \in Stored(l)'
    <2>1. /\ conv[w].link \in Links /\ LinkInv(conv[w].link) /\ ConverterInv(w)
          /\ conv[w].stage = "sized"
      BY <1>6, Working DEF Inv, StoreWacz, At
    <2>2. store' = [store EXCEPT ![conv[w].link].wacz = conv[w].wacz,
                                 ![conv[w].link].converted = TRUE]
      BY <1>6 DEF StoreWacz
    <2>3. CASE conv[w].link # l
      BY <1>1, <2>1, <2>2, <2>3 DEF Stored
    <2>4. CASE conv[w].link = l
      <3>1. OldLink(l)
        BY <2>1, <2>4 DEF ConverterInv, LinkInv, NewLink, NoWarc
      <3>2. store'[l] = [store[l] EXCEPT !.wacz = conv[w].wacz, !.converted = TRUE]
        BY <1>1, <2>2, <2>4
      <3>3. store'[l].warc = "capture"
        BY <1>1, <3>1, <3>2 DEF OldLink, Store
      <3> QED
        BY <3>1, <3>3 DEF OldLink, Stored
    <2> QED
      BY <2>3, <2>4
  <1> QED
    BY <1>2, <1>3, <1>4, <1>5, <1>6, StoreWriters

\* No step destroys the archive that a link's rows call successful: a PATCH moves what
\* it replaces aside before it writes, a capture only writes where none is, and a
\* conversion leaves the WARC.
THEOREM ArchiveAlwaysKept == Spec => ArchiveKept
  <1>1. ASSUME Inv, [Next]_vars
        PROVE  [\A l \in Links :
                   row[l].primary = "success" /\ row[l].content \in Stored(l)
                      => row[l].content \in Stored(l)']_vars
    BY <1>1, KeptStep
  <1> QED
    BY <1>1, Invariant, PTL DEF Spec, ArchiveKept

=============================================================================
