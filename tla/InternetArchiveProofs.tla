----------------------- MODULE InternetArchiveProofs -----------------------
(***************************************************************************)
(* Proofs about InternetArchive, for every set of links and messages, any  *)
(* number of workers, every limit and every bound.                         *)
(***************************************************************************)
EXTENDS InternetArchive, FiniteSetTheorems, TLAPS

----------------------------------------------------------------------------
(* Types. A message that is anywhere names a link and a kind of task; a    *)
(* slot that holds none holds NoMessage.                                   *)

TaskInv ==
    \A t \in Tasks :
        /\ phase[t] = "none" => task[t] = NoMessage
        /\ phase[t] # "none" => task[t].link \in Links /\ task[t].kind \in Kind

TypeInv == TypeOK /\ TaskInv

LEMMA Bounds ==
    /\ 0 \in Title /\ 0 \in 0..ErrorLimit /\ 0 \in 0..ConnectionLimit
    /\ 0 \in 0..MaxFaults /\ 0 \in 0..MaxToggles /\ 0 \in 0..MaxDeletionRuns
BY LimitAssumption DEF Title

LEMMA NoMessageTyped == NoMessage \in Message
BY Bounds DEF NoMessage, Message

LEMMA FreshTyped ==
    ASSUME NEW kind \in Kind, NEW l \in Links
    PROVE  /\ [NoMessage EXCEPT !.kind = kind, !.link = l] \in Message
           /\ [NoMessage EXCEPT !.kind = kind, !.link = l].kind = kind
           /\ [NoMessage EXCEPT !.kind = kind, !.link = l].link = l
BY Bounds DEF NoMessage, Message

\* What a task changes in the message it carries leaves kind and link alone.
LEMMA ResentKept ==
    ASSUME NEW m \in Message, NEW a \in 0..ErrorLimit, NEW c \in 0..ConnectionLimit
    PROVE  [m EXCEPT !.attempts = a, !.connections = c, !.title = 0] \in Message
BY Bounds DEF Message

LEMMA TitleKept ==
    ASSUME NEW m \in Message, NEW v \in Title
    PROVE  /\ [m EXCEPT !.title = v] \in Message
           /\ [m EXCEPT !.title = v].kind = m.kind
           /\ [m EXCEPT !.title = v].link = m.link
BY DEF Message

LEMMA AttemptsKept ==
    ASSUME NEW m \in Message, NEW a \in 0..ErrorLimit
    PROVE  /\ [m EXCEPT !.attempts = a] \in Message
           /\ [m EXCEPT !.attempts = a].kind = m.kind
           /\ [m EXCEPT !.attempts = a].link = m.link
BY DEF Message

LEMMA CountersTyped ==
    ASSUME NEW m \in Message
    PROVE  /\ m.attempts \in 0..ErrorLimit /\ m.connections \in 0..ConnectionLimit
           /\ OneMore(m.attempts) \in 0..ErrorLimit
           /\ m.connections < ConnectionLimit => m.connections + 1 \in 0..ConnectionLimit
BY LimitAssumption DEF Message, OneMore

LEMMA FaultTyped == faults \in 0..MaxFaults /\ Fault => faults' \in 0..MaxFaults
BY LimitAssumption DEF Fault

Changes == [toggles : 0..MaxToggles, edits : 0..MaxEdits,
            deletionRuns : 0..MaxDeletionRuns]

LEMMA ChangesKept ==
    ASSUME NEW c \in Changes
    PROVE  /\ \A n \in 0..MaxToggles : [c EXCEPT !.toggles = n] \in Changes
           /\ \A n \in 0..MaxEdits : [c EXCEPT !.edits = n] \in Changes
           /\ \A n \in 0..MaxDeletionRuns : [c EXCEPT !.deletionRuns = n] \in Changes
           /\ c.toggles < MaxToggles => c.toggles + 1 \in 0..MaxToggles
           /\ c.edits < MaxEdits => c.edits + 1 \in 0..MaxEdits
           /\ c.deletionRuns < MaxDeletionRuns
                => c.deletionRuns + 1 \in 0..MaxDeletionRuns
<1>1. \A n \in 0..MaxToggles : [c EXCEPT !.toggles = n] \in Changes BY DEF Changes
<1>2. \A n \in 0..MaxEdits : [c EXCEPT !.edits = n] \in Changes BY DEF Changes
<1>3. \A n \in 0..MaxDeletionRuns : [c EXCEPT !.deletionRuns = n] \in Changes
  BY DEF Changes
<1>4. c.toggles \in 0..MaxToggles /\ c.edits \in 0..MaxEdits
      /\ c.deletionRuns \in 0..MaxDeletionRuns BY DEF Changes
<1>5. QED BY <1>1, <1>2, <1>3, <1>4, LimitAssumption

\* The two ways a task lets go of its message.
LEMMA EndTyped ==
    ASSUME TypeInv, NEW t \in Tasks, End(t)
    PROVE  /\ phase' \in [Tasks -> Held \cup {"none", "ready"}]
           /\ task' \in [Tasks -> Message]
           /\ TaskInv'
BY NoMessageTyped DEF TypeInv, TypeOK, TaskInv, End, Goto

LEMMA ResendTyped ==
    ASSUME TypeInv, NEW t \in Tasks, phase[t] # "none",
           NEW a \in 0..ErrorLimit, NEW c \in 0..ConnectionLimit, Resend(t, a, c)
    PROVE  /\ phase' \in [Tasks -> Held \cup {"none", "ready"}]
           /\ task' \in [Tasks -> Message]
           /\ TaskInv'
<1>1. task[t] \in Message BY DEF TypeInv, TypeOK
<1> DEFINE m == [task[t] EXCEPT !.attempts = a, !.connections = c, !.title = 0]
<1>2. m \in Message /\ m.kind = task[t].kind /\ m.link = task[t].link
  <2>1. [task[t] EXCEPT !.attempts = a, !.connections = c, !.title = 0] \in Message
    BY <1>1, ResentKept
  <2>2. /\ [task[t] EXCEPT !.attempts = a, !.connections = c, !.title = 0].kind = task[t].kind
        /\ [task[t] EXCEPT !.attempts = a, !.connections = c, !.title = 0].link = task[t].link
    BY <1>1 DEF Message
  <2>3. QED BY <2>1, <2>2
<1>3. task' = [task EXCEPT ![t] = m] BY DEF Resend
<1>4. phase' = [phase EXCEPT ![t] = "ready"] BY DEF Resend, Goto
<1> HIDE DEF m
<1>5. QED BY <1>2, <1>3, <1>4 DEF TypeInv, TypeOK, TaskInv

\* A step of a task that keeps its message, with another title or attempts.
LEMMA GotoTyped ==
    ASSUME TypeInv, NEW t \in Tasks, phase[t] # "none", NEW label \in Held, Goto(t, label),
           \/ UNCHANGED task
           \/ \E v \in Title : task' = [task EXCEPT ![t].title = v]
           \/ \E a \in 0..ErrorLimit : task' = [task EXCEPT ![t].attempts = a]
    PROVE  /\ phase' \in [Tasks -> Held \cup {"none", "ready"}]
           /\ task' \in [Tasks -> Message]
           /\ TaskInv'
<1>1. task[t] \in Message BY DEF TypeInv, TypeOK
<1>2. label # "none" BY DEF Held
<1>3. PICK m \in Message : /\ task' = [task EXCEPT ![t] = m]
                           /\ m.kind = task[t].kind /\ m.link = task[t].link
  <2>1. CASE UNCHANGED task BY <2>1, <1>1 DEF TypeInv, TypeOK
  <2>2. CASE \E v \in Title : task' = [task EXCEPT ![t].title = v]
    BY <2>2, <1>1, TitleKept
  <2>3. CASE \E a \in 0..ErrorLimit : task' = [task EXCEPT ![t].attempts = a]
    BY <2>3, <1>1, AttemptsKept
  <2>4. QED BY <2>1, <2>2, <2>3
<1>4. QED BY <1>2, <1>3 DEF TypeInv, TypeOK, TaskInv, Goto

LEMMA TypeInit == Init => TypeInv
BY Bounds, NoMessageTyped
   DEF Init, TypeInv, TypeOK, TaskInv, FileStatus, Title, Absent

LEMMA TypeQueuing ==
    ASSUME TypeInv, Queuing
    PROVE  TypeInv'
<1> USE DEF TypeInv, TypeOK
<1>1. CASE QueueUploads
  <2>1. batch' \in [Kind -> SUBSET Links]
    BY <1>1, ZenonT(30) DEF QueueUploads, UploadPending
  <2>2. item' \in {"none", "open", "complete"} BY <1>1 DEF QueueUploads
  <2>3. TaskInv' BY <1>1 DEF QueueUploads, TaskInv, taskVars
  <2>4. QED BY <1>1, <2>1, <2>2, <2>3 DEF QueueUploads, linkVars, taskVars, iaVars
<1>2. ASSUME NEW kind \in Kind, NEW status, QueueConfirmations(kind, status) PROVE TypeInv'
  BY <1>2 DEF QueueConfirmations, TaskInv, linkVars, rowVars, taskVars, iaVars
<1>3. CASE QueueDeletions
  <2>1. changes \in Changes BY DEF Changes
  <2>2. changes' \in Changes BY <1>3, <2>1, ChangesKept DEF QueueDeletions
  <2>3. QED
    BY <1>3, <2>2 DEF QueueDeletions, Changes, TaskInv, linkVars, rowVars, taskVars, iaVars
<1>4. ASSUME NEW kind \in Kind, NEW l \in Links, NEW t \in Tasks, Send(kind, l, t)
      PROVE  TypeInv'
  <2>1. PICK m \in Message : m.kind = kind /\ m.link = l /\ task' = [task EXCEPT ![t] = m]
    BY <1>4, FreshTyped DEF Send
  <2>2. batch' \in [Kind -> SUBSET Links] BY <1>4 DEF Send
  <2>3. TaskInv' BY <1>4, <2>1 DEF Send, Goto, TaskInv
  <2>4. QED BY <1>4, <2>1, <2>2, <2>3 DEF Send, Goto, linkVars, rowVars, iaVars
<1>5. ASSUME NEW kind \in Kind, StopSending(kind) PROVE TypeInv'
  BY <1>5, FaultTyped DEF StopSending, TaskInv, linkVars, rowVars, taskVars, iaVars
<1>6. "confirm_upload" \in Kind /\ "confirm_delete" \in Kind BY DEF Kind
<1>7. QED BY <1>1, <1>2, <1>3, <1>4, <1>5, <1>6
         DEF Queuing, QueueUploadConfirmations, QueueDeletionConfirmations, Sending

LEMMA TypeTask ==
    ASSUME TypeInv, NEW t \in Tasks, Receive(t) \/ Run(t) \/ Mishap(t)
    PROVE  TypeInv'
<1>t. task[t] \in Message BY DEF TypeInv, TypeOK
<1>c. /\ task[t].attempts \in 0..ErrorLimit
      /\ task[t].connections \in 0..ConnectionLimit
      /\ OneMore(task[t].attempts) \in 0..ErrorLimit
      /\ task[t].connections < ConnectionLimit
           => task[t].connections + 1 \in 0..ConnectionLimit
  BY <1>t, CountersTyped
<1>0. phase[t] # "none" /\ LinkOf(t) \in Links
  <2>1. phase[t] # "none"
    BY DEF Receive, Run, Mishap, At, UploadStart, UploadCreate, DeleteStart, Count,
           Mark, Request, Recount, Submit, ConfirmStart, Look, Confirm, Settle,
           RateLimited, Disconnected, RequestFails, LookFails, Lose, Held
  <2>2. QED BY <2>1 DEF TypeInv, TaskInv, LinkOf
<1>v. title[LinkOf(t)] \in Title BY <1>0 DEF TypeInv, TypeOK
\* Each step says what it does to its message; the rest of TypeOK follows.
<1> DEFINE Kept == /\ phase' \in [Tasks -> Held \cup {"none", "ready"}]
                   /\ task' \in [Tasks -> Message]
                   /\ TaskInv'
<1> USE DEF TypeInv, TypeOK, linkVars, rowVars, iaVars
<1>1. CASE Receive(t)
  <2>1. Kept BY <1>1, <1>0, GotoTyped DEF Receive, Held
  <2>2. QED BY <1>1, <2>1 DEF Receive
<1>2. CASE UploadStart(t)
  <2>1. Kept
    <3>1. CASE End(t) BY <3>1, EndTyped
    <3>2. CASE Goto(t, "create") /\ task' = [task EXCEPT ![t].title = title[LinkOf(t)]]
      BY <3>2, <1>0, <1>v, GotoTyped DEF Held
    <3>3. CASE Goto(t, "count") /\ task' = [task EXCEPT ![t].title = title[LinkOf(t)]]
      BY <3>3, <1>0, <1>v, GotoTyped DEF Held
    <3>4. QED BY <1>2, <3>1, <3>2, <3>3 DEF UploadStart
  <2>2. item' \in {"none", "open", "complete"} BY <1>2 DEF UploadStart
  <2>3. QED BY <1>2, <2>1, <2>2 DEF UploadStart
<1>3. CASE UploadCreate(t)
  <2>1. Kept
    <3>1. CASE End(t) BY <3>1, EndTyped
    <3>2. CASE Goto(t, "count") /\ UNCHANGED task BY <3>2, <1>0, GotoTyped DEF Held
    <3>3. QED BY <1>3, <3>1, <3>2 DEF UploadCreate
  <2>2. file' \in [Links -> FileStatus] BY <1>3 DEF UploadCreate, FileStatus
  <2>3. QED BY <1>3, <2>1, <2>2 DEF UploadCreate
<1>4. CASE DeleteStart(t)
  <2>1. Kept
    <3>1. CASE End(t) BY <3>1, EndTyped
    <3>2. CASE Goto(t, "mark") /\ UNCHANGED task BY <3>2, <1>0, GotoTyped DEF Held
    <3>3. QED BY <1>4, <3>1, <3>2 DEF DeleteStart
  <2>2. QED BY <1>4, <2>1 DEF DeleteStart
<1>5. CASE Count(t)
  <2>1. Kept BY <1>5, <1>0, GotoTyped DEF Count, Held
  <2>2. QED BY <1>5, <2>1 DEF Count
<1>6. CASE Mark(t)
  <2>1. Kept BY <1>6, <1>0, GotoTyped DEF Mark, Held
  <2>2. file' \in [Links -> FileStatus] BY <1>6 DEF Mark, FileStatus, AttemptStatus
  <2>3. QED BY <1>6, <2>1, <2>2 DEF Mark
<1>7. CASE Recount(t)
  <2>1. 0 \in 0..ConnectionLimit BY Bounds
  <2>2. Kept BY <1>7, <1>0, <1>c, <2>1, ResendTyped DEF Recount
  <2>3. QED BY <1>7, <2>2 DEF Recount
<1>8. CASE Submit(t)
  <2>1. Kept BY <1>8, EndTyped DEF Submit
  <2>2. file' \in [Links -> FileStatus] BY <1>8 DEF Submit, FileStatus, SubmittedStatus
  <2>3. QED BY <1>8, <2>1, <2>2 DEF Submit
<1>9. CASE ConfirmStart(t)
  <2>1. Kept
    <3>1. CASE End(t) BY <3>1, EndTyped
    <3>2. CASE Goto(t, "look") /\ task' = [task EXCEPT ![t].title = title[LinkOf(t)]]
      BY <3>2, <1>0, <1>v, GotoTyped DEF Held
    <3>3. QED BY <1>9, <3>1, <3>2 DEF ConfirmStart
  <2>2. QED BY <1>9, <2>1 DEF ConfirmStart
<1>10. CASE Look(t)
  <2>1. Kept
    <3>1. CASE End(t) BY <3>1, EndTyped
    <3>2. CASE Goto(t, "confirm") /\ UNCHANGED task BY <3>2, <1>0, GotoTyped DEF Held
    <3>3. CASE Resend(t, OneMore(task[t].attempts), 0)
      BY <3>3, <1>0, <1>c, Bounds, ResendTyped
    <3>4. QED BY <1>10, <3>1, <3>2, <3>3 DEF Look
  <2>2. QED BY <1>10, <2>1 DEF Look
<1>11. CASE Confirm(t)
  <2>1. Kept BY <1>11, <1>0, GotoTyped DEF Confirm, Held
  <2>2. file' \in [Links -> FileStatus] BY <1>11 DEF Confirm, FileStatus, ConfirmedStatus
  <2>3. overconfirmed' \in Nat BY <1>11 DEF Confirm
  <2>4. QED BY <1>11, <2>1, <2>2, <2>3 DEF Confirm
<1>12. CASE Settle(t)
  <2>1. Kept BY <1>12, EndTyped DEF Settle
  <2>2. QED BY <1>12, <2>1 DEF Settle
<1>13. ASSUME Requested(t) PROVE ia' \in [Links -> Seq(Title \cup {Absent})]
  <2>1. PICK v \in Title \cup {Absent} :
          ia' = [ia EXCEPT ![LinkOf(t)] = Append(ia[LinkOf(t)], v)]
    <3>1. task[t].title \in Title BY <1>t DEF Message
    <3>2. QED BY <1>13, <3>1 DEF Requested
  <2>2. Append(ia[LinkOf(t)], v) \in Seq(Title \cup {Absent}) BY <1>0
  <2>3. QED BY <2>1, <2>2
<1>14. CASE Request(t)
  <2>1. Kept BY <1>14, <1>0, GotoTyped DEF Request, Held
  <2>2. QED BY <1>13, <1>14, <2>1 DEF Request
<1>15. CASE RateLimited(t)
  <2>1. Kept BY <1>15, <1>0, <1>c, GotoTyped DEF RateLimited, Held
  <2>2. QED BY <1>15, <2>1, FaultTyped DEF RateLimited
<1>16. CASE Disconnected(t)
  <2>1. Kept BY <1>16, <1>0, GotoTyped DEF Disconnected, Held
  <2>2. QED BY <1>13, <1>16, <2>1, FaultTyped DEF Disconnected
<1>17. CASE RequestFails(t)
  <2>1. Kept
    <3>1. CASE End(t) BY <3>1, EndTyped
    <3>2. CASE /\ Goto(t, "recount")
               /\ task' = [task EXCEPT ![t].attempts = OneMore(task[t].attempts)]
      BY <3>2, <1>0, <1>c, GotoTyped DEF Held
    <3>3. QED BY <1>17, <3>1, <3>2 DEF RequestFails
  <2>2. QED BY <1>13, <1>17, <2>1, FaultTyped DEF RequestFails
<1>18. CASE LookFails(t)
  <2>1. Kept
    <3>1. CASE End(t) BY <3>1, EndTyped
    <3>2. CASE /\ task[t].connections < ConnectionLimit
               /\ Resend(t, task[t].attempts, task[t].connections + 1)
      BY <3>2, <1>0, <1>c, ResendTyped
    <3>3. QED BY <1>18, <3>1, <3>2 DEF LookFails
  <2>2. QED BY <1>18, <2>1, FaultTyped DEF LookFails
<1>19. CASE Lose(t)
  <2>1. Kept
    <3>1. CASE End(t) BY <3>1, EndTyped
    <3>2. CASE Resend(t, task[t].attempts, task[t].connections)
      BY <3>2, <1>0, <1>c, ResendTyped
    <3>3. QED BY <1>19, <3>1, <3>2 DEF Lose
  <2>2. QED BY <1>19, <2>1, FaultTyped DEF Lose
<1>20. QED
  BY <1>1, <1>2, <1>3, <1>4, <1>5, <1>6, <1>7, <1>8, <1>9, <1>10, <1>11, <1>12,
     <1>14, <1>15, <1>16, <1>17, <1>18, <1>19 DEF Run, Mishap

LEMMA TypeEnvironment ==
    ASSUME TypeInv,
           \/ \E l \in Links : WorkOff(l) \/ Toggle(l) \/ EditTitle(l)
           \/ UNCHANGED vars
    PROVE  TypeInv'
<1> USE DEF TypeInv, TypeOK, TaskInv, linkVars, rowVars, taskVars, iaVars
<1>1. ASSUME NEW l \in Links, WorkOff(l) PROVE TypeInv'
  <2>1. Head(ia[l]) \in Title \cup {Absent} /\ Tail(ia[l]) \in Seq(Title \cup {Absent})
    BY <1>1 DEF WorkOff
  <2>2. QED BY <1>1, <2>1 DEF WorkOff
<1>2. ASSUME NEW l \in Links, Toggle(l) PROVE TypeInv'
  <2>1. changes \in Changes BY DEF Changes
  <2>2. changes' \in Changes BY <1>2, <2>1, ChangesKept DEF Toggle
  <2>3. QED BY <1>2, <2>2 DEF Toggle, Changes
<1>3. ASSUME NEW l \in Links, EditTitle(l) PROVE TypeInv'
  <2>1. changes \in Changes BY DEF Changes
  <2>2. changes' \in Changes BY <1>3, <2>1, ChangesKept DEF EditTitle
  <2>3. changes.edits + 1 \in Title BY <1>3, <2>1, ChangesKept DEF EditTitle, Title
  <2>4. QED BY <1>3, <2>2, <2>3 DEF EditTitle, Changes
<1>4. CASE UNCHANGED vars BY <1>4 DEF vars
<1>5. QED BY <1>1, <1>2, <1>3, <1>4

LEMMA TypeStep ==
    ASSUME TypeInv, [Next]_vars
    PROVE  TypeInv'
BY TypeQueuing, TypeTask, TypeEnvironment DEF Next

LEMMA TypeAlways == Spec => []TypeInv
BY TypeInit, TypeStep, PTL DEF Spec

\* Every variable keeps its type.
THEOREM TypeOKAlways == Spec => []TypeOK
BY TypeAlways, PTL DEF TypeInv

----------------------------------------------------------------------------
(* Nothing is at IA without a row. A task on its way to the request has a  *)
(* row already, and no row ever goes away.                                 *)

RowKept ==
    \A t \in Tasks :
        phase[t] \in {"count", "mark", "request"} => file[task[t].link] # "none"

RecordInv == RowKept /\ RemoteRecorded

LEMMA RecordInit == Init => RecordInv
BY DEF Init, RecordInv, RowKept, RemoteRecorded, Absent

LEMMA FilesStay ==
    ASSUME TypeInv, NEW t \in Tasks, Receive(t) \/ Run(t) \/ Mishap(t)
    PROVE  \A l \in Links : file[l] # "none" => file'[l] # "none"
BY DEF TypeInv, TypeOK, Receive, Run, Mishap, UploadStart, UploadCreate, DeleteStart,
       Count, Mark, Request, Recount, Submit, ConfirmStart, Look, Confirm, Settle,
       RateLimited, Disconnected, RequestFails, LookFails, Lose, AttemptStatus,
       SubmittedStatus, ConfirmedStatus, rowVars

\* Only a request adds to what is at IA or on its way, and its link has a row.
LEMMA RequestRecorded ==
    ASSUME TypeInv, RecordInv, NEW t \in Tasks, Receive(t) \/ Run(t) \/ Mishap(t)
    PROVE  /\ remote' = remote
           /\ \A l \in Links : ia'[l] = ia[l] \/ file[l] # "none"
<1>1. ASSUME At(t, "request"), Requested(t)
      PROVE  \A l \in Links : ia'[l] = ia[l] \/ file[l] # "none"
  BY <1>1 DEF TypeInv, TypeOK, RecordInv, RowKept, At, Requested, LinkOf
<1>2. CASE Receive(t) BY <1>2 DEF Receive, iaVars
<1>3. CASE Run(t)
  BY <1>1, <1>3 DEF Run, UploadStart, UploadCreate, DeleteStart, Count, Mark, Request,
     Recount, Submit, ConfirmStart, Look, Confirm, Settle, iaVars
<1>4. CASE Mishap(t)
  BY <1>1, <1>4 DEF Mishap, RateLimited, Disconnected, RequestFails, LookFails, Lose,
     iaVars
<1>5. QED BY <1>2, <1>3, <1>4

\* A task gets to "count", "mark" and "request" only with a row.
LEMMA RowKeptByTask ==
    ASSUME TypeInv, RecordInv, NEW t \in Tasks, Receive(t) \/ Run(t) \/ Mishap(t)
    PROVE  RowKept'
<1>1. \A u \in Tasks \ {t} : phase'[u] = phase[u] /\ task'[u] = task[u]
  BY DEF TypeInv, TypeOK, Receive, Run, Mishap, UploadStart, UploadCreate, DeleteStart,
         Count, Mark, Request, Recount, Submit, ConfirmStart, Look, Confirm, Settle,
         RateLimited, Disconnected, RequestFails, LookFails, Lose, Goto, End, Resend
<1>2. \A u \in Tasks : phase[u] # "none" => task[u].link \in Links BY DEF TypeInv, TaskInv
<1>3. ASSUME NEW u \in Tasks \ {t}, phase'[u] \in {"count", "mark", "request"}
      PROVE  file'[task'[u].link] # "none"
  BY <1>1, <1>2, <1>3, FilesStay DEF RecordInv, RowKept
<1>4. ASSUME phase'[t] \in {"count", "mark", "request"}
      PROVE  file'[task'[t].link] # "none"
  <2> DEFINE l == LinkOf(t)
  <2>0. /\ ~End(t)
        /\ \A a, c : ~Resend(t, a, c)
        /\ \A label : Goto(t, label) => label \in {"count", "mark", "request"}
    BY <1>4 DEF TypeInv, TypeOK, End, Resend, Goto
  <2>1. CASE UploadStart(t)
    <3>1. /\ l \in Links /\ file[l] # "none"
          /\ task' = [task EXCEPT ![t].title = title[l]]
      BY <1>2, <2>0, <2>1 DEF UploadStart, At, LinkOf
    <3>2. task'[t].link = l
      BY <3>1 DEF TypeInv, TypeOK, Message, LinkOf
    <3>3. QED BY <3>1, <3>2, FilesStay
  <2>2. CASE UploadCreate(t)
    BY <1>2, <2>0, <2>2 DEF UploadCreate, At, LinkOf, TypeInv, TypeOK
  <2>3. CASE DeleteStart(t)
    BY <1>2, <2>0, <2>3, FilesStay DEF DeleteStart, At, LinkOf, TypeInv, TypeOK
  <2>4. CASE Count(t) \/ Mark(t)
    BY <1>2, <2>4, FilesStay DEF Count, Mark, At, LinkOf, RecordInv, RowKept
  <2>5. QED
    BY <2>0, <2>1, <2>2, <2>3, <2>4 DEF Receive, Run, Mishap, Request, Recount, Submit,
       ConfirmStart, Look, Confirm, Settle, RateLimited, Disconnected, RequestFails,
       LookFails, Lose
<1>5. QED BY <1>3, <1>4 DEF RowKept

LEMMA RecordStep ==
    ASSUME TypeInv, RecordInv, [Next]_vars
    PROVE  RecordInv'
<1>1. ASSUME NEW t \in Tasks, Receive(t) \/ Run(t) \/ Mishap(t) PROVE RecordInv'
  <2>1. RowKept' BY <1>1, RowKeptByTask
  <2>2. RemoteRecorded'
    BY <1>1, FilesStay, RequestRecorded DEF RecordInv, RemoteRecorded
  <2>3. QED BY <2>1, <2>2 DEF RecordInv
<1>2. ASSUME NEW kind \in Kind, NEW l \in Links, NEW t \in Tasks, Send(kind, l, t)
      PROVE  RecordInv'
  BY <1>2 DEF Send, Goto, TypeInv, TypeOK, RecordInv, RowKept, RemoteRecorded, rowVars,
     iaVars
<1>3. ASSUME Queuing, ~(\E kind \in Kind, l \in Links, t \in Tasks : Send(kind, l, t))
      PROVE  UNCHANGED <<file, phase, task, ia, remote>>
  BY <1>3 DEF Queuing, QueueUploads, QueueUploadConfirmations, QueueDeletionConfirmations,
     QueueConfirmations, QueueDeletions, Sending, StopSending, rowVars, taskVars, iaVars
<1>4. ASSUME NEW l \in Links, WorkOff(l) PROVE RecordInv'
  BY <1>4 DEF WorkOff, TypeInv, TypeOK, RecordInv, RowKept, RemoteRecorded, rowVars,
     taskVars
<1>5. ASSUME NEW l \in Links, Toggle(l) \/ EditTitle(l)
      PROVE  UNCHANGED <<file, phase, task, ia, remote>>
  BY <1>5 DEF Toggle, EditTitle, rowVars, taskVars, iaVars
<1>6. ASSUME UNCHANGED <<file, phase, task, ia, remote>> PROVE RecordInv'
  BY <1>6 DEF RecordInv, RowKept, RemoteRecorded
<1>7. CASE UNCHANGED vars BY <1>6, <1>7 DEF vars, rowVars, taskVars, iaVars
<1>8. QED BY <1>1, <1>2, <1>3, <1>4, <1>5, <1>6, <1>7 DEF Next

\* Nothing is at IA, or on its way there or back, that no row remembers.
THEOREM RemoteAlwaysRecorded == Spec => []RemoteRecorded
<1>1. Spec => []RecordInv BY TypeAlways, RecordInit, RecordStep, PTL DEF Spec
<1>2. RecordInv => RemoteRecorded BY DEF RecordInv
<1>3. QED BY <1>1, <1>2, PTL

----------------------------------------------------------------------------
(* Counting. UndercountExplained is inductive: each step changes the three *)
(* sets it counts by at most one element, and the counter with them.       *)

LEMMA Shrink ==
    ASSUME NEW S, IsFiniteSet(S), NEW R \in SUBSET S
    PROVE  /\ IsFiniteSet(R)
           /\ Cardinality(R) \in Nat /\ Cardinality(S) \in Nat
           /\ Cardinality(R) <= Cardinality(S)
BY FS_Subset, FS_CardinalityType

LEMMA Drop ==
    ASSUME NEW S, IsFiniteSet(S), NEW x \in S, NEW R \in SUBSET (S \ {x})
    PROVE  Cardinality(R) <= Cardinality(S) - 1
<1>1. IsFiniteSet(S \ {x}) /\ Cardinality(S \ {x}) = Cardinality(S) - 1
  BY FS_RemoveElement
<1>2. QED BY <1>1, Shrink

LEMMA Grow ==
    ASSUME NEW S, IsFiniteSet(S), NEW x, NEW R \in SUBSET (S \cup {x})
    PROVE  Cardinality(R) <= Cardinality(S) + 1
<1>1. /\ IsFiniteSet(S \cup {x})
      /\ Cardinality(S \cup {x}) \in {Cardinality(S), Cardinality(S) + 1}
  BY FS_AddElement
<1>2. /\ Cardinality(S) \in Nat
      /\ Cardinality(R) \in Nat
      /\ Cardinality(R) <= Cardinality(S \cup {x})
  BY <1>1, Shrink, FS_CardinalityType
<1>3. QED BY <1>1, <1>2

LEMMA Finite ==
    /\ IsFiniteSet(Counted) /\ IsFiniteSet(Settling) /\ IsFiniteSet(AwaitingFiles)
    /\ IsFiniteSet(Counted') /\ IsFiniteSet(Settling') /\ IsFiniteSet(AwaitingFiles')
    /\ Cardinality(Counted) \in Nat /\ Cardinality(Counted)' \in Nat
    /\ Cardinality(Settling) \in Nat /\ Cardinality(Settling)' \in Nat
    /\ Cardinality(AwaitingFiles) \in Nat /\ Cardinality(AwaitingFiles)' \in Nat
<1>1. \A R \in SUBSET Tasks : IsFiniteSet(R) /\ Cardinality(R) \in Nat
  BY SetAssumption, Shrink
<1>2. \A R \in SUBSET Links : IsFiniteSet(R) /\ Cardinality(R) \in Nat
  BY SetAssumption, Shrink
<1>3. /\ Counted \in SUBSET Tasks /\ Counted' \in SUBSET Tasks
      /\ Settling \in SUBSET Tasks /\ Settling' \in SUBSET Tasks
  BY DEF Counted, Settling
<1>4. AwaitingFiles \in SUBSET Links /\ AwaitingFiles' \in SUBSET Links
  BY DEF AwaitingFiles
<1>5. QED BY <1>1, <1>2, <1>3, <1>4

\* A step of a task moves no other task in or out of a set.
LEMMA OthersStay ==
    ASSUME TypeInv, NEW t \in Tasks, NEW label, Goto(t, label),
           \A u \in Tasks \ {t} : task'[u] = task[u]
    PROVE  /\ Counted' \ {t} = Counted \ {t}
           /\ Settling' \ {t} = Settling \ {t}
           /\ t \in Counted' <=> \/ label \in {"request", "submit", "recount"}
                                 \/ label = "mark" /\ task'[t].kind = "upload"
           /\ t \in Settling' <=> label = "settle"
<1>1. /\ phase'[t] = label
      /\ \A u \in Tasks \ {t} : phase'[u] = phase[u]
  BY DEF TypeInv, TypeOK, Goto
<1>2. \A u \in Tasks :
        /\ u \in Counted <=> \/ phase[u] \in {"request", "submit", "recount"}
                             \/ phase[u] = "mark" /\ task[u].kind = "upload"
        /\ u \in Counted' <=> \/ phase'[u] \in {"request", "submit", "recount"}
                              \/ phase'[u] = "mark" /\ task'[u].kind = "upload"
        /\ u \in Settling <=> phase[u] = "settle"
        /\ u \in Settling' <=> phase'[u] = "settle"
  <2> TAKE u \in Tasks
  <2>1. u \in Counted <=> \/ phase[u] \in {"request", "submit", "recount"}
                          \/ phase[u] = "mark" /\ task[u].kind = "upload"
    BY DEF Counted, At, IsA
  <2>2. u \in Counted' <=> \/ phase'[u] \in {"request", "submit", "recount"}
                           \/ phase'[u] = "mark" /\ task'[u].kind = "upload"
    BY DEF Counted, At, IsA
  <2>3. u \in Settling <=> phase[u] = "settle" BY DEF Settling, At
  <2>4. u \in Settling' <=> phase'[u] = "settle" BY DEF Settling, At
  <2>5. QED BY <2>1, <2>2, <2>3, <2>4
<1>3. \A u \in Tasks \ {t} : /\ u \in Counted' <=> u \in Counted
                             /\ u \in Settling' <=> u \in Settling
  BY <1>1, <1>2
<1>4. /\ Counted \subseteq Tasks /\ Counted' \subseteq Tasks
      /\ Settling \subseteq Tasks /\ Settling' \subseteq Tasks
  BY DEF Counted, Settling
<1>5. QED BY <1>1, <1>2, <1>3, <1>4

LEMMA OthersKept ==
    ASSUME TypeInv, NEW t \in Tasks, Receive(t) \/ Run(t) \/ Mishap(t)
    PROVE  \A u \in Tasks \ {t} : task'[u] = task[u]
BY DEF TypeInv, TypeOK, Receive, Run, Mishap, UploadStart, UploadCreate, DeleteStart,
       Count, Mark, Request, Recount, Submit, ConfirmStart, Look, Confirm, Settle,
       RateLimited, Disconnected, RequestFails, LookFails, Lose, End, Resend

\* Steps that leave the counter alone add nothing to what it counts.
Quiet == /\ UNCHANGED <<tasks_in_progress, overconfirmed>>
         /\ Counted' \subseteq Counted
         /\ Settling' \subseteq Settling
         /\ AwaitingFiles' \subseteq AwaitingFiles

LEMMA QuietStep ==
    ASSUME TypeInv, UndercountExplained, Quiet
    PROVE  UndercountExplained'
<1>1. /\ Cardinality(Counted)' <= Cardinality(Counted)
      /\ Cardinality(Settling)' <= Cardinality(Settling)
      /\ Cardinality(AwaitingFiles)' <= Cardinality(AwaitingFiles)
  BY Finite, Shrink DEF Quiet
<1>2. tasks_in_progress \in Int /\ overconfirmed \in Nat BY DEF TypeInv, TypeOK
<1>3. QED BY <1>1, <1>2, Finite DEF UndercountExplained, Quiet

LEMMA UndercountInit == Init => UndercountExplained
<1> SUFFICES ASSUME Init PROVE UndercountExplained OBVIOUS
<1>1. Counted = {} /\ Settling = {} /\ AwaitingFiles = {}
  BY DEF Init, Counted, Settling, AwaitingFiles, Awaiting, At
<1>2. QED BY <1>1, FS_EmptySet DEF Init, UndercountExplained

\* Counting, recounting, submitting, confirming and settling.
LEMMA UndercountMoves ==
    ASSUME TypeInv, UndercountExplained, NEW t \in Tasks,
           Count(t) \/ Recount(t) \/ Submit(t) \/ Confirm(t) \/ Settle(t)
    PROVE  UndercountExplained'
<1> DEFINE c == Cardinality(Counted)
           s == Cardinality(Settling)
           a == Cardinality(AwaitingFiles)
<1>0. /\ c \in Nat /\ c' \in Nat /\ s \in Nat /\ s' \in Nat /\ a \in Nat /\ a' \in Nat
      /\ tasks_in_progress \in Int /\ overconfirmed \in Nat
      /\ tasks_in_progress + overconfirmed >= c + s + a
  BY Finite DEF TypeInv, TypeOK, UndercountExplained
<1>l. LinkOf(t) \in Links
  BY DEF TypeInv, TaskInv, LinkOf, At, Count, Recount, Submit, Confirm, Settle
<1>o. \A u \in Tasks \ {t} : task'[u] = task[u] BY OthersKept DEF Run
<1>1. CASE Count(t)
  <2>1. Counted' \subseteq Counted \cup {t} /\ Settling' \subseteq Settling
    BY <1>1, <1>o, OthersStay DEF Count
  <2>2. AwaitingFiles' = AwaitingFiles BY <1>1 DEF Count, AwaitingFiles
  <2>3. c' <= c + 1 /\ s' <= s /\ a' = a BY <2>1, <2>2, Finite, Grow, Shrink
  <2>4. tasks_in_progress' = tasks_in_progress + 1 /\ overconfirmed' = overconfirmed
    BY <1>1 DEF Count
  <2>5. QED BY <1>0, <2>3, <2>4 DEF UndercountExplained
<1>2. CASE Recount(t)
  <2>1. Counted' \subseteq Counted \ {t} /\ t \in Counted /\ Settling' \subseteq Settling
    BY <1>2, <1>o, OthersStay DEF Recount, Resend, Counted, At
  <2>2. AwaitingFiles' = AwaitingFiles BY <1>2 DEF Recount, AwaitingFiles
  <2>3. c' <= c - 1 /\ s' <= s /\ a' = a BY <2>1, <2>2, Finite, Drop, Shrink
  <2>4. tasks_in_progress' = tasks_in_progress - 1 /\ overconfirmed' = overconfirmed
    BY <1>2 DEF Recount
  <2>5. QED BY <1>0, <2>3, <2>4 DEF UndercountExplained
<1>3. CASE Submit(t)
  <2>1. Counted' \subseteq Counted \ {t} /\ t \in Counted /\ Settling' \subseteq Settling
    BY <1>3, <1>o, OthersStay DEF Submit, End, Counted, At
  <2>2. AwaitingFiles' \subseteq AwaitingFiles \cup {LinkOf(t)}
    BY <1>3 DEF Submit, AwaitingFiles, TypeInv, TypeOK
  <2>3. c' <= c - 1 /\ s' <= s /\ a' <= a + 1 BY <2>1, <2>2, Finite, Drop, Grow, Shrink
  <2>4. UNCHANGED <<tasks_in_progress, overconfirmed>> BY <1>3 DEF Submit
  <2>5. QED BY <1>0, <2>3, <2>4 DEF UndercountExplained
<1>4. CASE Confirm(t)
  <2>1. Counted' \subseteq Counted /\ Settling' \subseteq Settling \cup {t}
    BY <1>4, <1>o, OthersStay DEF Confirm
  <2>2. c' <= c /\ s' <= s + 1 BY <2>1, Finite, Grow, Shrink
  <2>3. AwaitingFiles' \subseteq AwaitingFiles \ {LinkOf(t)}
    BY <1>4 DEF Confirm, ConfirmedStatus, AwaitingFiles, Awaiting, TypeInv, TypeOK
  <2>4. tasks_in_progress' = tasks_in_progress BY <1>4 DEF Confirm
  <2>5. CASE file[LinkOf(t)] \in Awaiting
    <3>1. LinkOf(t) \in AwaitingFiles BY <1>l, <2>5 DEF AwaitingFiles
    <3>2. a' <= a - 1 BY <2>3, <3>1, Finite, Drop
    <3>3. overconfirmed' = overconfirmed BY <1>0, <1>4, <2>5 DEF Confirm
    <3>4. QED BY <1>0, <2>2, <2>4, <3>2, <3>3 DEF UndercountExplained
  <2>6. CASE file[LinkOf(t)] \notin Awaiting
    <3>1. a' <= a BY <2>3, Finite, Shrink
    <3>2. overconfirmed' = overconfirmed + 1 BY <1>4, <2>6 DEF Confirm
    <3>3. QED BY <1>0, <2>2, <2>4, <3>1, <3>2 DEF UndercountExplained
  <2>7. QED BY <2>5, <2>6
<1>5. CASE Settle(t)
  <2>1. Counted' \subseteq Counted /\ Settling' \subseteq Settling \ {t} /\ t \in Settling
    BY <1>5, <1>o, OthersStay DEF Settle, End, Settling, At
  <2>2. AwaitingFiles' = AwaitingFiles BY <1>5 DEF Settle, AwaitingFiles
  <2>3. c' <= c /\ s' <= s - 1 /\ a' = a BY <2>1, <2>2, Finite, Drop, Shrink
  <2>4. /\ tasks_in_progress' >= tasks_in_progress - 1
        /\ tasks_in_progress' \in Int
        /\ overconfirmed' = overconfirmed
    BY <1>0, <1>5 DEF Settle
  <2>5. QED BY <1>0, <2>3, <2>4 DEF UndercountExplained
<1>6. QED BY <1>1, <1>2, <1>3, <1>4, <1>5

\* Every other step of a task is quiet.
LEMMA QuietTask ==
    ASSUME TypeInv, NEW t \in Tasks, Receive(t) \/ Run(t) \/ Mishap(t),
           ~(Count(t) \/ Recount(t) \/ Submit(t) \/ Confirm(t) \/ Settle(t))
    PROVE  Quiet
<1>1. \A u \in Tasks \ {t} : task'[u] = task[u] BY OthersKept
<1>2. PICK label : /\ Goto(t, label)
                   /\ \/ label \notin {"request", "submit", "recount", "mark", "settle"}
                      \/ label = "mark" /\ task'[t].kind # "upload"
                      \/ /\ label \in {"request", "submit", "recount"}
                         /\ t \in Counted
  <2>1. CASE Mark(t) BY <2>1 DEF Mark, Counted, At
  <2>2. CASE Request(t) \/ RateLimited(t) \/ Disconnected(t)
    BY <2>2 DEF Request, RateLimited, Disconnected, Counted, At
  <2>3. CASE RequestFails(t) BY <2>3 DEF RequestFails, End, Counted, At
  <2>4. CASE DeleteStart(t) BY <2>4 DEF DeleteStart, End, IsA
  <2>5. CASE Receive(t) \/ UploadStart(t) \/ UploadCreate(t) \/ ConfirmStart(t) \/ Look(t)
    BY <2>5 DEF Receive, UploadStart, UploadCreate, ConfirmStart, Look, End, Resend
  <2>6. CASE LookFails(t) \/ Lose(t) BY <2>6 DEF LookFails, Lose, End, Resend
  <2>7. QED BY <2>1, <2>2, <2>3, <2>4, <2>5, <2>6 DEF Run, Mishap
<1>3. Counted' \subseteq Counted /\ Settling' \subseteq Settling
  BY <1>1, <1>2, OthersStay
<1>4. AwaitingFiles' \subseteq AwaitingFiles
  <2>1. CASE Mark(t)
    BY <2>1 DEF Mark, AttemptStatus, AwaitingFiles, Awaiting, TypeInv, TypeOK
  <2>2. CASE UploadCreate(t)
    BY <2>2 DEF UploadCreate, AwaitingFiles, Awaiting, TypeInv, TypeOK
  <2>3. CASE UNCHANGED file BY <2>3 DEF AwaitingFiles
  <2>4. QED
    BY <2>1, <2>2, <2>3 DEF Receive, Run, Mishap, UploadStart, DeleteStart, Request,
       ConfirmStart, Look, RateLimited, Disconnected, RequestFails, LookFails, Lose,
       rowVars
<1>5. UNCHANGED <<tasks_in_progress, overconfirmed>>
  BY DEF Receive, Run, Mishap, UploadStart, UploadCreate, DeleteStart, Mark, Request,
     ConfirmStart, Look, RateLimited, Disconnected, RequestFails, LookFails, Lose, rowVars
<1>6. QED BY <1>3, <1>4, <1>5 DEF Quiet

LEMMA QuietElsewhere ==
    ASSUME TypeInv,
           \/ Queuing
           \/ \E l \in Links : WorkOff(l) \/ Toggle(l) \/ EditTitle(l)
           \/ UNCHANGED vars
    PROVE  Quiet
<1>1. UNCHANGED <<file, tasks_in_progress, overconfirmed>>
  BY DEF Queuing, QueueUploads, QueueUploadConfirmations, QueueDeletionConfirmations,
     QueueConfirmations, QueueDeletions, Sending, Send, StopSending, WorkOff, Toggle,
     EditTitle, vars, rowVars
<1>2. CASE UNCHANGED taskVars
  BY <1>1, <1>2 DEF Quiet, taskVars, Counted, Settling, AwaitingFiles, At, IsA
<1>3. ASSUME NEW kind \in Kind, NEW l \in Links, NEW t \in Tasks, Send(kind, l, t)
      PROVE  Quiet
  <2>1. \A u \in Tasks \ {t} : task'[u] = task[u] BY <1>3 DEF Send, TypeInv, TypeOK
  <2>2. Counted' \subseteq Counted /\ Settling' \subseteq Settling
    BY <1>3, <2>1, OthersStay DEF Send
  <2>3. QED BY <1>1, <2>2 DEF Quiet, AwaitingFiles
<1>4. QED
  BY <1>2, <1>3 DEF Queuing, QueueUploads, QueueUploadConfirmations,
     QueueDeletionConfirmations, QueueConfirmations, QueueDeletions, Sending, StopSending,
     WorkOff, Toggle, EditTitle, vars

LEMMA UndercountStep ==
    ASSUME TypeInv, UndercountExplained, [Next]_vars
    PROVE  UndercountExplained'
<1>1. ASSUME NEW t \in Tasks, Receive(t) \/ Run(t) \/ Mishap(t)
      PROVE  UndercountExplained'
  BY <1>1, UndercountMoves, QuietTask, QuietStep
<1>2. CASE \/ Queuing
           \/ \E l \in Links : WorkOff(l) \/ Toggle(l) \/ EditTitle(l)
           \/ UNCHANGED vars
  BY <1>2, QuietElsewhere, QuietStep
<1>3. QED BY <1>1, <1>2 DEF Next

\* The counter falls short of the requests under way and the files awaiting
\* confirmation by no more than the confirmations that came twice.
THEOREM UndercountAlwaysExplained == Spec => []UndercountExplained
BY TypeAlways, UndercountInit, UndercountStep, PTL DEF Spec

----------------------------------------------------------------------------
(* The limit. Uploads are added only by the queuing job, which starts with *)
(* no message waiting: what it cannot see is in the workers' hands.        *)

HandsFull == Cardinality(InHand) <= Workers

BoundInv == HandsFull /\ UploadsBounded

LEMMA FiniteUploads ==
    /\ IsFiniteSet(UploadTasks) /\ IsFiniteSet(UploadTasks')
    /\ IsFiniteSet(SubmittedUploads) /\ IsFiniteSet(SubmittedUploads')
    /\ IsFiniteSet(InHand) /\ IsFiniteSet(InHand')
    /\ Cardinality(UploadTasks) \in Nat /\ Cardinality(UploadTasks)' \in Nat
    /\ Cardinality(SubmittedUploads) \in Nat /\ Cardinality(SubmittedUploads)' \in Nat
    /\ Cardinality(InHand) \in Nat /\ Cardinality(InHand)' \in Nat
<1>1. \A R \in SUBSET Tasks : IsFiniteSet(R) /\ Cardinality(R) \in Nat
  BY SetAssumption, Shrink
<1>2. \A R \in SUBSET Links : IsFiniteSet(R) /\ Cardinality(R) \in Nat
  BY SetAssumption, Shrink
<1>3. /\ UploadTasks \in SUBSET Tasks /\ UploadTasks' \in SUBSET Tasks
      /\ InHand \in SUBSET Tasks /\ InHand' \in SUBSET Tasks
  BY DEF UploadTasks, InHand
<1>4. SubmittedUploads \in SUBSET Links /\ SubmittedUploads' \in SUBSET Links
  BY DEF SubmittedUploads
<1>5. QED BY <1>1, <1>2, <1>3, <1>4

LEMMA FiniteBatch ==
    ASSUME TypeInv, TypeInv'
    PROVE  /\ IsFiniteSet(batch["upload"]) /\ IsFiniteSet(batch'["upload"])
           /\ Cardinality(batch["upload"]) \in Nat
           /\ Cardinality(batch'["upload"]) \in Nat
<1>1. batch["upload"] \in SUBSET Links /\ batch'["upload"] \in SUBSET Links
  BY DEF TypeInv, TypeOK, Kind
<1>2. QED BY <1>1, SetAssumption, Shrink

LEMMA BoundInit == Init => BoundInv
<1> SUFFICES ASSUME Init PROVE BoundInv OBVIOUS
<1>1. InHand = {} /\ UploadTasks = {} /\ SubmittedUploads = {} /\ batch["upload"] = {}
  BY DEF Init, InHand, Held, UploadTasks, IsA, NoMessage, SubmittedUploads, Kind
<1>2. overconfirmed = 0 BY DEF Init
<1>3. Cardinality({}) = 0 BY FS_EmptySet
<1>4. HandsFull BY <1>1, <1>3, LimitAssumption DEF HandsFull
<1>5. UploadsBounded BY <1>1, <1>2, <1>3, LimitAssumption DEF UploadsBounded
<1>6. QED BY <1>4, <1>5 DEF BoundInv

\* Only Receive takes a message in hand, and only when a worker is free.
LEMMA HandsStep ==
    ASSUME TypeInv, HandsFull, [Next]_vars
    PROVE  HandsFull'
<1>1. ASSUME InHand' \subseteq InHand PROVE HandsFull'
  BY <1>1, FiniteUploads, Shrink, LimitAssumption DEF HandsFull
<1>2. ASSUME NEW t \in Tasks, Receive(t) PROVE HandsFull'
  <2>1. InHand' \subseteq InHand \cup {t}
    BY <1>2 DEF Receive, Goto, InHand, TypeInv, TypeOK
  <2>2. Cardinality(InHand)' <= Cardinality(InHand) + 1 BY <2>1, FiniteUploads, Grow
  <2>3. QED BY <1>2, <2>2, FiniteUploads, LimitAssumption DEF Receive, HandsFull
<1>3. ASSUME NEW t \in Tasks, Run(t) \/ Mishap(t) PROVE HandsFull'
  <2>1. phase[t] \in Held /\ \A u \in Tasks \ {t} : phase'[u] = phase[u]
    BY <1>3 DEF TypeInv, TypeOK, Run, Mishap, At, UploadStart, UploadCreate, DeleteStart,
       Count, Mark, Request, Recount, Submit, ConfirmStart, Look, Confirm, Settle,
       RateLimited, Disconnected, RequestFails, LookFails, Lose, Held, Goto, End, Resend
  <2>2. InHand' \subseteq InHand BY <2>1 DEF InHand
  <2>3. QED BY <1>1, <2>2
<1>4. ASSUME NEW kind \in Kind, NEW l \in Links, NEW t \in Tasks, Send(kind, l, t)
      PROVE  HandsFull'
  <2>1. InHand' \subseteq InHand
    BY <1>4 DEF Send, Goto, InHand, Held, TypeInv, TypeOK
  <2>2. QED BY <1>1, <2>1
<1>5. CASE UNCHANGED phase
  BY <1>1, <1>5 DEF InHand
<1>6. QED
  BY <1>2, <1>3, <1>4, <1>5 DEF Next, Queuing, QueueUploads, QueueUploadConfirmations,
     QueueDeletionConfirmations, QueueConfirmations, QueueDeletions, Sending, StopSending,
     WorkOff, Toggle, EditTitle, vars, taskVars

\* The queuing job: it sees the counter, and the workers hold the rest.
LEMMA BoundQueueUploads ==
    ASSUME TypeInv, TypeInv', UndercountExplained, BoundInv, QueueUploads
    PROVE  UploadsBounded'
<1>1. UNCHANGED <<UploadTasks, SubmittedUploads, overconfirmed>>
  BY DEF QueueUploads, UploadTasks, SubmittedUploads, IsA, taskVars
<1>2. CASE batch' = batch BY <1>1, <1>2 DEF BoundInv, UploadsBounded
<1>3. CASE batch' # batch
  <2>1. PICK S \in SUBSET UploadPending :
          /\ Cardinality(S) = Lesser(BucketLimit, Cardinality(UploadPending))
          /\ batch' = [batch EXCEPT !["upload"] = S]
    BY <1>3 DEF QueueUploads
  <2>2. batch'["upload"] = S BY <2>1 DEF TypeInv, TypeOK, Kind
  <2>3. Cardinality(S) <= MaxUploads - 2 * tasks_in_progress
    <3>1. UploadPending \in SUBSET Links BY DEF UploadPending
    <3>2. Cardinality(UploadPending) \in Nat BY <3>1, SetAssumption, Shrink
    <3>3. tasks_in_progress \in Int BY DEF TypeInv, TypeOK
    <3>4. /\ BucketLimit \in Int
          /\ BucketLimit <= MaxUploads - 2 * tasks_in_progress
      BY <3>3, LimitAssumption DEF BucketLimit, Lesser
    <3>5. QED BY <2>1, <3>2, <3>3, <3>4, LimitAssumption DEF Lesser
  <2>4. Cardinality(UploadTasks) <= Workers
    <3>1. UploadTasks \subseteq InHand
      BY DEF QueueUploads, NoneWaiting, UploadTasks, InHand, IsA, At, Writers, TypeInv,
         TypeOK, TaskInv, NoMessage
    <3>2. Cardinality(UploadTasks) <= Cardinality(InHand) BY <3>1, FiniteUploads, Shrink
    <3>3. QED BY <3>2, FiniteUploads, LimitAssumption DEF BoundInv, HandsFull
  <2>5. Cardinality(SubmittedUploads) <= tasks_in_progress + overconfirmed
    <3>1. SubmittedUploads \subseteq AwaitingFiles
      BY DEF SubmittedUploads, AwaitingFiles, Awaiting
    <3>2. Cardinality(SubmittedUploads) <= Cardinality(AwaitingFiles)
      BY <3>1, Finite, Shrink
    <3>3. tasks_in_progress \in Int /\ overconfirmed \in Nat BY DEF TypeInv, TypeOK
    <3>4. QED BY <3>2, <3>3, Finite, FiniteUploads DEF UndercountExplained
  <2>6. /\ tasks_in_progress \in Int /\ overconfirmed \in Nat
        /\ overconfirmed' = overconfirmed
        /\ Cardinality(UploadTasks)' = Cardinality(UploadTasks)
        /\ Cardinality(SubmittedUploads)' = Cardinality(SubmittedUploads)
    BY <1>1 DEF TypeInv, TypeOK
  <2>7. Cardinality(S) \in Nat BY <2>2, FiniteBatch
  <2>8. QED
    BY <2>2, <2>3, <2>4, <2>5, <2>6, <2>7, FiniteUploads, LimitAssumption
       DEF UploadsBounded
<1>4. QED BY <1>2, <1>3

\* Steps after which there are no more uploads anywhere than before.
Fewer == /\ UploadTasks' \subseteq UploadTasks
         /\ SubmittedUploads' \subseteq SubmittedUploads
         /\ batch'["upload"] \subseteq batch["upload"]
         /\ overconfirmed' >= overconfirmed

LEMMA FewerStep ==
    ASSUME TypeInv, TypeInv', UploadsBounded, Fewer
    PROVE  UploadsBounded'
<1>1. /\ Cardinality(UploadTasks)' <= Cardinality(UploadTasks)
      /\ Cardinality(SubmittedUploads)' <= Cardinality(SubmittedUploads)
      /\ Cardinality(batch'["upload"]) <= Cardinality(batch["upload"])
  BY FiniteUploads, FiniteBatch, Shrink DEF Fewer
<1>2. overconfirmed \in Nat /\ overconfirmed' \in Nat BY DEF TypeInv, TypeOK
<1>3. QED
  BY <1>1, <1>2, FiniteUploads, FiniteBatch, LimitAssumption DEF UploadsBounded, Fewer

\* Sending moves an upload from the list to a message, submitting from a
\* message to its file.
LEMMA BoundSend ==
    ASSUME TypeInv, TypeInv', UploadsBounded, NEW kind \in Kind, NEW l \in Links,
           NEW t \in Tasks, Send(kind, l, t)
    PROVE  UploadsBounded'
<1>0. SubmittedUploads' = SubmittedUploads /\ overconfirmed' = overconfirmed
  BY DEF Send, rowVars, SubmittedUploads
<1>1. /\ \A u \in Tasks \ {t} : task'[u] = task[u]
      /\ task'[t].kind = kind
      /\ t \notin UploadTasks
  <2>1. task[t] = NoMessage BY DEF Send, At, TypeInv, TaskInv
  <2>2. t \notin UploadTasks BY <2>1 DEF UploadTasks, IsA, NoMessage
  <2>3. PICK m \in Message : m.kind = kind /\ task' = [task EXCEPT ![t] = m]
    BY FreshTyped DEF Send
  <2>4. QED BY <2>2, <2>3 DEF TypeInv, TypeOK
<1>2. CASE kind = "upload"
  <2>1. UploadTasks' \subseteq UploadTasks \cup {t} BY <1>1 DEF UploadTasks, IsA
  <2>2. l \in batch["upload"] /\ batch'["upload"] \subseteq batch["upload"] \ {l}
    BY <1>2 DEF Send, TypeInv, TypeOK
  <2>3. /\ Cardinality(UploadTasks)' <= Cardinality(UploadTasks) + 1
        /\ Cardinality(batch'["upload"]) <= Cardinality(batch["upload"]) - 1
    BY <2>1, <2>2, FiniteUploads, FiniteBatch, Grow, Drop
  <2>4. overconfirmed \in Nat BY DEF TypeInv, TypeOK
  <2>5. QED
    BY <1>0, <2>3, <2>4, FiniteUploads, FiniteBatch, LimitAssumption DEF UploadsBounded
<1>3. CASE kind # "upload"
  <2>1. UploadTasks' \subseteq UploadTasks BY <1>1, <1>3 DEF UploadTasks, IsA
  <2>2. batch'["upload"] = batch["upload"] BY <1>3 DEF Send, TypeInv, TypeOK, Kind
  <2>3. Fewer BY <1>0, <2>1, <2>2 DEF Fewer, TypeInv, TypeOK
  <2>4. QED BY <2>3, FewerStep
<1>4. QED BY <1>2, <1>3

LEMMA BoundSubmit ==
    ASSUME TypeInv, TypeInv', UploadsBounded, NEW t \in Tasks, Submit(t)
    PROVE  UploadsBounded'
<1>0. batch' = batch /\ overconfirmed' = overconfirmed BY DEF Submit
<1>1. /\ task' = [task EXCEPT ![t] = NoMessage]
      /\ NoMessage.kind # "upload"
  BY DEF Submit, End, NoMessage
<1>2. UploadTasks' \subseteq UploadTasks \ {t}
  BY <1>1 DEF UploadTasks, IsA, TypeInv, TypeOK
<1>3. CASE IsA(t, "upload")
  <2>1. t \in UploadTasks BY <1>3 DEF UploadTasks
  <2>2. SubmittedUploads' \subseteq SubmittedUploads \cup {LinkOf(t)}
    BY DEF Submit, SubmittedUploads, TypeInv, TypeOK
  <2>3. /\ Cardinality(UploadTasks)' <= Cardinality(UploadTasks) - 1
        /\ Cardinality(SubmittedUploads)' <= Cardinality(SubmittedUploads) + 1
    BY <1>2, <2>1, <2>2, FiniteUploads, Grow, Drop
  <2>4. overconfirmed \in Nat BY DEF TypeInv, TypeOK
  <2>5. QED
    BY <1>0, <2>3, <2>4, FiniteUploads, FiniteBatch, LimitAssumption DEF UploadsBounded
<1>4. CASE ~IsA(t, "upload")
  <2>1. SubmittedUploads' \subseteq SubmittedUploads
    BY <1>4 DEF Submit, SubmittedStatus, SubmittedUploads, TypeInv, TypeOK
  <2>2. Fewer BY <1>0, <1>2, <2>1 DEF Fewer, TypeInv, TypeOK
  <2>3. QED BY <2>2, FewerStep
<1>5. QED BY <1>3, <1>4

\* Every other step of a task leaves fewer uploads, or as many.
LEMMA FewerTask ==
    ASSUME TypeInv, TypeInv', NEW t \in Tasks, Receive(t) \/ Run(t) \/ Mishap(t),
           ~Submit(t)
    PROVE  Fewer
<1>1. \A u \in Tasks \ {t} : task'[u] = task[u] BY OthersKept
<1>2. task'[t].kind \in {task[t].kind, "none"}
  <2>1. task[t] \in Message BY DEF TypeInv, TypeOK
  <2>2. CASE End(t) BY <2>2 DEF End, NoMessage, TypeInv, TypeOK
  <2>3. CASE UNCHANGED task BY <2>3
  <2>4. CASE \E a, c : Resend(t, a, c)
    BY <2>1, <2>4 DEF Resend, Message, TypeInv, TypeOK
  <2>5. CASE \E v : task' = [task EXCEPT ![t].title = v]
    BY <2>1, <2>5 DEF Message, TypeInv, TypeOK
  <2>6. CASE \E a : task' = [task EXCEPT ![t].attempts = a]
    BY <2>1, <2>6 DEF Message, TypeInv, TypeOK
  <2>7. QED
    BY <2>2, <2>3, <2>4, <2>5, <2>6 DEF Receive, Run, Mishap, UploadStart, UploadCreate,
       DeleteStart, Count, Mark, Request, Recount, ConfirmStart, Look, Confirm, Settle,
       RateLimited, Disconnected, RequestFails, LookFails, Lose
<1>3. UploadTasks' \subseteq UploadTasks BY <1>1, <1>2 DEF UploadTasks, IsA
<1>4. SubmittedUploads' \subseteq SubmittedUploads
  <2>1. CASE UploadCreate(t)
    BY <2>1 DEF UploadCreate, SubmittedUploads, TypeInv, TypeOK
  <2>2. CASE Mark(t)
    BY <2>2 DEF Mark, AttemptStatus, SubmittedUploads, TypeInv, TypeOK
  <2>3. CASE Confirm(t)
    BY <2>3 DEF Confirm, ConfirmedStatus, SubmittedUploads, TypeInv, TypeOK
  <2>4. CASE UNCHANGED file BY <2>4 DEF SubmittedUploads
  <2>5. QED
    BY <2>1, <2>2, <2>3, <2>4 DEF Receive, Run, Mishap, UploadStart, DeleteStart, Count,
       Request, Recount, ConfirmStart, Look, Settle, RateLimited, Disconnected,
       RequestFails, LookFails, Lose, rowVars
<1>5. batch' = batch
  BY DEF Receive, Run, Mishap, UploadStart, UploadCreate, DeleteStart, Count, Mark,
     Request, Recount, ConfirmStart, Look, Confirm, Settle, RateLimited, Disconnected,
     RequestFails, LookFails, Lose
<1>6. overconfirmed' >= overconfirmed
  <2>1. overconfirmed \in Nat BY DEF TypeInv, TypeOK
  <2>2. CASE Confirm(t) BY <2>1, <2>2 DEF Confirm
  <2>3. CASE UNCHANGED overconfirmed BY <2>1, <2>3
  <2>4. QED
    BY <2>2, <2>3 DEF Receive, Run, Mishap, UploadStart, UploadCreate, DeleteStart, Count,
       Mark, Request, Recount, ConfirmStart, Look, Settle, RateLimited, Disconnected,
       RequestFails, LookFails, Lose
<1>7. QED BY <1>3, <1>4, <1>5, <1>6 DEF Fewer

LEMMA FewerElsewhere ==
    ASSUME TypeInv, TypeInv',
           \/ QueueUploadConfirmations \/ QueueDeletionConfirmations \/ QueueDeletions
           \/ \E kind \in Kind : StopSending(kind)
           \/ \E l \in Links : WorkOff(l) \/ Toggle(l) \/ EditTitle(l)
           \/ UNCHANGED vars
    PROVE  Fewer
<1>1. UNCHANGED <<task, file, overconfirmed>>
  BY DEF QueueUploadConfirmations, QueueDeletionConfirmations, QueueConfirmations,
     QueueDeletions, StopSending, WorkOff, Toggle, EditTitle, vars, rowVars, taskVars
<1>2. batch'["upload"] \subseteq batch["upload"]
  BY DEF QueueUploadConfirmations, QueueDeletionConfirmations, QueueConfirmations,
     QueueDeletions, StopSending, WorkOff, Toggle, EditTitle, vars, TypeInv, TypeOK, Kind
<1>3. overconfirmed \in Nat BY DEF TypeInv, TypeOK
<1>4. QED BY <1>1, <1>2, <1>3 DEF Fewer, UploadTasks, IsA, SubmittedUploads

LEMMA BoundStep ==
    ASSUME TypeInv, TypeInv', UndercountExplained, BoundInv, [Next]_vars
    PROVE  BoundInv'
<1>1. HandsFull' BY HandsStep DEF BoundInv
<1>2. UploadsBounded'
  <2>1. ASSUME NEW t \in Tasks, Receive(t) \/ Run(t) \/ Mishap(t) PROVE UploadsBounded'
    BY <2>1, BoundSubmit, FewerTask, FewerStep DEF BoundInv
  <2>2. CASE QueueUploads BY <2>2, BoundQueueUploads
  <2>3. ASSUME NEW kind \in Kind, NEW l \in Links, NEW t \in Tasks, Send(kind, l, t)
        PROVE  UploadsBounded'
    BY <2>3, BoundSend DEF BoundInv
  <2>4. CASE \/ QueueUploadConfirmations \/ QueueDeletionConfirmations \/ QueueDeletions
             \/ \E kind \in Kind : StopSending(kind)
             \/ \E l \in Links : WorkOff(l) \/ Toggle(l) \/ EditTitle(l)
             \/ UNCHANGED vars
    BY <2>4, FewerElsewhere, FewerStep DEF BoundInv
  <2>5. QED BY <2>1, <2>2, <2>3, <2>4 DEF Next, Queuing, Sending
<1>3. QED BY <1>1, <1>2 DEF BoundInv

\* Uploads under way exceed MAX_SIMULTANEOUS_UPLOADS by no more than what the
\* workers hold, as long as no confirmation came twice.
THEOREM UploadsAlwaysBounded == Spec => []UploadsBounded
<1>1. Spec => []BoundInv
  BY TypeAlways, UndercountAlwaysExplained, BoundInit, BoundStep, PTL DEF Spec
<1>2. BoundInv => UploadsBounded BY DEF BoundInv
<1>3. QED BY <1>1, <1>2, PTL

=============================================================================
