--------------------------- MODULE CaptureService ---------------------------
(***************************************************************************)
(* What the capture pipeline promises the person who submits a link, with  *)
(* no queue, worker, sweep or stale object in it: a request is queued once,*)
(* worked on once and ends once; the link can be played back from the      *)
(* moment its request is archived until its owner deletes it, and at no    *)
(* other time; only the deletion of the link makes a request be dropped.   *)
(***************************************************************************)
CONSTANT Requests

VARIABLES
    state,      \* of each request: CaptureJob.status as its owner reads it
    playable,   \* Link.can_play_back
    gone        \* the owner has deleted the link

vars == <<state, playable, gone>>

State == {"none", "queued", "working", "archived", "failed", "dropped"}

TypeOK ==
    /\ state \in [Requests -> State]
    /\ playable \in [Requests -> BOOLEAN]
    /\ gone \in [Requests -> BOOLEAN]

Init ==
    /\ state = [r \in Requests |-> "none"]
    /\ playable = [r \in Requests |-> FALSE]
    /\ gone = [r \in Requests |-> FALSE]

Move(r, from, to) ==
    /\ state[r] = from
    /\ state' = [state EXCEPT ![r] = to]

\* The owner's own file is the archive: there is nothing to capture.
Upload(r) ==
    /\ state[r] = "none"
    /\ playable' = [playable EXCEPT ![r] = ~gone[r]]
    /\ UNCHANGED <<state, gone>>

Submit(r) == Move(r, "none", "queued") /\ UNCHANGED <<playable, gone>>

Start(r) == Move(r, "queued", "working") /\ UNCHANGED <<playable, gone>>

Archive(r) ==
    /\ Move(r, "working", "archived")
    /\ playable' = [playable EXCEPT ![r] = ~gone[r]]
    /\ UNCHANGED gone

Fail(r) == Move(r, "working", "failed") /\ UNCHANGED <<playable, gone>>

\* One sweep drops every queued request of a deleted link; a worker that has
\* already started one drops it by itself.
Drop(R) ==
    /\ \A r \in R : gone[r] /\ state[r] \in {"queued", "working"}
    /\ state' = [r \in Requests |-> IF r \in R THEN "dropped" ELSE state[r]]
    /\ UNCHANGED <<playable, gone>>

Delete(r) ==
    /\ ~gone[r]
    /\ gone' = [gone EXCEPT ![r] = TRUE]
    /\ playable' = [playable EXCEPT ![r] = FALSE]
    /\ UNCHANGED state

Next ==
    \/ \E R \in SUBSET Requests : Drop(R)
    \/ \E r \in Requests :
         Submit(r) \/ Start(r) \/ Archive(r) \/ Fail(r) \/ Delete(r) \/ Upload(r)

Spec == Init /\ [][Next]_vars

\* A request that is archived was worked on, and what it left can be played
\* back for as long as the link is there.
ArchivedIsPlayable ==
    \A r \in Requests : state[r] = "archived" => playable[r] = ~gone[r]

=============================================================================
