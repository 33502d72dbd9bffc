------------------------- MODULE CaptureRefinement -------------------------
(***************************************************************************)
(* CapturePipeline implements CaptureService for the links whose owner     *)
(* never replaces the capture with a file.                                 *)
(***************************************************************************)
EXTENDS CapturePipeline

Requests == Links \ Replacers

\* The request as the API reports it (CaptureJobSerializer shows the status
\* of the job attached to the link).
RequestState(l) ==
    CASE job[l].status = "invalid"     -> "none"
      [] job[l].status = "pending"     -> "queued"
      [] job[l].status = "in_progress" -> "working"
      [] job[l].status = "completed"   -> "archived"
      [] job[l].status = "failed"      -> "failed"
      [] job[l].status = "deleted"     -> "dropped"

Service == INSTANCE CaptureService WITH
    state <- [l \in Requests |-> RequestState(l)],
    playable <- [l \in Requests |-> Playable(l)],
    gone <- [l \in Requests |-> user_deleted[l]]

\* Every behaviour of the pipeline is a behaviour of the service.
ServiceSpec == Service!Spec

=============================================================================
