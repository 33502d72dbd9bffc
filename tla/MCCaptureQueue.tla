--------------------------- MODULE MCCaptureQueue ---------------------------
(* Two users of the human queue and a robot, for checking CaptureQueue with TLC. *)
EXTENDS CaptureQueue, TLC

CONSTANTS ann, bob, robot
TwoQueues == {<<ann, TRUE>>, <<bob, TRUE>>, <<robot, FALSE>>}

QueueSymmetry == Permutations(Requests) \cup Permutations({ann, bob})

=============================================================================
