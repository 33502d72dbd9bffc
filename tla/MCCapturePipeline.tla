------------------------- MODULE MCCapturePipeline -------------------------
(* Model values and symmetry for checking CapturePipeline with TLC.        *)
EXTENDS CapturePipeline, TLC

WorkerSymmetry == Permutations(Workers)

=============================================================================
