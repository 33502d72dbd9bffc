------------------------ MODULE MCCaptureRefinement ------------------------
(* Symmetry for checking CapturePipeline against CaptureService with TLC.  *)
EXTENDS CaptureRefinement, TLC

\* Sound while Replacers is empty: no link is told apart from another.
FullSymmetry == Permutations(Workers) \cup Permutations(Links)

=============================================================================
