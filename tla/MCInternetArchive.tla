------------------------- MODULE MCInternetArchive -------------------------
(* Symmetry for checking InternetArchive with TLC.                         *)
EXTENDS InternetArchive, TLC

TaskSymmetry == Permutations(Tasks)

=============================================================================
