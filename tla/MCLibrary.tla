----------------------------- MODULE MCLibrary -----------------------------
(* Symmetry for checking LibraryAdmin with TLC.                            *)
EXTENDS LibraryAdmin, TLC

LibrarySymmetry ==
    Permutations(Requests) \cup Permutations(Links)
        \cup Permutations(Start) \cup Permutations(Folders \ (Roots \cup Start))

=============================================================================
