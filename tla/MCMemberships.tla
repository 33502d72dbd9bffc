--------------------------- MODULE MCMemberships ---------------------------
(* Memberships with the rules of Access, for TLC.                          *)
EXTENDS Access, Expiry, TLC

MembershipsSymmetry == Permutations(Requests)

=============================================================================
