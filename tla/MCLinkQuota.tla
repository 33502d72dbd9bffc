---------------------------- MODULE MCLinkQuota ----------------------------
(* Tiers and symmetry for checking LinkQuota with TLC.                     *)
EXTENDS LinkQuota, TLC

SmallTier == [limit |-> 1, rate |-> 1, period |-> "monthly"]
LargeTier == [limit |-> 2, rate |-> 2, period |-> "monthly"]
TwoTiers == {SmallTier, LargeTier}

QuotaSymmetry ==
    Permutations(Requests) \cup Permutations(Links) \cup Permutations(Purchases)

=============================================================================
