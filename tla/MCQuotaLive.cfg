SPECIFICATION FairSpec
CONSTANTS
  Requests = {r1}
  Syncs = {sync}
  NoRequest = nobody
  Links = {l1}
  NoLink = nolink
  Purchases = {p1}
  Tiers <- TwoTiers
  DefaultLimit = 1
  MaxBonus = 1
  MaxOutages = 1
  MaxDeals = 2
INVARIANTS PendingTierIsCurrent
PROPERTIES PurchaseCredited
CHECK_DEADLOCK FALSE
