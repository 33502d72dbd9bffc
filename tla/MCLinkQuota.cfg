SPECIFICATION Spec
CONSTANTS
  Requests = {r1, r2}
  Syncs = {}
  NoRequest = nobody
  Links = {l1, l2}
  NoLink = nolink
  Purchases = {p1}
  Tiers <- TwoTiers
  DefaultLimit = 1
  MaxBonus = 1
  MaxOutages = 1
  MaxDeals = 1
SYMMETRY QuotaSymmetry
INVARIANTS QuotaInv
PROPERTIES QuotaKept BonusLinkCostsOne
CHECK_DEADLOCK FALSE
