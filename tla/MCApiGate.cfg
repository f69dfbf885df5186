SPECIFICATION Spec
CONSTANTS
  Emails = {e1}
  Ips = {i1}
  Tiers <- MCTiers
  DefaultTier = "free"
  Rate <- MCRate
  Quota <- MCQuota
  AnonRate = 1
  Second = 2
  MaxTime = 3
  MaxDays = 1
  MaxFaults = 1
  MaxVisits = 1
INVARIANTS BurstBounded NobodyStarved QuotaHolds
CHECK_DEADLOCK FALSE
