CONSTANTS
  LeadIds = {l1}
  Employees = {a1}
  Unset = Unset
  Dates = {}
  Outcomes = {"contacted", "followup_closed"}
  LeadRequests = {s1, s2}
  MaxRequests = 4
  Students = {n1}
  Payments = {m1, m2}
  Payer <- OnePayer
  Syncs = {s1, s2}
  AdminMade = {m2}
  MaxFired = 2
  Labels = {web, WEB}
  LowerCase <- OneClass
  Kinds = {"name"}
  RowIds = {i1, i2, i3}
  OfferingIds = {o1, o2}
  Nothing = Nothing
  Clerks = {s1, s2}
  MaxClerkRequests = 3
  SeedDurations <- SeedLabels
  SeedCourses <- SeedLabels
  SeedDuration <- OneDuration
  SeedDefaults <- General
  Tiers = {g1, g2}
  Slots = {z1}
  PlanIds = {k1, k2}
  Buyers = {b1}
  Unpriced = Unpriced
  Editors = {s1, s2}
  MaxEdits = 4
  Configs = {env, x1, x2}
  SeedConfig = env
  Orders = {o1}
  NoConfig = NoConfig
  Tasks = {s1, s2}
  MaxTasks = 4
  Filters = {f1, f2}
  MaxKeys = 1
  CountTtl = 2
  MaxLoad = 1
  MaxCount = 1
  MaxTicks = 8
  Addresses = {n1, n2}
  Visited = n1
  PaymentIds = {1, 2, 3}
  PageSize = 1
  MaxOffset = 1
  ExportBatch = 1
  OwnedAtFirst = 2
  MaxTableWrites = 3
  Plans = {g1}
  Terms <- SomeTerms
  NoTerm = NoTerm
  NoPlan = NoPlan
  MonthStarts <- Calendar
  LastDay = 2
  MaxBought = 2
  MaxWindowOrders = 2
SPECIFICATION Spec
CHECK_DEADLOCK FALSE
INVARIANT WindowStartsWhenPaid
