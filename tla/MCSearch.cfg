SPECIFICATION SearchSpec
CONSTANTS
  m1 = m1  m2 = m2
  owner = owner  quality = quality
  good = good  bad = bad
  patch1 = patch1  put1 = put1
  s1 = s1  s2 = s2
  Metric = {m1, m2}
  Name = {owner, quality}
  Value = {good, bad}
  Request = {patch1, put1}
  Kind <- MCKind
  Target <- MCTarget
  Tags <- MCTags
  Initial <- MCInitial
  Series <- MCSeries
  Fresh <- MCFresh
  Shard = {s1, s2}
  Global = global
  None = none
  Filter <- MCFilter
  Weight <- MCWeight
  Query <- MCQuery
INVARIANTS SearchTypeOK LastRequestStands DiscardedForGood SteadyExact
CHECK_DEADLOCK FALSE
