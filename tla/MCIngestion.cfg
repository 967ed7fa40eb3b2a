SPECIFICATION IngestionSpec
CONSTANTS
  lastMinute = lastMinute
  spread = spread
  tagged = tagged
  untagged = untagged
  quality = quality
  text = text
  month = month
  next = next
  squeezed = squeezed
  Distinct = {month}
  Supported = {lastMinute, published}
  published = published
  r1 = r1
  Request = {r1}
  Carries <- MCCarries
  Published = {published}
  MaxFaults = 1
  Message = {lastMinute, text, published}
  SeriesOf <- MCSeriesOf
  Names <- MCNames
  Shard = {month, next}
  ObsShards <- MCObsShards
  AggShards <- MCAggShards
  Squeezed <- MCSqueezed
  MaxCrashes = 1
INVARIANTS TypeOK ShardRowsHaveData AggregatesIndexed
PROPERTY AcceptedIsFound
CHECK_DEADLOCK FALSE
