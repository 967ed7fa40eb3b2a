SPECIFICATION Spec
CONSTANTS
  lastMinute = lastMinute
  spread = spread
  tagged = tagged
  untagged = untagged
  quality = quality
  text = text
  month = month
  next = next
  squeezed = squeezed
  Distinct = {}
  Supported = {lastMinute, spread}
  Message = {lastMinute, spread}
  SeriesOf <- MCSeriesOf
  Names <- MCNames
  Shard = {month, next}
  ObsShards <- MCObsShards
  AggShards <- MCAggShards
  Squeezed <- MCSqueezed
  MaxCrashes = 0
INVARIANT IndicesUpToDate
CHECK_DEADLOCK FALSE
