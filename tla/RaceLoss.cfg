\* Two shards: a trace is decided between its eviction and the callback.
CONSTANTS
  a1 = a1  a2 = a2  aYes = aYes  aNo = aNo  b1 = b1  b2 = b2  c1 = c1
  a = a  b = b  c = c
  r1 = r1  r2 = r2  r3 = r3  r4 = r4  s1 = s1  s2 = s2
  None = None
  TraceOf <- MCTraceOf
  KindOf <- MCKindOf
  RequestOf <- MCRequestOf
  Traces = {a, b}
  Batches = {a1, a2, b1}
  Requests = {r1, r2}
  Shards = {s1, s2}
  ShardOf <- TwoShards
  PrimaryCacheSize = 2
  SecondaryCacheSize = 1
  SampledCacheSize = 1
  NonSampledCacheSize = 2
  PreprocessBufferSize = 1
  CompressionEnabled = FALSE
  TargetHeap = 100
  HeapReadings = {50}
  MaxTicks = 0
SPECIFICATION Spec
INVARIANT NoSilentLoss
