\* One shard, three traces, unbuffered channel, compression that may fail, one
\* regulator run, decision caches of one entry, a decision span for "not sampled".
CONSTANTS
  a1 = a1  a2 = a2  aYes = aYes  aNo = aNo  b1 = b1  b2 = b2  c1 = c1
  a = a  b = b  c = c
  r1 = r1  r2 = r2  r3 = r3  r4 = r4  s1 = s1  s2 = s2
  None = None
  TraceOf <- MCTraceOf
  KindOf <- MCKindOf
  RequestOf <- MCRequestOf
  Traces = {a, b, c}
  Batches = {a1, a2, aNo, b1, c1}
  Requests = {r1, r2, r4}
  Shards = {s1}
  ShardOf <- OneShard
  PrimaryCacheSize = 2
  SecondaryCacheSize = 1
  SampledCacheSize = 1
  NonSampledCacheSize = 1
  PreprocessBufferSize = 0
  CompressionEnabled = TRUE
  TargetHeap = 100
  HeapReadings = {50, 140}
  MaxTicks = 1
SPECIFICATION Spec
INVARIANTS OneVerdict NonSampledIsReleased NoSilentLoss
PROPERTY ImplementsSpanFate
