\* Two listeners drain their channels, decisions are forgotten, two slots export
\* three things, and the context may end at any time or never.
CONSTANTS
  a1 = a1  a2 = a2  b1 = b1  c1 = c1  a = a  b = b  c = c  s1 = s1  s2 = s2
  DecisionExport = DecisionExport
  TraceOf <- MCTraceOf
  ShardOf <- MCShardOf
  Groups = {a1, a2, b1, c1}
  Traces = {a, b, c}
  Shards = {s1, s2}
  PrimarySize = 1
  SecondarySize = 1
  SampledSize = 1
  NonSampledSize = 1
  PreprocessBufferSize = 2
  FlushOnShutdown = TRUE
  FlushLimit = 2
SPECIFICATION FairLifecycle
INVARIANTS  OnlyLateSpansAreLost PanicsOnlyBeforeFlush SampledIsNotFlushed
PROPERTIES ShutdownReturns RoughlyOldestFirst
