\* A node of one listener is shut down, and a peer takes over.
CONSTANTS
  a1 = a1  a2 = a2  b1 = b1  a = a  b = b  s1 = s1
  DecisionExport = DecisionExport
  TraceOf <- MCTraceOf
  ShardOf <- MCShardOf
  Groups = {a1, a2, b1}
  Traces = {a, b}
  Shards = {s1}
  PrimarySize = 1
  SecondarySize = 1
  SampledSize = 1
  NonSampledSize = 1
  PreprocessBufferSize = 2
  FlushOnShutdown = TRUE
  FlushLimit = 2
SPECIFICATION FairSpec
INVARIANTS PeerIsOfOneMind
PROPERTIES NothingIsStranded NodesImplementSpanFate
