\* A remote_probabilistic policy below an and policy.
CONSTANTS
  Rv = 5
  MaxThreshold = 15
  MaxHash = 100
  NoPolicy = NoPolicy
  NoTrace = NoTrace
  NoRecord = NoRecord
  Configs <- NestedToTry
  Extensions = {"rates"}
  BatchShapes <- BatchesPlain
  RemoteReadings <- Readings
  MaxSpans = 4
SPECIFICATION Spec
INVARIANT EveryEvaluatorStarted
