\* A lone root span, then another span: the trace does not stay low.
CONSTANTS
  Rv = 5
  MaxThreshold = 15
  MaxHash = 100
  NoPolicy = NoPolicy
  NoTrace = NoTrace
  NoRecord = NoRecord
  Configs <- LonelyToTry
  Extensions = {"rates"}
  BatchShapes <- BatchesPlain
  RemoteReadings <- Readings
  MaxSpans = 4
SPECIFICATION Spec
PROPERTY RootSpansStaysLow
