\* Configurations good and bad; every kind of policy, up to five pending spans, batches of one and two spans.
CONSTANTS
  Rv = 5
  MaxThreshold = 15
  MaxHash = 100
  NoPolicy = NoPolicy
  NoTrace = NoTrace
  NoRecord = NoRecord
  Configs <- ToTry
  Extensions = {"rates"}
  BatchShapes <- Batches
  RemoteReadings <- Readings
  MaxSpans = 5
SPECIFICATION Spec
INVARIANTS MetadataIsExact BatchingDoesNotMatter ValidatedSizesWork PlaceholderStandsAlone
PROPERTY LowPriorityIsConsistent
