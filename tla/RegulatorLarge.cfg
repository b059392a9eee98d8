\* primary_cache_size 240: every size from a quarter of it up to the whole.
CONSTANTS
  MinSize = 60
  MaxSize = 240
  TargetHeap = 100
  HeapReadings = {60, 84, 85, 100, 101, 108, 115, 116, 120, 125, 130, 131}
SPECIFICATION FairSpec
INVARIANTS RegulatorTypeOK MorePressureNeverLarger
PROPERTIES FollowsPressure ShedsUnderPressure GrowsBack
