\* primary_cache_size 100: the cache can be shrunk to sizes that never grow.
CONSTANTS
  MinSize = 25
  MaxSize = 100
  TargetHeap = 100
  HeapReadings = {60, 90, 131}
SPECIFICATION FairSpec
PROPERTY GrowsBack
