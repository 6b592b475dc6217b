SPECIFICATION LimiterSpec
CONSTANTS
  RefillPerSec = 3
  Burst = 4
  Unit = 5
  MaxAccrued = 30
INVARIANTS BucketTypeOK BurstBound
PROPERTY NeverRefusedEarly
