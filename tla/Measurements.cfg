SPECIFICATION Spec
CONSTANTS
  Order <- MCOrder
  RunIds = {r1, r2}
INVARIANTS TypeOK DiskAgrees DiskAlwaysAgrees
PROPERTIES WritesOnlyChecked EndedBuildIsWhole
