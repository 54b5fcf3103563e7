SPECIFICATION StoreSpec
CONSTANT Generations = 8
INVARIANTS FingerprintStable OnlyKeyWriteWedges
CHECK_DEADLOCK FALSE
