SPECIFICATION MCSpec
CONSTANT Functions <- Nested
INVARIANTS NoMissingValue DeadValuesFreed
