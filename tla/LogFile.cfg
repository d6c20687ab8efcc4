\* Six batches, a file has room for two or three of them, one size is too large for any.
SPECIFICATION Spec
CONSTANTS
    Sizes = {1, 2, 5}
    MaxBytes = 4
    MaxBatches = 6
    Faults = {"rename", "reopen", "write"}
    None = None
INVARIANTS OnlyOldestGo SizeBounded
