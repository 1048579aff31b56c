SPECIFICATION SchemaApplySpec
CONSTANTS
    Procs = {p1, p2}
    Consenting = {}
    Features = {1}
    Faults = {}
    MaxEdits = 1
    MaxApplies = 2
    MaxSeconds = 1
INVARIANT JournalIsNeverCorrupted
CHECK_DEADLOCK FALSE
