SPECIFICATION Spec
CONSTANTS
    Kinds = {"snapshot", "fixture"}
    MaxAttempts = 3
    Turns = 2
    Patches = {p1}
    OutOfScope = {}
    TestEdits = {}
    Probe = Probe
    TestPatch = TestPatch
    MaxBatch = 2
    MaxLive = 2
    MAX_STUCK_REPEATS = 2
INVARIANT PatchesKept
CHECK_DEADLOCK FALSE
