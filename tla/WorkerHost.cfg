SPECIFICATION Spec
CONSTANTS
    Workers = {w1, w2}
    MaxAttempts = 3
    Savers = {1}
    MaxSaves = 2
    MaxFaults = 1
INVARIANTS TypeOK LiveSandboxKept ImagesAgree
PROPERTIES BuildMerged EvidenceArrives
CHECK_DEADLOCK FALSE
