SPECIFICATION Spec
CONSTANTS
    Workflows = {"w53", "w54", "w55", "w56", "w57c", "w57r", "w58b", "w58m",
                 "w59", "w60", "w61", "w62", "w64", "w66", "w67", "w68"}
    Gki <- McGki
    SourceTrees <- McSourceTrees
    Complete <- McComplete
    MaxPasses = 2
INVARIANTS
    PatchSound
    RefusedOnlyForCause
    Converged
    EveryProbeOnce
    CountsAddUp
PROPERTIES
    PassEnds
CHECK_DEADLOCK FALSE
