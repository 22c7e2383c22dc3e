CONSTANTS
    Seasons <- MCSeasons
    Triggers <- MCTriggers
    Sun <- MCSun
    None = None
SPECIFICATION Spec
INVARIANT WallTimeKept
CHECK_DEADLOCK FALSE
