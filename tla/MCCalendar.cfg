CONSTANTS
    Seasons <- MCSeasons
    Triggers <- MCTriggers
    Sun <- MCSun
    None = None
SPECIFICATION Spec
INVARIANTS
    TypeOK
    OnSchedule
PROPERTIES
    OncePerLocalDay
CHECK_DEADLOCK FALSE
