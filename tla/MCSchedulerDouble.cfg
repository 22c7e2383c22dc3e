CONSTANTS
    Ids = {s1}
    Handles = {h1, h2, h3}
    D = 3
    Slots = {0, 1, 3}
    None = None
SPECIFICATION Spec
INVARIANT AtMostOncePerOccurrence
