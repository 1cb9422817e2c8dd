SPECIFICATION DecisionsSpec
CONSTANTS
    None = None
    MaxProfiles = 2
    MaxVersion = 1
    MaxSessions = 1
INVARIANTS DecisionsTypeOK DraftsAreSafe OneApplication OptionalSound
PROPERTIES SelectionSound
CHECK_DEADLOCK FALSE
