SPECIFICATION Spec
CONSTANTS
    Drafts = {1}
    Legacy = 0
    Switching = TRUE
    Restarting = FALSE
    Ambiguous = TRUE
    None = None
    MaxProfiles = 2
    MaxIncidents = 1
INVARIANTS TypeOK CopyIsActive NeverMixed
PROPERTIES KeepsMonitoring
