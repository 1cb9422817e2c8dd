SPECIFICATION FairSpec
CONSTANTS
    Drafts = {2}
    Legacy = 1
    Switching = TRUE
    Restarting = TRUE
    Ambiguous = FALSE
    None = None
    MaxProfiles = 1
    MaxIncidents = 1
PROPERTIES SetupIsReady MonitorFollowsWhole
