CONSTANTS
    MaxRouteID = 2
    KeepAlives = {1, 2}
    MaxAge = 3
    Persistent = TRUE
    MaxRestarts = 1
SPECIFICATION FairSpec
INVARIANTS TypeOK CleanupSparesActive RestoredRulesAreDead
PROPERTIES NeverReissued ExpiredCollected
