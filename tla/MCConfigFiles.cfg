SPECIFICATION FairSpec
CONSTANTS
    Config = {a}
    MaxVersion = 3
    MaxCrashes = 2
    MaxFaults = 1
    MaxFull = 1
INVARIANTS TypeOK SavedIsLoaded NotOlderThanBackup BackupCovers FinalSaveComplete
PROPERTY ChangeSaved
