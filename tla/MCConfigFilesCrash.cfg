SPECIFICATION Spec
CONSTANTS
    Config = {a}
    MaxVersion = 2
    MaxCrashes = 1
    MaxFaults = 0
    MaxFull = 0
PROPERTY ConfigSurvivesCrash
