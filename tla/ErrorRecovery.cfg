SPECIFICATION Spec
CONSTANTS
    a1 = a1
    a2 = a2
    Apps <- MCApps
    FailureThreshold = 2
    MaxFailures = 3
    MaxBoots = 1
PROPERTY
    AliveErrorAppIsChecked
