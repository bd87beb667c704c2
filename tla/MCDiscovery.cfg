SPECIFICATION Spec
CONSTANTS
    m1 = m1
    m2 = m2
    news = news
    alerts = alerts
    my_app = my_app
    my__app = my__app
    reader = reader
    x = x
    x1 = x1
    y = y
    NoApp = NoApp
    NoId = NoId
    Apps <- MCApps
    Folders <- MCFolders
    Migs <- MCMigs
    Versions <- MCVersions
    Ships <- MCShips
    Passwords <- MCPasswords
    StreamNames <- MCStreamNames
    Ids <- MCIds
    CandidateIds <- MCCandidateIds
    Publishes <- MCPublishes
    Subscribes <- MCSubscribes
INVARIANTS
    TypeOK
    RunningAppCanConnect
    RegisteredAppIsMigrated
    MigrationsRunOnce
    
    SubscribersHaveGroups
PROPERTIES
    DataSurvives
