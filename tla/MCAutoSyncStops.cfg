CONSTANTS
    b0 = b0 
    l1 = l1 
    l2 = l2
    r1 = r1 
    r2 = r2
    f1 = f1
    f2 = f2
    Edit <- MCEdit
    File <- MCFile
    FileOf <- MCFileOf
    LocalEdit <- MCOneLocalEdit
    RemoteEdit <- MCOneRemoteEdit
    InitialHistory <- MCInitialEmpty
    PushAttempts = 2
    MaxForcePush = 1
    MaxStops = 2
SPECIFICATION Spec
INVARIANTS
    TypeOK
    NoCommittedWorkLost
    SyncingOnlyWhileRunning
    MidRebaseQuiet
PROPERTIES
    SuccessMeansSynced
    ConflictToldOnce
