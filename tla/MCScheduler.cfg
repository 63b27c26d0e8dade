CONSTANTS
    FSLag = 1
    BatchWindow = 0
    Cooldown = 1
    ErrorBackoffMin = 1
    ErrorBackoffMax = 2
    OfflineBackoffMin = 2
    OfflineBackoffMax = 3
    TriggerCap = 1
SPECIFICATION Spec
INVARIANTS
    TypeOK
    EditScheduled
    OfflineRetried
PROPERTIES
    HoldHonoured
