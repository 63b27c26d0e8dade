CONSTANTS
    FSLag = 0
    BatchWindow = 1
    Cooldown = 0
    ErrorBackoffMin = 1
    ErrorBackoffMax = 1
    OfflineBackoffMin = 2
    OfflineBackoffMax = 2
    TriggerCap = 1
SPECIFICATION LiveSpec
PROPERTIES
    EditCommitted
    ForceHonoured
