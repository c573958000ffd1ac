SPECIFICATION FirmwareFairSpec
CONSTANTS
    Chunks = 2
    MaxAttempts = 2
    MaxFaults = 2
    home = home
    Creds = {home}
    Controls <- MCControls
    Configs <- MCConfigs
    BuiltIn <- MCBuiltIn
INVARIANTS
    AlwaysBootable
    RefusalReported
    SettingsInForce
PROPERTY
    UpdateLands
\* nothing need happen after the last attempt
CHECK_DEADLOCK FALSE
