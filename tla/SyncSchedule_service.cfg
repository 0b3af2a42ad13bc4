SPECIFICATION FairSpec
CONSTANTS
    None = None
    Service = Service
    m1 = m1
    Mcp <- OneMcp
    Sweeps <- Housekeeping
    MaxChanges = 2
    MaxFailures = 1
    MaxToggles = 2
INVARIANTS TypeOK ChangeHasARunAhead
PROPERTIES MostUrgentFirst ChangeIsPickedUp ServiceSendsAll
