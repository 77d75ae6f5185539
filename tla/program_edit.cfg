SPECIFICATION Spec
CONSTANTS
    ProgramCount = 2
    SlotCount = 3
    PhysicalStations = 12
    Factory <- MCFactory
    Changes <- MCChanges
    Requests <- MCRequests
    Cuts = {3}
    MaxDays = 2
    MaxJobs = 2
INVARIANT TypeOK
INVARIANT EditExact
INVARIANT RunsOnItsDays
PROPERTY RestoreExact
CHECK_DEADLOCK FALSE
