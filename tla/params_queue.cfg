SPECIFICATION QueueSpec
CONSTANTS
    Length = 3
    simulator = simulator
    Consumer = {simulator}
    MaxProduced = 8
INVARIANTS WholeMessages OrderedUpToLaps NeverALapAhead
PROPERTY ReachesLatest
CHECK_DEADLOCK FALSE
