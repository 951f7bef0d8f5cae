CONSTANTS
    MaxFailures = 2
    Scenes <- SBroker

SPECIFICATION Spec

INVARIANTS
    FixOfItsTask
    AcknowledgedIsKept

CHECK_DEADLOCK FALSE
