CONSTANTS
    MaxFailures = 2
    Scenes <- SUnnamed

SPECIFICATION Spec

PROPERTY PromotedIsComplete

CHECK_DEADLOCK FALSE
