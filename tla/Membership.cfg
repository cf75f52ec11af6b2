CONSTANTS
    Deployments <- MCDeployments
    Null = Null
SPECIFICATION Spec
INVARIANTS IdsDistinct RoutesAgree CrashContained
PROPERTIES StartEnds StopEnds
CHECK_DEADLOCK FALSE
