SPECIFICATION Spec
CONSTANTS
    d1 = d1
    d2 = d2
    Runs <- MCRuns
    Scenarios <- MCScenarios
    MaxPolls = 2
    NoCode = NoCode
    Partial = Partial
INVARIANTS CompleteMeansDeployed DeploysOwnBuild
PROPERTIES EveryRunEnds PolicyFollowsRole
CHECK_DEADLOCK FALSE
