\* A partial write while the AFU waits for its own read's data.
CONSTANTS
    Tags <- MC_OneTag
    HostKinds <- MC_WriteKinds
    HostTargets = {"ctx", "other"}
    HostOverlap = FALSE
    EnableInit = {TRUE}
    DescReset = FALSE
    CmdCredits = 1
    MaxOwed = 1
SPECIFICATION Spec
PROPERTY HostCommandAnswered
