\* A sequential host against an AFU that never finds a context.
CONSTANTS
    Tags <- MC_Tags
    HostKinds <- MC_AllKinds
    HostTargets = {"other"}
    HostOverlap = FALSE
    EnableInit = {TRUE}
    DescReset = FALSE
    CmdCredits = 2
    MaxOwed = 1
SPECIFICATION Spec
PROPERTY RespondsToOpenCommand
PROPERTY HostCommandAnswered
PROPERTY HostAccessRefined
