\* A host with two write commands open at once.
CONSTANTS
    Tags <- MC_Tags
    HostKinds <- MC_WriteKinds
    HostTargets = {"other"}
    HostOverlap = TRUE
    EnableInit = {FALSE}
    DescReset = FALSE
    CmdCredits = 1
    MaxOwed = 1
SPECIFICATION Spec
PROPERTY RespondsToOpenCommand
