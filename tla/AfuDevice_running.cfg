\* A sequential host with two capptags that enables the AFU and writes a
\* context word, so the AFU runs its status polling and command issue beside the host's commands.
CONSTANTS
    Tags <- MC_Tags
    HostKinds <- MC_AllKinds
    HostTargets = {"ctx", "other"}
    HostOverlap = FALSE
    EnableInit = {TRUE}
    DescReset = FALSE
    CmdCredits = 1
    MaxOwed = 1
SPECIFICATION Spec
INVARIANT TypeOK
PROPERTY RespondsToOpenCommand
