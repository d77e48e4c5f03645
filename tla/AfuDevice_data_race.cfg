\* A host with a config write and a partial write open at once, so both
\* handlers wait for command data in the same iteration (AFU.cpp:169-178).
CONSTANTS
    Tags <- MC_Tags
    HostKinds <- MC_WriteKinds
    HostTargets = {"other"}
    HostOverlap = TRUE
    EnableInit = {FALSE}
    DescReset = FALSE
    CmdCredits = 1
    MaxOwed = 1
SPECIFICATION Spec
INVARIANT DataBeatTakenOnce
