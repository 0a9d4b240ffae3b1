\* Without --docker_only and with a "/m" whitelist.
CONSTANTS
    Names <- MCNames
    Root <- MCRoot
    DockerNames <- MCDockerNames
    RktNames <- MCRktNames
    WhiteLists <- MCSliceWhiteList
    DockerOnly = FALSE
    MaxDaemonRestarts = 2
    MaxChurn = 2
    NoFactory = NoFactory
SPECIFICATION Spec
INVARIANT RawGovernedByDockerOnly
