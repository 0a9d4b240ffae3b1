\* --docker_only with the whitelist "/m," (trailing comma).
CONSTANTS
    Names <- MCNames
    Root <- MCRoot
    DockerNames <- MCDockerNames
    RktNames <- MCRktNames
    WhiteLists <- MCTrailingCommaWhiteList
    DockerOnly = TRUE
    MaxDaemonRestarts = 2
    MaxChurn = 2
    NoFactory = NoFactory
SPECIFICATION Spec
INVARIANT DockerOnlyHonoured
