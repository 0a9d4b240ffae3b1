\* --docker_only with the default and a "/m" whitelist.
CONSTANTS
    Names <- MCNames
    Root <- MCRoot
    DockerNames <- MCDockerNames
    RktNames <- MCRktNames
    WhiteLists <- MCWhiteLists
    DockerOnly = TRUE
    MaxDaemonRestarts = 2
    MaxChurn = 2
    NoFactory = NoFactory
SPECIFICATION Spec
INVARIANTS TypeOK DockerOnlyHonoured
PROPERTIES DockerContainersReachDocker
