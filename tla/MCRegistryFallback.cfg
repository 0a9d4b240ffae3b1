\* Without --docker_only and with the default whitelist.
CONSTANTS
    Names <- MCNames
    Root <- MCRoot
    DockerNames <- MCDockerNames
    RktNames <- MCRktNames
    WhiteLists <- MCEmptyWhiteList
    DockerOnly = FALSE
    MaxDaemonRestarts = 2
    MaxChurn = 2
    NoFactory = NoFactory
SPECIFICATION Spec
PROPERTY DockerContainersReachDocker
