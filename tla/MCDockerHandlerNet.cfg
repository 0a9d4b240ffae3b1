CONSTANTS
    ip1 = ip1
    ip2 = ip2
    IPs <- MCIPs
    NoIP = NoIP
    NoValue = NoValue
    DockerVersions <- MCDockerVersions
    MaxBytes <- MCMaxBytes
    PartialStatsOnError = FALSE
SYMMETRY Symmetry
SPECIFICATION Spec
INVARIANT SharedNetworkNeverReported
