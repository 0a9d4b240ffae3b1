CONSTANTS
    ip1 = ip1
    ip2 = ip2
    IPs <- MCIPs
    NoIP = NoIP
    NoValue = NoValue
    DockerVersions <- MCDockerVersions
    MaxBytes <- MCMaxBytes
    PartialStatsOnError = TRUE
SYMMETRY Symmetry
SPECIFICATION Spec
INVARIANT TypeOK
INVARIANT SamplerWatchesContainerLayer
PROPERTY NoSamplingAfterCleanup
