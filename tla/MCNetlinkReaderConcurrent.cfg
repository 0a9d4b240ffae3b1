\* Callers that do not serialise their calls.
CONSTANTS
    c1 = c1
    c2 = c2
    p1 = p1
    p2 = p2
    Callers <- MCCallers
    Paths <- MCPaths
    Fds <- MCFds
    EmptyPath = EmptyPath
    NoFd = NoFd
    Error = Error
    Serialized = FALSE
SPECIFICATION Spec
CHECK_DEADLOCK FALSE
INVARIANT ReplyMatchesRequest
