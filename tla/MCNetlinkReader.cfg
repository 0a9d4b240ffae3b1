CONSTANTS
    c1 = c1
    c2 = c2
    p1 = p1
    p2 = p2
    Callers <- MCCallers
    Paths <- MCPaths
    Fds <- MCFds
    EmptyPath = EmptyPath
    NoFd = NoFd
    Error = Error
    Serialized = TRUE
SPECIFICATION Spec
\* A failed New leaves no reader: nothing more happens.
CHECK_DEADLOCK FALSE
INVARIANTS TypeOK ReplyMatchesRequest DescriptorsClosedOnReturn
PROPERTIES CallsReturn ImplementsLoadReader
