---------------------------- MODULE NetlinkReader ----------------------------
(***************************************************************************)
(* The kernel load protocol client (spec section 4.5,                     *)
(* src/utils/cpuload/netlink/reader.go).  New opens one netlink connection *)
(* and resolves the taskstats family; every GetCpuLoad of every caller     *)
(* then goes over that connection: it opens the cgroup directory, sends a  *)
(* request naming the descriptor's number, blocks for one reply and closes *)
(* the descriptor.  The reader has no lock and a reply carries nothing     *)
(* that ties it to its request; the spec leaves serialising the callers to *)
(* them (constant Serialized).  The connection is a FIFO socket; the       *)
(* kernel answers a request with the statistics of the cgroup that the     *)
(* descriptor designates when it reads the request, or an error.  A reply  *)
(* is abstracted to that cgroup.  Connection and getLoadStats are not in   *)
(* the sources and are written from the spec.                              *)
(***************************************************************************)
EXTENDS Naturals, Sequences, FiniteSets

CONSTANTS
    Callers,     \* goroutines calling GetCpuLoad on the shared reader
    Paths,       \* cgroup directories under the cpu hierarchy
    EmptyPath,   \* the path ""
    Fds,         \* descriptor numbers the process may be given
    Serialized,  \* the callers hold a common lock around GetCpuLoad
    NoFd,
    Error

ASSUME ConstantsAssumption ==
    /\ Fds \subseteq Nat /\ Fds # {}
    /\ Serialized \in BOOLEAN
    /\ {EmptyPath, NoFd, Error} \cap (Paths \cup Fds) = {}

VARIABLES
    conn,      \* "none" before New, "open", "failed" (New failed), "closed"
    fdTable,   \* descriptor number -> the cgroup it is open on, or EmptyPath
    requests,  \* descriptor numbers sent and not yet read by the kernel
    replies,   \* replies queued on the socket: a cgroup or Error
    pc,        \* caller -> "idle", "opened" (before the send), "waiting"
    path,      \* caller -> the path of its current or last call
    fd,        \* caller -> its open descriptor, or NoFd
    result     \* caller -> what its last call returned: a cgroup or Error

vars == <<conn, fdTable, requests, replies, pc, path, fd, result>>

Init ==
    /\ conn = "none"
    /\ fdTable = [n \in Fds |-> EmptyPath]
    /\ requests = <<>>
    /\ replies = <<>>
    /\ pc = [c \in Callers |-> "idle"]
    /\ path = [c \in Callers |-> EmptyPath]
    /\ fd = [c \in Callers |-> NoFd]
    /\ result = [c \in Callers |-> Error]

\* New: newConnection and the family-id handshake; either failure leaves no
\* reader.
New ==
    /\ conn = "none"
    /\ conn' \in {"open", "failed"}
    /\ UNCHANGED <<fdTable, requests, replies, pc, path, fd, result>>

ReaderExists == conn \in {"open", "closed"}

\* Stop: close the connection, discarding what is queued on the socket
\* (Close on a closed one only returns an error).
Stop ==
    /\ ReaderExists
    /\ conn' = "closed"
    /\ requests' = <<>>
    /\ replies' = <<>>
    /\ UNCHANGED <<fdTable, pc, path, fd, result>>

\* os.Open returns the lowest free descriptor number.
FreeFds == {n \in Fds : fdTable[n] = EmptyPath}
LowestFree(n) == n \in FreeFds /\ \A m \in FreeFds : n <= m

ReturnKeepsFd(c, r) ==
    /\ pc' = [pc EXCEPT ![c] = "idle"]
    /\ result' = [result EXCEPT ![c] = r]
    /\ fd' = [fd EXCEPT ![c] = NoFd]
    /\ UNCHANGED fdTable

\* Return from GetCpuLoad with r; the deferred cfd.Close() frees the
\* descriptor of a call that got past os.Open.
Return(c, r) ==
    /\ pc' = [pc EXCEPT ![c] = "idle"]
    /\ result' = [result EXCEPT ![c] = r]
    /\ fd' = [fd EXCEPT ![c] = NoFd]
    /\ fdTable' = IF fd[c] = NoFd THEN fdTable
                  ELSE [fdTable EXCEPT ![fd[c]] = EmptyPath]

\* With a common lock a caller enters only when no other call is under way.
MayEnter(c) == Serialized => \A d \in Callers : pc[d] = "idle"

\* GetCpuLoad(name, p) up to the send: an empty path is refused before any
\* I/O; os.Open fails (the cgroup is gone, no descriptor is free) or gives
\* the lowest free descriptor.
GetCpuLoad(c, p) ==
    /\ ReaderExists
    /\ pc[c] = "idle"
    /\ MayEnter(c)
    /\ path' = [path EXCEPT ![c] = p]
    /\ \/ /\ p = EmptyPath
          /\ Return(c, Error)
       \/ /\ p # EmptyPath
          /\ Return(c, Error)
       \/ \E n \in Fds :
             /\ p # EmptyPath
             /\ LowestFree(n)
             /\ pc' = [pc EXCEPT ![c] = "opened"]
             /\ fd' = [fd EXCEPT ![c] = n]
             /\ fdTable' = [fdTable EXCEPT ![n] = p]
             /\ UNCHANGED result
    /\ UNCHANGED <<conn, requests, replies>>

SendRequestByPath(c) ==
    /\ pc[c] = "opened"
    /\ IF conn = "open"
       THEN /\ requests' = Append(requests, path[c])
            /\ pc' = [pc EXCEPT ![c] = "waiting"]
            /\ UNCHANGED <<fdTable, fd, result>>
       ELSE /\ Return(c, Error)
            /\ UNCHANGED requests
    /\ UNCHANGED <<conn, replies, path>>

\* getLoadStats, first half: send the request carrying the descriptor's
\* number; on a closed connection the send fails and the call returns.
SendRequest(c) ==
    /\ pc[c] = "opened"
    /\ IF conn = "open"
       THEN /\ requests' = Append(requests, fd[c])
            /\ pc' = [pc EXCEPT ![c] = "waiting"]
            /\ UNCHANGED <<fdTable, fd, result>>
       ELSE /\ Return(c, Error)
            /\ UNCHANGED requests
    /\ UNCHANGED <<conn, replies, path>>

ReceiveReplyIgnoringClose(c) ==
    /\ pc[c] = "waiting"
    /\ replies # <<>>
    /\ Return(c, Head(replies))
    /\ replies' = Tail(replies)
    /\ UNCHANGED <<conn, requests, path>>

ReceiveReplyWithTimeout(c) ==
    \/ ReceiveReplyIgnoringClose(c)
    \/ /\ pc[c] = "waiting"
       /\ Return(c, Error)
       /\ UNCHANGED <<conn, requests, replies, path>>

\* getLoadStats, second half: read the next message on the socket, whoever
\* it was for; a read on a closed connection fails.
ReceiveReply(c) ==
    /\ pc[c] = "waiting"
    /\ \/ /\ conn = "closed"
          /\ Return(c, Error)
          /\ UNCHANGED replies
       \/ /\ conn = "open"
          /\ replies # <<>>
          /\ Return(c, Head(replies))
          /\ replies' = Tail(replies)
    /\ UNCHANGED <<conn, requests, path>>

\* The kernel reads the oldest request and resolves its descriptor number
\* now: to the cgroup open under that number, or an error if none is.
Kernel ==
    /\ requests # <<>>
    /\ LET n == Head(requests)
       IN  replies' = Append(replies, IF fdTable[n] = EmptyPath THEN Error
                                      ELSE fdTable[n])
    /\ requests' = Tail(requests)
    /\ UNCHANGED <<conn, fdTable, pc, path, fd, result>>

Next ==
    \/ New \/ Stop \/ Kernel
    \/ \E c \in Callers :
          \/ \E p \in Paths \cup {EmptyPath} : GetCpuLoad(c, p)
          \/ SendRequest(c)
          \/ ReceiveReply(c)

\* Callers keep polling (housekeeping); the kernel answers every request
\* (a hung kernel is the spec's open question, see the README).
Fairness ==
    /\ WF_vars(Kernel)
    /\ \A c \in Callers : WF_vars(SendRequest(c)) /\ WF_vars(ReceiveReply(c))

Spec == Init /\ [][Next]_vars /\ Fairness

-----------------------------------------------------------------------------
TypeOK ==
    /\ conn \in {"none", "open", "failed", "closed"}
    /\ fdTable \in [Fds -> Paths \cup {EmptyPath}]
    /\ requests \in Seq(Fds)
    /\ replies \in Seq(Paths \cup {Error})
    /\ pc \in [Callers -> {"idle", "opened", "waiting"}]
    /\ path \in [Callers -> Paths \cup {EmptyPath}]
    /\ fd \in [Callers -> Fds \cup {NoFd}]
    /\ result \in [Callers -> Paths \cup {Error}]

-----------------------------------------------------------------------------
(* GetCpuLoad returns the statistics of the cgroup it was asked about: a  *)
(* call that returned a reply got the one the kernel produced for its own *)
(* descriptor, not the reply of another caller's request.                 *)
ReplyMatchesRequest ==
    \A c \in Callers : pc[c] = "idle" /\ result[c] \in Paths => result[c] = path[c]

(* The cgroup descriptor is closed on every exit path of GetCpuLoad: every *)
(* open descriptor belongs to a call still under way, so none leaks and    *)
(* the process does not run out of descriptor numbers.                     *)
DescriptorsClosedOnReturn ==
    \A n \in Fds : fdTable[n] # EmptyPath =>
        \E c \in Callers : pc[c] # "idle" /\ fd[c] = n

(* Every GetCpuLoad returns, with a reply or with an error once the reader *)
(* is stopped, provided the kernel answers the requests it reads.          *)
CallsReturn == \A c \in Callers : pc[c] # "idle" ~> pc[c] = "idle"

-----------------------------------------------------------------------------
(* The reader as its callers see it: a call is under way from os.Open to   *)
(* its return; the socket, the descriptors and the kernel are hidden.      *)
LoadReader == INSTANCE LoadReader WITH busy <- [c \in Callers |-> pc[c] # "idle"]

(* NetlinkReader implements LoadReader: New, Stop and GetCpuLoad behave as *)
(* the abstract reader's Create, Close and calls, and every call returns  *)
(* its own cgroup's load or an error, and returns eventually.             *)
ImplementsLoadReader == LoadReader!Spec

=============================================================================
