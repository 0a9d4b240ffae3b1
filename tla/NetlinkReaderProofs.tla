------------------------- MODULE NetlinkReaderProofs -------------------------
(***************************************************************************)
(* Proofs about the netlink reader for every set of callers, cgroups and  *)
(* descriptor numbers: the state is well typed and no descriptor leaks,   *)
(* whatever the callers do; when they serialise their calls, every call   *)
(* returns its own cgroup's load or an error, and the reader implements   *)
(* the abstract LoadReader (safety part).                                  *)
(***************************************************************************)
EXTENDS NetlinkReader, TLAPS

Busy(c) == pc[c] # "idle"

\* Every call under way holds a descriptor of its own, open on the cgroup
\* it asked about; an idle caller holds none.
HeldFds ==
    /\ \A c \in Callers : ~Busy(c) => fd[c] = NoFd
    /\ \A c \in Callers : Busy(c) => /\ fd[c] \in Fds
                                     /\ path[c] \in Paths
                                     /\ fdTable[fd[c]] = path[c]
    /\ \A c, d \in Callers : Busy(c) /\ Busy(d) /\ c # d => fd[c] # fd[d]

FdInv == TypeOK /\ HeldFds /\ DescriptorsClosedOnReturn

USE ConstantsAssumption

LEMMA ErrorNotPath == Error \notin Paths
BY ConstantsAssumption

-----------------------------------------------------------------------------
LEMMA FdInit == Init => FdInv
BY DEF Init, FdInv, TypeOK, HeldFds, Busy, DescriptorsClosedOnReturn

\* A return frees the caller's descriptor and leaves the others' alone.
LEMMA ReturnFrees ==
    ASSUME FdInv, NEW c \in Callers, Busy(c), NEW r \in Paths \cup {Error},
           Return(c, r)
    PROVE  /\ fdTable' = [fdTable EXCEPT ![fd[c]] = EmptyPath]
           /\ fd' = [fd EXCEPT ![c] = NoFd]
           /\ pc' = [pc EXCEPT ![c] = "idle"]
           /\ result' \in [Callers -> Paths \cup {Error}]
BY DEF FdInv, HeldFds, Return, TypeOK

\* After a busy caller returns, FdInv holds of the new state.
LEMMA ReturnKeepsFdInv ==
    ASSUME FdInv, NEW c \in Callers, Busy(c), NEW r \in Paths \cup {Error},
           Return(c, r),
           UNCHANGED path, conn' = conn,
           requests' \in Seq(Fds), replies' \in Seq(Paths \cup {Error})
    PROVE  FdInv'
<1>1. /\ fdTable' = [fdTable EXCEPT ![fd[c]] = EmptyPath]
      /\ fd' = [fd EXCEPT ![c] = NoFd]
      /\ pc' = [pc EXCEPT ![c] = "idle"]
      /\ result' \in [Callers -> Paths \cup {Error}]
  BY ReturnFrees
<1>2. TypeOK'
  BY <1>1 DEF FdInv, HeldFds, TypeOK
<1>3. HeldFds'
  BY <1>1 DEF FdInv, HeldFds, TypeOK, Busy
<1>4. DescriptorsClosedOnReturn'
  BY <1>1 DEF FdInv, HeldFds, TypeOK, Busy, DescriptorsClosedOnReturn
<1>5. QED
  BY <1>2, <1>3, <1>4 DEF FdInv

\* A step that opens and closes no descriptor and lets no call start or
\* end keeps the descriptors held as they were.
LEMMA FdsUntouched ==
    ASSUME FdInv, UNCHANGED <<fdTable, fd, path>>,
           \A c \in Callers : Busy(c)' <=> Busy(c)
    PROVE  HeldFds' /\ DescriptorsClosedOnReturn'
<1>1. HeldFds'
  BY DEF FdInv, HeldFds
<1>2. DescriptorsClosedOnReturn'
  BY DEF FdInv, DescriptorsClosedOnReturn, Busy
<1>3. QED
  BY <1>1, <1>2

LEMMA FdStep == FdInv /\ [Next]_vars => FdInv'
<1> SUFFICES ASSUME FdInv, [Next]_vars PROVE FdInv'
  OBVIOUS
<1>1. CASE New \/ Stop
  <2>1. TypeOK'
    <3>1. <<>> \in Seq(Fds) /\ <<>> \in Seq(Paths \cup {Error})
      OBVIOUS
    <3>2. QED
      BY <1>1, <3>1 DEF New, Stop, FdInv, TypeOK
  <2>2. \A c \in Callers : Busy(c)' <=> Busy(c)
    BY <1>1 DEF New, Stop, Busy
  <2>3. QED
    BY <1>1, <2>1, <2>2, FdsUntouched DEF New, Stop, FdInv
<1>2. CASE Kernel
  <2>1. Head(requests) \in Fds /\ Tail(requests) \in Seq(Fds)
    BY <1>2 DEF Kernel, FdInv, TypeOK
  <2>2. (IF fdTable[Head(requests)] = EmptyPath THEN Error
         ELSE fdTable[Head(requests)]) \in Paths \cup {Error}
    BY <2>1 DEF FdInv, TypeOK
  <2>3. replies' \in Seq(Paths \cup {Error})
    BY <1>2, <2>2 DEF Kernel, FdInv, TypeOK
  <2>4. TypeOK'
    BY <1>2, <2>1, <2>3 DEF Kernel, FdInv, TypeOK
  <2>5. \A c \in Callers : Busy(c)' <=> Busy(c)
    BY <1>2 DEF Kernel, Busy
  <2>6. QED
    BY <1>2, <2>4, <2>5, FdsUntouched DEF Kernel, FdInv
<1>3. ASSUME NEW c \in Callers, NEW p \in Paths \cup {EmptyPath}, GetCpuLoad(c, p)
      PROVE  FdInv'
  <2>1. CASE Return(c, Error)
    BY <1>3, <2>1 DEF GetCpuLoad, Return, FdInv, TypeOK, HeldFds, Busy,
                      DescriptorsClosedOnReturn
  <2>2. ASSUME NEW n \in Fds, p # EmptyPath, LowestFree(n),
               pc' = [pc EXCEPT ![c] = "opened"],
               fd' = [fd EXCEPT ![c] = n],
               fdTable' = [fdTable EXCEPT ![n] = p],
               UNCHANGED result
        PROVE  FdInv'
    <3>1. \A d \in Callers : Busy(d) => fd[d] # n
      BY <2>2 DEF LowestFree, FreeFds, FdInv, HeldFds
    <3>2. fd[c] = NoFd
      BY <1>3 DEF GetCpuLoad, FdInv, HeldFds, Busy
    <3>3. QED
      BY <1>3, <2>2, <3>1, <3>2 DEF GetCpuLoad, FdInv, TypeOK, HeldFds, Busy,
                                    DescriptorsClosedOnReturn
  <2>3. QED
    BY <1>3, <2>1, <2>2 DEF GetCpuLoad
<1>4. ASSUME NEW c \in Callers, SendRequest(c) PROVE FdInv'
  <2>1. CASE conn = "open"
    <3>1. fd[c] \in Fds
      BY <1>4 DEF SendRequest, FdInv, HeldFds, Busy
    <3>2. TypeOK'
      <4>1. requests' = Append(requests, fd[c]) /\ UNCHANGED <<fdTable, fd, result>>
        BY <1>4, <2>1 DEF SendRequest
      <4>2. Append(requests, fd[c]) \in Seq(Fds)
        BY <3>1 DEF FdInv, TypeOK
      <4>3. pc' \in [Callers -> {"idle", "opened", "waiting"}]
        BY <1>4, <2>1 DEF SendRequest, FdInv, TypeOK
      <4>4. QED
        BY <1>4, <4>1, <4>2, <4>3 DEF SendRequest, FdInv, TypeOK
    <3>3. \A d \in Callers : Busy(d)' <=> Busy(d)
      BY <1>4, <2>1 DEF SendRequest, FdInv, TypeOK, Busy
    <3>4. QED
      BY <1>4, <2>1, <3>2, <3>3, FdsUntouched DEF SendRequest, FdInv
  <2>2. CASE conn # "open"
    BY <1>4, <2>2, ReturnKeepsFdInv DEF SendRequest, FdInv, TypeOK, Busy
  <2>3. QED
    BY <2>1, <2>2
<1>5. ASSUME NEW c \in Callers, ReceiveReply(c) PROVE FdInv'
  <2>1. CASE conn = "closed"
    BY <1>5, <2>1, ReturnKeepsFdInv DEF ReceiveReply, FdInv, TypeOK, Busy
  <2>2. CASE conn = "open" /\ replies # <<>>
    <3>1. Head(replies) \in Paths \cup {Error} /\ Tail(replies) \in Seq(Paths \cup {Error})
      BY <2>2 DEF FdInv, TypeOK
    <3>2. QED
      BY <1>5, <2>2, <3>1, ReturnKeepsFdInv DEF ReceiveReply, FdInv, TypeOK, Busy
  <2>3. QED
    BY <1>5, <2>1, <2>2 DEF ReceiveReply
<1>6. CASE UNCHANGED vars
  BY <1>6 DEF vars, FdInv, TypeOK, HeldFds, Busy, DescriptorsClosedOnReturn
<1>7. QED
  BY <1>1, <1>2, <1>3, <1>4, <1>5, <1>6 DEF Next

\* The reader's state is always well typed, whether or not the callers
\* serialise their calls.
THEOREM TypeCorrect == Spec => []TypeOK
BY FdInit, FdStep, PTL DEF Spec, FdInv

(* GetCpuLoad's deferred cfd.Close() runs on every exit path after         *)
(* os.Open: every open descriptor belongs to a call still under way, for   *)
(* every number of callers, concurrent or not, and every Stop.             *)
THEOREM NoDescriptorLeak == Spec => []DescriptorsClosedOnReturn
BY FdInit, FdStep, PTL DEF Spec, FdInv

-----------------------------------------------------------------------------
(* Serialised callers.  At most one call is under way; the socket holds    *)
(* nothing unless a call is waiting, and then only that call's request or  *)
(* the kernel's reply to it; a stopped or never opened connection holds   *)
(* nothing.                                                                *)

OneCall == \A c, d \in Callers : Busy(c) /\ Busy(d) => c = d

SocketHoldsOwnExchange ==
    /\ conn # "open" => requests = <<>> /\ replies = <<>>
    /\ (\A c \in Callers : pc[c] # "waiting") => requests = <<>> /\ replies = <<>>
    /\ \A c \in Callers :
          pc[c] = "waiting" => \/ requests = <<fd[c]>> /\ replies = <<>>
                               \/ requests = <<>> /\ replies = <<path[c]>>
                               \/ requests = <<>> /\ replies = <<>>

SerialInv == FdInv /\ OneCall /\ SocketHoldsOwnExchange /\ ReplyMatchesRequest

LEMMA SerialInit == Init => SerialInv
BY FdInit DEF Init, SerialInv, OneCall, Busy, SocketHoldsOwnExchange,
              ReplyMatchesRequest

\* Every step of serialised callers keeps the exchange on the socket theirs.
\* A step after which no call is under way and the socket is empty keeps
\* the serial invariant's conjuncts, provided the returns it made match.
LEMMA AllIdleAfter ==
    ASSUME (\A d \in Callers : pc'[d] = "idle"), requests' = <<>>, replies' = <<>>
    PROVE  OneCall' /\ SocketHoldsOwnExchange'
BY DEF OneCall, Busy, SocketHoldsOwnExchange

LEMMA SerialStep ==
    ASSUME Serialized
    PROVE  SerialInv /\ [Next]_vars => SerialInv'
<1> SUFFICES ASSUME SerialInv, [Next]_vars
             PROVE  OneCall' /\ SocketHoldsOwnExchange' /\ ReplyMatchesRequest'
  BY FdStep DEF SerialInv
<1> DEFINE Quiet == requests = <<>> /\ replies = <<>>
<1>1. CASE New \/ Stop
  BY <1>1 DEF New, Stop, SerialInv, OneCall, Busy, SocketHoldsOwnExchange,
              ReplyMatchesRequest
<1>2. CASE Kernel
  <2>1. PICK c \in Callers : pc[c] = "waiting" /\ requests = <<fd[c]>> /\ replies = <<>>
    BY <1>2 DEF Kernel, SerialInv, SocketHoldsOwnExchange
  <2>2. \A d \in Callers : pc[d] = "waiting" => d = c
    BY <2>1 DEF SerialInv, OneCall, Busy
  <2>3. fdTable[fd[c]] = path[c] /\ path[c] \in Paths
    BY <2>1 DEF SerialInv, FdInv, HeldFds, Busy
  <2>4. replies' = <<path[c]>> /\ requests' = <<>>
    BY <1>2, <2>1, <2>3 DEF Kernel
  <2>5. conn = "open"
    BY <2>1 DEF SerialInv, SocketHoldsOwnExchange
  <2>6. QED
    BY <1>2, <2>1, <2>2, <2>4, <2>5 DEF Kernel, SerialInv, OneCall, Busy,
                                        SocketHoldsOwnExchange, ReplyMatchesRequest
<1>3. ASSUME NEW c \in Callers, NEW p \in Paths \cup {EmptyPath}, GetCpuLoad(c, p)
      PROVE  OneCall' /\ SocketHoldsOwnExchange' /\ ReplyMatchesRequest'
  <2>1. \A d \in Callers : pc[d] = "idle"
    BY <1>3 DEF GetCpuLoad, MayEnter
  <2>2. Quiet /\ UNCHANGED <<conn, requests, replies>>
    BY <1>3, <2>1 DEF GetCpuLoad, SerialInv, SocketHoldsOwnExchange
  <2>3. \A d \in Callers \ {c} : pc'[d] = "idle" /\ UNCHANGED <<result[d], path[d]>>
    BY <1>3, <2>1 DEF GetCpuLoad, Return, SerialInv, FdInv, TypeOK
  <2>4. pc'[c] # "waiting" /\ (pc'[c] = "idle" => result'[c] = Error)
    BY <1>3 DEF GetCpuLoad, Return, SerialInv, FdInv, TypeOK
  <2>5. QED
    BY <2>1, <2>2, <2>3, <2>4 DEF SerialInv, OneCall, Busy, SocketHoldsOwnExchange,
                                  ReplyMatchesRequest, FdInv, TypeOK
<1>4. ASSUME NEW c \in Callers, SendRequest(c)
      PROVE  OneCall' /\ SocketHoldsOwnExchange' /\ ReplyMatchesRequest'
  <2>1. \A d \in Callers \ {c} : pc[d] = "idle"
    BY <1>4 DEF SendRequest, SerialInv, OneCall, Busy
  <2>2. Quiet
    BY <1>4, <2>1 DEF SendRequest, SerialInv, SocketHoldsOwnExchange
  <2>3. \A d \in Callers \ {c} : pc'[d] = "idle" /\ UNCHANGED <<result[d], path[d]>>
    BY <1>4, <2>1 DEF SendRequest, Return, SerialInv, FdInv, TypeOK
  <2>4. CASE conn = "open"
    <3>1. requests' = <<fd[c]>> /\ replies' = <<>> /\ pc'[c] = "waiting"
      BY <1>4, <2>2, <2>4 DEF SendRequest, SerialInv, FdInv, TypeOK
    <3>2. QED
      BY <1>4, <2>3, <2>4, <3>1 DEF SendRequest, SerialInv, OneCall, Busy,
                                    SocketHoldsOwnExchange, ReplyMatchesRequest, FdInv, TypeOK
  <2>5. CASE conn # "open"
    <3>1. UNCHANGED <<conn, requests, replies>> /\ pc'[c] = "idle" /\ result'[c] = Error
      BY <1>4, <2>5 DEF SendRequest, Return, SerialInv, FdInv, TypeOK
    <3>2. ReplyMatchesRequest'
      <4> SUFFICES ASSUME NEW d \in Callers, pc'[d] = "idle", result'[d] \in Paths
                   PROVE  result'[d] = path'[d]
        BY DEF ReplyMatchesRequest
      <4>1. d # c
        BY <3>1, ErrorNotPath
      <4>2. QED
        BY <2>1, <2>3, <4>1 DEF SerialInv, ReplyMatchesRequest
    <3>3. QED
      BY <2>2, <2>3, <3>1, <3>2, AllIdleAfter
  <2>6. QED
    BY <2>4, <2>5
<1>5. ASSUME NEW c \in Callers, ReceiveReply(c)
      PROVE  OneCall' /\ SocketHoldsOwnExchange' /\ ReplyMatchesRequest'
  <2>1. \A d \in Callers \ {c} : pc[d] = "idle"
    BY <1>5 DEF ReceiveReply, SerialInv, OneCall, Busy
  <2>2. \A d \in Callers \ {c} : pc'[d] = "idle" /\ UNCHANGED <<result[d], path[d]>>
    BY <1>5, <2>1 DEF ReceiveReply, Return, SerialInv, FdInv, TypeOK
  <2>3. pc'[c] = "idle" /\ UNCHANGED path /\ conn' = conn
    BY <1>5 DEF ReceiveReply, Return, SerialInv, FdInv, TypeOK
  <2>4. CASE conn = "closed"
    <3>1. Quiet /\ UNCHANGED <<requests, replies>> /\ result'[c] = Error
      BY <1>5, <2>4 DEF ReceiveReply, Return, SerialInv, SocketHoldsOwnExchange,
                        FdInv, TypeOK
    <3>2. ReplyMatchesRequest'
      <4> SUFFICES ASSUME NEW d \in Callers, pc'[d] = "idle", result'[d] \in Paths
                   PROVE  result'[d] = path'[d]
        BY DEF ReplyMatchesRequest
      <4>1. d # c
        BY <3>1, ErrorNotPath
      <4>2. QED
        BY <2>1, <2>2, <4>1 DEF SerialInv, ReplyMatchesRequest
    <3>3. QED
      BY <2>2, <2>3, <3>1, <3>2, AllIdleAfter
  <2>5. CASE conn = "open" /\ replies # <<>>
    <3>1. requests = <<>> /\ replies = <<path[c]>>
      BY <1>5, <2>5 DEF ReceiveReply, SerialInv, SocketHoldsOwnExchange
    <3>2. result'[c] = path[c] /\ replies' = <<>> /\ requests' = <<>>
      BY <1>5, <2>5, <3>1 DEF ReceiveReply, Return, SerialInv, FdInv, TypeOK
    <3>3. ReplyMatchesRequest'
      <4> SUFFICES ASSUME NEW d \in Callers, pc'[d] = "idle", result'[d] \in Paths
                   PROVE  result'[d] = path'[d]
        BY DEF ReplyMatchesRequest
      <4>1. CASE d = c
        BY <2>3, <3>2, <4>1
      <4>2. CASE d # c
        BY <2>1, <2>2, <4>2 DEF SerialInv, ReplyMatchesRequest
      <4>3. QED
        BY <4>1, <4>2
    <3>4. QED
      BY <2>2, <2>3, <3>2, <3>3, AllIdleAfter
  <2>6. QED
    BY <1>5, <2>4, <2>5 DEF ReceiveReply
<1>6. CASE UNCHANGED vars
  BY <1>6 DEF vars, SerialInv, OneCall, Busy, SocketHoldsOwnExchange,
              ReplyMatchesRequest
<1>7. QED
  BY <1>1, <1>2, <1>3, <1>4, <1>5, <1>6 DEF Next

(* With callers that serialise their calls, as the spec asks of them,      *)
(* every GetCpuLoad that returns a reply returns the one the kernel made   *)
(* for its own cgroup, for every number of callers, cgroups and            *)
(* descriptor numbers, and every interleaving with Stop.                   *)
THEOREM SerialRepliesMatch ==
    ASSUME Serialized
    PROVE  Spec => []ReplyMatchesRequest
<1>1. Init => SerialInv
  BY SerialInit
<1>2. SerialInv /\ [Next]_vars => SerialInv'
  BY SerialStep
<1>3. SerialInv => ReplyMatchesRequest
  BY DEF SerialInv
<1>4. QED
  BY <1>1, <1>2, <1>3, PTL DEF Spec

-----------------------------------------------------------------------------
(* Refinement: under the mapping busy <- a call is under way, every step   *)
(* of serialised callers is a step of LoadReader or leaves its state alone. *)

AbsBusy == [c \in Callers |-> pc[c] # "idle"]

\* A call that returns r: LoadReader's Answer, when r is its own cgroup or
\* an error.
LEMMA ReturnIsAnswer ==
    ASSUME FdInv, NEW c \in Callers, Busy(c), NEW r \in {path[c], Error},
           Return(c, r), UNCHANGED <<conn, path>>
    PROVE  LoadReader!Answer(c)
<1>1. AbsBusy' = [AbsBusy EXCEPT ![c] = FALSE]
  BY DEF Return, AbsBusy, FdInv, TypeOK
<1>2. QED
  BY <1>1 DEF LoadReader!Answer, AbsBusy, Busy, Return

LEMMA RefineStep ==
    ASSUME Serialized
    PROVE  SerialInv /\ [Next]_vars => [LoadReader!Next]_LoadReader!avars
<1> SUFFICES ASSUME SerialInv, [Next]_vars
             PROVE  [LoadReader!Next]_LoadReader!avars
  OBVIOUS
<1> DEFINE Stutter == UNCHANGED LoadReader!avars
<1>1. CASE New
  BY <1>1 DEF New, LoadReader!Next, LoadReader!Create, AbsBusy
<1>2. CASE Stop
  BY <1>2 DEF Stop, ReaderExists, LoadReader!Next, LoadReader!Close,
              LoadReader!Exists, AbsBusy
<1>3. CASE Kernel
  BY <1>3 DEF Kernel, LoadReader!avars, AbsBusy
<1>4. ASSUME NEW c \in Callers, NEW p \in Paths \cup {EmptyPath}, GetCpuLoad(c, p)
      PROVE  [LoadReader!Next]_LoadReader!avars
  <2>1. LoadReader!Exists /\ ~AbsBusy[c] /\ UNCHANGED conn
    BY <1>4 DEF GetCpuLoad, ReaderExists, LoadReader!Exists, AbsBusy
  <2>2. CASE Return(c, Error)
    <3>1. pc' = pc /\ result' = [result EXCEPT ![c] = Error]
      BY <1>4, <2>2 DEF GetCpuLoad, Return, SerialInv, FdInv, TypeOK
    <3>2. LoadReader!Refuse(c, p)
      BY <1>4, <2>1, <3>1 DEF GetCpuLoad, LoadReader!Refuse, AbsBusy
    <3>3. QED
      BY <3>2 DEF LoadReader!Next
  <2>3. ASSUME NEW n \in Fds, p # EmptyPath,
               pc' = [pc EXCEPT ![c] = "opened"], UNCHANGED result
        PROVE  [LoadReader!Next]_LoadReader!avars
    <3>1. AbsBusy' = [AbsBusy EXCEPT ![c] = TRUE]
      BY <2>3 DEF AbsBusy, SerialInv, FdInv, TypeOK
    <3>2. LoadReader!Begin(c, p)
      BY <1>4, <2>1, <2>3, <3>1 DEF GetCpuLoad, LoadReader!Begin, AbsBusy
    <3>3. QED
      BY <2>3, <3>2 DEF LoadReader!Next
  <2>4. QED
    BY <1>4, <2>2, <2>3 DEF GetCpuLoad
<1>5. ASSUME NEW c \in Callers, SendRequest(c)
      PROVE  [LoadReader!Next]_LoadReader!avars
  <2>1. CASE conn = "open"
    <3>1. AbsBusy' = AbsBusy
      BY <1>5, <2>1 DEF SendRequest, AbsBusy, SerialInv, FdInv, TypeOK
    <3>2. QED
      BY <1>5, <2>1, <3>1 DEF SendRequest, LoadReader!avars, AbsBusy
  <2>2. CASE conn # "open"
    <3>1. LoadReader!Answer(c)
      BY <1>5, <2>2, ReturnIsAnswer DEF SendRequest, SerialInv, Busy
    <3>2. QED
      BY <3>1 DEF LoadReader!Next
  <2>3. QED
    BY <2>1, <2>2
<1>6. ASSUME NEW c \in Callers, ReceiveReply(c)
      PROVE  [LoadReader!Next]_LoadReader!avars
  <2>1. CASE conn = "closed"
    <3>1. LoadReader!Answer(c)
      BY <1>6, <2>1, ReturnIsAnswer DEF ReceiveReply, SerialInv, Busy
    <3>2. QED
      BY <3>1 DEF LoadReader!Next
  <2>2. CASE conn = "open" /\ replies # <<>>
    <3>1. Head(replies) = path[c]
      BY <1>6, <2>2 DEF ReceiveReply, SerialInv, SocketHoldsOwnExchange
    <3>2. LoadReader!Answer(c)
      BY <1>6, <2>2, <3>1, ReturnIsAnswer DEF ReceiveReply, SerialInv, Busy
    <3>3. QED
      BY <3>2 DEF LoadReader!Next
  <2>3. QED
    BY <1>6, <2>1, <2>2 DEF ReceiveReply
<1>7. CASE UNCHANGED vars
  BY <1>7 DEF vars, LoadReader!avars, AbsBusy
<1>8. QED
  BY <1>1, <1>2, <1>3, <1>4, <1>5, <1>6, <1>7 DEF Next

(* With serialised callers NetlinkReader implements the safety part of     *)
(* LoadReader: New, Stop and GetCpuLoad are the abstract reader's Create,  *)
(* Close and calls, and every call returns its own cgroup's load or an     *)
(* error (ImplementsLoadReader without its fairness, which TLC checks).    *)
THEOREM ImplementsLoadReaderSafety ==
    ASSUME Serialized
    PROVE  Spec => LoadReader!Init /\ [][LoadReader!Next]_LoadReader!avars
<1>1. Init => LoadReader!Init
  BY DEF Init, LoadReader!Init, AbsBusy
<1>2. Init => SerialInv
  BY SerialInit
<1>3. SerialInv /\ [Next]_vars => SerialInv'
  BY SerialStep
<1>4. SerialInv /\ [Next]_vars => [LoadReader!Next]_LoadReader!avars
  BY RefineStep
<1>5. QED
  BY <1>1, <1>2, <1>3, <1>4, PTL DEF Spec

=============================================================================
