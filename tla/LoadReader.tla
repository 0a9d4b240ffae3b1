------------------------------ MODULE LoadReader ------------------------------
(***************************************************************************)
(* What the kernel load client promises its callers (spec section 4.5),    *)
(* with the protocol left out: a reader is created once and may be         *)
(* stopped; a call either fails at once (empty path, cgroup cannot be      *)
(* opened) or is under way until it returns, and what it returns is the    *)
(* load of the cgroup it was asked about or an error.  Every call under    *)
(* way eventually returns.  NetlinkReader implements this specification   *)
(* when its callers serialise their calls.                                 *)
(***************************************************************************)
CONSTANTS Callers, Paths, EmptyPath, Error

VARIABLES
    conn,    \* "none" before New, "open", "failed", "closed"
    busy,    \* caller -> a GetCpuLoad of its is under way
    path,    \* caller -> the path of its current or last call
    result   \* caller -> what its last call returned: a cgroup or Error

avars == <<conn, busy, path, result>>

Exists == conn \in {"open", "closed"}

Init ==
    /\ conn = "none"
    /\ busy = [c \in Callers |-> FALSE]
    /\ path = [c \in Callers |-> EmptyPath]
    /\ result = [c \in Callers |-> Error]

Create ==
    /\ conn = "none"
    /\ conn' \in {"open", "failed"}
    /\ UNCHANGED <<busy, path, result>>

Close ==
    /\ Exists
    /\ conn' = "closed"
    /\ UNCHANGED <<busy, path, result>>

\* A call that fails before it reaches the kernel.
Refuse(c, p) ==
    /\ Exists /\ ~busy[c]
    /\ path' = [path EXCEPT ![c] = p]
    /\ result' = [result EXCEPT ![c] = Error]
    /\ UNCHANGED <<conn, busy>>

Begin(c, p) ==
    /\ Exists /\ ~busy[c]
    /\ p # EmptyPath
    /\ busy' = [busy EXCEPT ![c] = TRUE]
    /\ path' = [path EXCEPT ![c] = p]
    /\ UNCHANGED <<conn, result>>

\* The call returns the load of its own cgroup, or an error.
Answer(c) ==
    /\ busy[c]
    /\ busy' = [busy EXCEPT ![c] = FALSE]
    /\ \E r \in {path[c], Error} : result' = [result EXCEPT ![c] = r]
    /\ UNCHANGED <<conn, path>>

Next ==
    \/ Create \/ Close
    \/ \E c \in Callers : \/ \E p \in Paths \cup {EmptyPath} : Refuse(c, p)
                          \/ \E p \in Paths : Begin(c, p)
                          \/ Answer(c)

Spec == Init /\ [][Next]_avars /\ \A c \in Callers : WF_avars(Answer(c))

=============================================================================
