------------------------------- MODULE Registry -------------------------------
(***************************************************************************)
(* The handler factory registry and the factories that register with it   *)
(* (spec section 4.1).  At start-up the container manager calls each       *)
(* runtime's Register in a fixed order (docker, rkt, raw); a Register that *)
(* succeeds appends its factory to the list of every discovery source it   *)
(* names, one that fails installs nothing.  Afterwards the discovery loop  *)
(* resolves each container name it sees on a source: a name that some     *)
(* handler already owns is skipped, otherwise the factories of the source  *)
(* are scanned in registration order and the first one that can handle    *)
(* the name decides: it accepts (and its handler is built and owns the     *)
(* name) or it rejects (the name is ignored until it is seen again).       *)
(*                                                                         *)
(* The raw factory's CanHandleAndAccept and the two Register functions are *)
(* translated from src/unnamed/part_000.  The registry itself, the docker  *)
(* factory's resolution and rkt's verifyPod are not in the sources and are *)
(* written from the spec.  Container names are strings; since the raw     *)
(* factory matches them with strings.HasPrefix, a name is modelled as the  *)
(* sequence of its characters.                                             *)
(***************************************************************************)
EXTENDS Naturals, Sequences, FiniteSets

CONSTANTS
    Names,            \* cgroup names the discovery sources may report
    Root,             \* the root container "/"
    DockerNames,      \* names of docker containers (docker's naming scheme)
    RktNames,         \* names of rkt pods
    DockerOnly,       \* the --docker_only flag
    WhiteLists,       \* values of --raw_cgroup_prefix_whitelist, split on ","
    MaxDaemonRestarts,\* bound on docker daemon restarts
    MaxChurn,         \* bound on cgroups created or removed
    NoFactory         \* "no handler owns this name"

\* A name is a string, here the sequence of its characters.
ASSUME NamesAssumption ==
    /\ Root \in Names
    /\ DockerNames \subseteq Names \ {Root}
    /\ RktNames \subseteq Names \ {Root}
    /\ DockerNames \cap RktNames = {}

\* strings.Split never returns an empty slice, so a whitelist has an entry.
ASSUME WhiteListsAssumption == WhiteLists \subseteq Seq(Seq(STRING)) \ {<<>>}

ASSUME FlagsAssumption ==
    /\ DockerOnly \in BOOLEAN
    /\ MaxDaemonRestarts \in Nat
    /\ MaxChurn \in Nat

Factories == {"docker", "rkt", "raw"}

ASSUME NoFactoryAssumption == NoFactory \notin Factories

\* The watch sources: the raw cgroup (inotify) watcher and the rkt watcher.
Sources == {"raw", "rkt"}

\* The manager's registration order; raw, the fallback, comes last.
RegistrationOrder == <<"docker", "rkt", "raw">>

\* The sources each factory registers for (docker and raw: watch.Raw; rkt:
\* watcher.Rkt).
SourcesOf(f) == IF f = "rkt" THEN {"rkt"} ELSE {"raw"}

\* The names a source reports: the cgroup watcher sees every cgroup, the rkt
\* watcher only pods.
Visible(src) == IF src = "raw" THEN Names ELSE RktNames

VARIABLES
    factories,          \* source -> registered factories, in order
    regStep,            \* index of the next Register call in RegistrationOrder
    rawPrefixWhiteList, \* the raw factory's whitelist (fixed at start-up)
    live,               \* cgroups that currently exist
    claimed,            \* name -> factory whose handler owns it, or NoFactory
    rejected,           \* names whose last resolution was a rejection
    dockerUp,           \* the docker daemon answers inspect calls
    restarts,           \* daemon restarts so far
    churn               \* cgroups created or removed so far

vars == <<factories, regStep, rawPrefixWhiteList, live, claimed, rejected,
          dockerUp, restarts, churn>>

\* strings.HasPrefix(s, p).
HasPrefix(s, p) == Len(p) <= Len(s) /\ SubSeq(s, 1, Len(p)) = p

(***************************************************************************)
(* CanHandleAndAccept of each factory, as the pair <<canHandle, accept>>.  *)
(***************************************************************************)
RawCanHandleAndAcceptNoDockerOnly(n) ==
    IF n = Root THEN <<TRUE, TRUE>>
    ELSE <<TRUE, \E i \in 1..Len(rawPrefixWhiteList) :
                     HasPrefix(n, rawPrefixWhiteList[i])>>

\* The raw factory handles every name.  It accepts "/" always; with
\* --docker_only and a whitelist whose first entry is empty it rejects every
\* other name; otherwise it accepts exactly the names one entry prefixes.
RawCanHandleAndAccept(n) ==
    IF n = Root THEN <<TRUE, TRUE>>
    ELSE IF DockerOnly /\ rawPrefixWhiteList[1] = <<>> THEN <<TRUE, FALSE>>
    ELSE <<TRUE, \E i \in 1..Len(rawPrefixWhiteList) :
                     HasPrefix(n, rawPrefixWhiteList[i])>>

\* rkt: accept, err := verifyPod(name); return accept, accept, err.
RktCanHandleAndAccept(n) == <<n \in RktNames, n \in RktNames>>

\* docker: a name outside docker's naming scheme is neither handled nor
\* accepted; a docker name whose inspect fails (the daemon is down) is
\* accepted but not handled, so the scan moves on to the next factory.
DockerCanHandleAndAccept(n) ==
    <<n \in DockerNames /\ dockerUp, n \in DockerNames>>

CanHandleAndAccept(f, n) ==
    CASE f = "raw"    -> RawCanHandleAndAccept(n)
      [] f = "rkt"    -> RktCanHandleAndAccept(n)
      [] f = "docker" -> DockerCanHandleAndAccept(n)

Init ==
    /\ factories = [s \in Sources |-> <<>>]
    /\ regStep = 1
    /\ rawPrefixWhiteList \in WhiteLists
    /\ live \in {L \in SUBSET Names : Root \in L}
    /\ claimed = [n \in Names |-> NoFactory]
    /\ rejected = {}
    /\ dockerUp \in BOOLEAN
    /\ restarts = 0
    /\ churn = 0

(***************************************************************************)
(* Registration.  RegisterContainerHandlerFactory appends the factory to   *)
(* the list of each of its sources.                                        *)
(***************************************************************************)
InstallFirst(f) ==
    factories' = [s \in Sources |->
                    IF s \in SourcesOf(f) THEN <<f>> \o factories[s]
                                          ELSE factories[s]]

Install(f) ==
    factories' = [s \in Sources |->
                    IF s \in SourcesOf(f) THEN Append(factories[s], f)
                                          ELSE factories[s]]

RegisterStepAnyTurn(f) ==
    /\ \E i \in 1..Len(RegistrationOrder) : RegistrationOrder[i] = f
    /\ Install(f) \/ UNCHANGED factories
    /\ regStep' = regStep + 1
    /\ UNCHANGED <<rawPrefixWhiteList, live, claimed, rejected, dockerUp,
                   restarts, churn>>

\* The Register call of factory f at its turn: it installs the factory or
\* fails (daemon unreachable, rkt API service down, no cgroup mounts, inotify
\* watcher not created) and installs nothing.
RegisterStep(f) ==
    /\ regStep <= Len(RegistrationOrder)
    /\ RegistrationOrder[regStep] = f
    /\ Install(f) \/ UNCHANGED factories
    /\ regStep' = regStep + 1
    /\ UNCHANGED <<rawPrefixWhiteList, live, claimed, rejected, dockerUp,
                   restarts, churn>>

RegisterDocker == RegisterStep("docker")
RegisterRkt == RegisterStep("rkt")
RegisterRaw == RegisterStep("raw")

Registered == regStep > Len(RegistrationOrder)

(***************************************************************************)
(* Resolution of a name seen on a source.                                  *)
(***************************************************************************)
\* Positions in the source's list of factories that can handle the name.
Handling(src, n) ==
    {i \in 1..Len(factories[src]) : CanHandleAndAccept(factories[src][i], n)[1]}

\* The first handling factory accepts: its handler is built and owns n.
\* It rejects: n is ignored.  No factory handles n: an error, nothing changes.
Resolve(src, n) ==
    IF Handling(src, n) = {}
    THEN UNCHANGED <<claimed, rejected>>
    ELSE \E i \in Handling(src, n) :
           /\ \A k \in Handling(src, n) : i <= k
           /\ LET f == factories[src][i]
              IN  IF CanHandleAndAccept(f, n)[2]
                  THEN /\ claimed' = [claimed EXCEPT ![n] = f]
                       /\ rejected' = rejected \ {n}
                  ELSE /\ rejected' = rejected \cup {n}
                       /\ UNCHANGED claimed

\* Skip a name some handler already owns, resolve any other.
ResolveUnclaimed(src, n) ==
    IF claimed[n] # NoFactory THEN UNCHANGED <<claimed, rejected>>
                              ELSE Resolve(src, n)

\* The discovery loop reports n on src.
Discover(n, src) ==
    /\ Registered
    /\ n \in live
    /\ n \in Visible(src)
    /\ ResolveUnclaimed(src, n)
    /\ UNCHANGED <<factories, regStep, rawPrefixWhiteList, live, dockerUp,
                   restarts, churn>>

(***************************************************************************)
(* The host: cgroups come and go (a removed cgroup's handler is cleaned up *)
(* and its name released), the docker daemon restarts.                     *)
(***************************************************************************)
CgroupCreated(n) ==
    /\ n \notin live
    /\ churn < MaxChurn
    /\ live' = live \cup {n}
    /\ churn' = churn + 1
    /\ UNCHANGED <<factories, regStep, rawPrefixWhiteList, claimed, rejected,
                   dockerUp, restarts>>

CgroupRemoved(n) ==
    /\ n \in live \ {Root}
    /\ churn < MaxChurn
    /\ live' = live \ {n}
    /\ claimed' = [claimed EXCEPT ![n] = NoFactory]
    /\ rejected' = rejected \ {n}
    /\ churn' = churn + 1
    /\ UNCHANGED <<factories, regStep, rawPrefixWhiteList, dockerUp, restarts>>

DaemonStop ==
    /\ dockerUp
    /\ restarts < MaxDaemonRestarts
    /\ dockerUp' = FALSE
    /\ restarts' = restarts + 1
    /\ UNCHANGED <<factories, regStep, rawPrefixWhiteList, live, claimed,
                   rejected, churn>>

DaemonStart ==
    /\ ~dockerUp
    /\ dockerUp' = TRUE
    /\ UNCHANGED <<factories, regStep, rawPrefixWhiteList, live, claimed,
                   rejected, restarts, churn>>

Next ==
    \/ RegisterDocker \/ RegisterRkt \/ RegisterRaw
    \/ \E n \in Names, src \in Sources : Discover(n, src)
    \/ \E n \in Names : CgroupCreated(n) \/ CgroupRemoved(n)
    \/ DaemonStop \/ DaemonStart

\* The manager re-runs discovery periodically (housekeeping), so a name
\* that stays live and unowned is seen again; a stopped daemon comes back.
Fairness ==
    /\ WF_vars(RegisterDocker) /\ WF_vars(RegisterRkt) /\ WF_vars(RegisterRaw)
    /\ \A n \in Names, src \in Sources : WF_vars(Discover(n, src))
    /\ WF_vars(DaemonStart)

Spec == Init /\ [][Next]_vars /\ Fairness

-----------------------------------------------------------------------------
TypeOK ==
    /\ factories \in [Sources -> Seq(Factories)]
    /\ regStep \in 1..Len(RegistrationOrder) + 1
    /\ rawPrefixWhiteList \in WhiteLists
    /\ live \subseteq Names /\ Root \in live
    /\ claimed \in [Names -> Factories \cup {NoFactory}]
    /\ rejected \subseteq Names
    /\ dockerUp \in BOOLEAN
    /\ restarts \in 0..MaxDaemonRestarts
    /\ churn \in 0..MaxChurn

-----------------------------------------------------------------------------
\* A non-empty whitelist entry prefixes n.  An empty entry is how an empty
\* --raw_cgroup_prefix_whitelist reaches the factory: it allows nothing.
Whitelisted(n) ==
    \E i \in 1..Len(rawPrefixWhiteList) :
        rawPrefixWhiteList[i] # <<>> /\ HasPrefix(n, rawPrefixWhiteList[i])

(* With --docker_only the raw factory owns only "/" and whitelisted names: *)
(* every other cgroup is left to its runtime's factory or ignored.         *)
DockerOnlyHonoured ==
    DockerOnly => \A n \in Names : claimed[n] = "raw" => n = Root \/ Whitelisted(n)

(* Without --docker_only the raw factory accepts every name it is asked    *)
(* about (the flag governs the names the whitelist does not match).        *)
RawGovernedByDockerOnly == ~DockerOnly => rejected = {}

(* A docker container that stays up is eventually owned by the docker      *)
(* factory's handler once docker has registered, even if the daemon was    *)
(* down when its cgroup was first seen.                                    *)
DockerContainersReachDocker ==
    \A n \in DockerNames :
        (n \in live /\ \E i \in 1..Len(factories["raw"]) : factories["raw"][i] = "docker")
            ~> (claimed[n] = "docker" \/ n \notin live)

=============================================================================
