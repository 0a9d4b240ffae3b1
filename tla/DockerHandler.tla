---------------------------- MODULE DockerHandler ----------------------------
(***************************************************************************)
(* The Docker container handler (container/docker/handler.go) together     *)
(* with what it depends on: its filesystem sampler (module FsHandler), the *)
(* composite dockerFsHandler that overlays thin-pool or zfs usage on the   *)
(* sample, the docker daemon that the handler inspects, the container's    *)
(* cgroups and directories on the host, and the thin-pool and zfs watchers *)
(* whose caches the overlay reads.                                         *)
(*                                                                         *)
(* newDockerContainerHandler is split at its calls to the outside world    *)
(* (the mount-id file and docker Status, ContainerInspect of the container,*)
(* ContainerInspect of the network peer), so that the container, its peer  *)
(* and the daemon can change between them.  The handler then lives through *)
(* Start, GetStats (called by the manager's housekeeping loop, which may   *)
(* still run once Cleanup has begun) and Cleanup.                          *)
(***************************************************************************)
EXTENDS FsHandler, Naturals

CONSTANTS
    DockerVersions,       \* daemon versions <<major, minor>> a run may meet
    IPs,                  \* container IP addresses
    NoIP,                 \* the empty IP address ""
    NoValue,              \* a watcher's answer "no cached usage" (an error)
    MaxBytes,             \* the largest size of a directory or a thin device
    PartialStatsOnError   \* may the cgroup-stats collaborator return a
                          \* partly filled record together with an error?

\* The docker factory refuses daemons older than 1.0.
ASSUME VersionsAssumption == DockerVersions \subseteq ((Nat \ {0}) \X Nat)
ASSUME BytesAssumption == MaxBytes \in Nat
ASSUME IPAssumption == NoIP \notin IPs
ASSUME NoValueAssumption == NoValue \notin Nat
ASSUME PartialAssumption == PartialStatsOnError \in BOOLEAN

\* The storage drivers the handler's switch statements distinguish; "vfs"
\* stands for every driver that falls to their default branch.
StorageDrivers == {"aufs", "overlay", "overlay2", "zfs", "devicemapper", "vfs"}
DirDrivers == {"aufs", "overlay", "overlay2"}

\* container.DiskUsageMetrics and container.NetworkUsageMetrics.
Metrics == {"disk", "network"}

\* HostConfig.NetworkMode; "container" stands for "container:<peer id>".
NetworkModes == {"default", "host", "container"}

\* The two names a writable layer can have: the container id, or the
\* randomized id stored in the layerdb mount-id file.
ContainerID == "containerID"
MountID == "mountID"
NoLayer == "none"
LayerNames == {ContainerID, MountID, NoLayer}

Phases == {"rwlayer", "inspect", "peer", "ready", "started", "cleaned", "failed"}

VARIABLES
    conf,      \* fixed at start: [storageDriver, dockerVersion, includedMetrics]
    ctr,       \* the daemon's container: [known, running, ip, networkMode]
    peer,      \* the container whose network it may join: [known, ip]
    daemonUp,  \* the docker daemon answers API calls
    layer,     \* bytes in the container's writable layer
    logs,      \* bytes in its log directory (containers/<id>)
    thinCache, \* the thin pool watcher's usage for the container's device
    zfsCache,  \* the zfs watcher's usage per dataset under the parent
    phase,     \* construction step, then the handler's life
    h,         \* the dockerContainerHandler fields set at construction
    stats      \* the last stats record GetStats handed to the manager

envVars == <<conf, ctr, peer, daemonUp, layer, logs, thinCache, zfsCache>>
vars == <<envVars, phase, h, stats, fsVars>>

-----------------------------------------------------------------------------
(* The daemon's on-disk layout and the handler's reading of it.            *)

\* Docker names the writable layer with the mount id from version 1.10 on.
DaemonLayerName ==
    IF \/ conf.dockerVersion[1] < 1
       \/ conf.dockerVersion[1] = 1 /\ conf.dockerVersion[2] < 10
    THEN ContainerID ELSE MountID

\* The writable layer directory of a container below the storage dir.
DaemonRWLayerDir(drv, name) ==
    CASE drv = "aufs"     -> <<"aufs", "diff", name>>
      [] drv = "overlay"  -> <<"overlay", name, "upper">>
      [] drv = "overlay2" -> <<"overlay2", name, "diff">>
      [] OTHER            -> <<>>

\* getRwLayerID: before 1.10 the layer is named after the container.
RandomizedRWLayerMinorVersion == 10
UsesContainerIDOffByOne ==
    conf.dockerVersion[1] <= 1 /\ conf.dockerVersion[2] <= RandomizedRWLayerMinorVersion
UsesContainerID ==
    conf.dockerVersion[1] <= 1 /\ conf.dockerVersion[2] < RandomizedRWLayerMinorVersion
GetRwLayerID == IF UsesContainerID THEN ContainerID ELSE MountID

RootfsStorageDirZfsAsDir(drv, id) ==
    CASE drv = "aufs"     -> <<"aufs", "diff", id>>
      [] drv = "overlay"  -> <<"overlay", id, "upper">>
      [] drv \in {"overlay2", "zfs"} -> <<drv, id, "diff">>
      [] OTHER            -> <<>>

\* The switch on the storage driver that sets rootfsStorageDir ("" is <<>>).
RootfsStorageDir(drv, id) ==
    CASE drv = "aufs"     -> <<"aufs", "diff", id>>
      [] drv = "overlay"  -> <<"overlay", id, "upper">>
      [] drv = "overlay2" -> <<"overlay2", id, "diff">>
      [] OTHER            -> <<>>

\* Every value rootfsStorageDir can take.
RootfsDirs ==
    {<<>>} \cup {RootfsStorageDir(d, n) : d \in DirDrivers, n \in LayerNames}

\* The watchers the factory passes in are determined by the driver.
ThinPoolWatcherOn == conf.storageDriver = "devicemapper"
ZfsWatcherOn == conf.storageDriver = "zfs"

-----------------------------------------------------------------------------
(* dockerFsHandler.Usage: the sample, with a watcher's figure as the base  *)
(* usage and added onto the total.                                         *)

Overlay(u, v) == [base |-> v, total |-> u.total + v]

ThinPoolUsage(u) ==
    IF ThinPoolWatcherOn /\ thinCache # NoValue THEN Overlay(u, thinCache) ELSE u

ZfsUsage(u) ==
    IF ZfsWatcherOn /\ zfsCache[h.rwLayerID] # NoValue
    THEN Overlay(u, zfsCache[h.rwLayerID]) ELSE u

DockerFsUsage == ZfsUsage(ThinPoolUsage(Usage))

-----------------------------------------------------------------------------
(* Handler queries.                                                        *)

NeedNetAlways == "network" \in conf.includedMetrics
NeedNet == "network" \in conf.includedMetrics /\ h.networkMode # "container"

\* The network record the libcontainer handler reads from /proc/<pid>/net:
\* a container that joined a peer's namespace sees the peer's traffic.
LibNetwork == IF "network" \in conf.includedMetrics THEN "traffic" ELSE "zero"

FsRecord(device) ==
    [device |-> device, base |-> DockerFsUsage.base, usage |-> DockerFsUsage.total]

\* getFsStats: the filesystem records it appends; GetDirFsDevice fails once
\* the layer directory is gone, and other drivers report nothing.
FsStats ==
    IF "disk" \notin conf.includedMetrics THEN {}
    ELSE CASE conf.storageDriver = "devicemapper" -> {FsRecord("pool")}
           [] conf.storageDriver \in DirDrivers ->
                  IF ctr.known THEN {FsRecord("dirDevice")} ELSE {}
           [] conf.storageDriver = "zfs" -> {FsRecord("zfsParent")}
           [] OTHER -> {}

NoStats == [network |-> "none", fs |-> {}]

-----------------------------------------------------------------------------
Init ==
    /\ conf \in [storageDriver : StorageDrivers,
                 dockerVersion : DockerVersions,
                 includedMetrics : SUBSET Metrics]
    /\ ctr \in [known : {TRUE}, running : {TRUE}, ip : IPs \cup {NoIP},
                networkMode : NetworkModes]
    /\ peer \in [known : {TRUE}, ip : IPs]
    /\ daemonUp = TRUE
    /\ layer = 0
    /\ logs = 0
    /\ thinCache = NoValue
    /\ zfsCache = [n \in LayerNames |-> NoValue]
    /\ phase = "rwlayer"
    /\ h = [rwLayerID |-> NoLayer, rootfsStorageDir |-> <<>>, ipAddress |-> NoIP,
            networkMode |-> "default", fsHandler |-> FALSE]
    /\ stats = NoStats
    /\ FsInit


-----------------------------------------------------------------------------
(* newDockerContainerHandler, one step per call to the outside world.      *)

\* getRwLayerID and the storage-driver switch: from 1.10 on the layer id is
\* read from the mount-id file, gone once the container is removed; the zfs
\* branch asks the daemon for its status to find the parent dataset.
ResolveRwLayer ==
    /\ phase = "rwlayer"
    /\ IF /\ UsesContainerID \/ ctr.known
          /\ conf.storageDriver # "zfs" \/ daemonUp
       THEN /\ phase' = "inspect"
            /\ h' = [h EXCEPT !.rwLayerID = GetRwLayerID,
                              !.rootfsStorageDir =
                                  RootfsStorageDir(conf.storageDriver, GetRwLayerID)]
       ELSE /\ phase' = "failed"
            /\ UNCHANGED h
    /\ UNCHANGED <<envVars, stats, fsVars>>

\* The fsHandler is built only when disk usage metrics are collected.
WithFsHandler(r) == [r EXCEPT !.fsHandler = "disk" \in conf.includedMetrics]

\* ContainerInspect of the container: its network mode and IP address; a
\* container in another's network namespace without an IP of its own goes
\* on to inspect that container.  Docker reports no address for a container
\* that is not running.
InspectedIP == IF ctr.running THEN ctr.ip ELSE NoIP

InspectContainer ==
    /\ phase = "inspect"
    /\ IF daemonUp /\ ctr.known
       THEN IF InspectedIP = NoIP /\ ctr.networkMode = "container"
            THEN /\ phase' = "peer"
                 /\ h' = [h EXCEPT !.networkMode = ctr.networkMode]
            ELSE /\ phase' = "ready"
                 /\ h' = WithFsHandler([h EXCEPT !.networkMode = ctr.networkMode,
                                                 !.ipAddress = InspectedIP])
       ELSE /\ phase' = "failed"
            /\ UNCHANGED h
    /\ UNCHANGED <<envVars, stats, fsVars>>

\* ContainerInspect of the network peer: one hop, its IP becomes ours.
InspectPeer ==
    /\ phase = "peer"
    /\ IF daemonUp /\ peer.known
       THEN /\ phase' = "ready"
            /\ h' = WithFsHandler([h EXCEPT !.ipAddress = peer.ip])
       ELSE /\ phase' = "failed"
            /\ UNCHANGED h
    /\ UNCHANGED <<envVars, stats, fsVars>>

-----------------------------------------------------------------------------
(* The handler's operations.                                               *)

Start ==
    /\ phase = "ready"
    /\ phase' = "started"
    /\ IF h.fsHandler THEN FsStart ELSE UNCHANGED fsVars
    /\ UNCHANGED <<envVars, h, stats>>

CleanupNoStop ==
    /\ phase \in {"ready", "started"}
    /\ phase' = "cleaned"
    /\ UNCHANGED <<envVars, h, stats, fsVars>>

Cleanup ==
    /\ phase \in {"ready", "started"}
    /\ phase' = "cleaned"
    /\ IF h.fsHandler THEN FsStop ELSE UNCHANGED fsVars
    /\ UNCHANGED <<envVars, h, stats>>

\* GetStats, run by the housekeeping loop.  The libcontainer handler fails
\* once the cgroups are gone (the manager then pushes nothing: no state
\* change); it may return a partly filled record with its error, which is
\* returned before the network record is cleared.  Otherwise the network
\* record is cleared unless needNet, and getFsStats appends its records.
GetStats ==
    /\ phase \in {"started", "cleaned"}
    /\ ctr.running
    /\ \/ stats' = [network |-> IF NeedNet THEN LibNetwork ELSE "zero",
                    fs |-> FsStats]
       \/ /\ PartialStatsOnError
          /\ stats' = [network |-> LibNetwork, fs |-> {}]
    /\ UNCHANGED <<envVars, phase, h, fsVars>>

\* One pass of the sampler's loop over rootfsStorageDir and the log dir; a
\* walk of a directory that does not exist fails and keeps the last sample.
SampleUsage ==
    /\ ctr.known
    /\ h.rootfsStorageDir \in {<<>>, DaemonRWLayerDir(conf.storageDriver, DaemonLayerName)}
    /\ FsUpdate(IF h.rootfsStorageDir = <<>> THEN 0 ELSE layer, logs)
    /\ UNCHANGED <<envVars, phase, h, stats>>

-----------------------------------------------------------------------------
(* The world around the handler.                                           *)

ContainerWrite ==
    /\ ctr.running
    /\ \E b \in 0..MaxBytes : \/ layer' = b /\ UNCHANGED logs
                              \/ logs' = b /\ UNCHANGED layer
    /\ UNCHANGED <<conf, ctr, peer, daemonUp, thinCache, zfsCache, phase, h, stats, fsVars>>

\* The container exits: its cgroup directories are removed, and the manager
\* retires the handler (Cleanup).  A later docker start makes new cgroups
\* and a new handler with a fresh inspect, which this model does not follow.
ContainerStop ==
    /\ ctr.running
    /\ ctr' = [ctr EXCEPT !.running = FALSE]
    /\ UNCHANGED <<conf, peer, daemonUp, layer, logs, thinCache, zfsCache, phase, h, stats, fsVars>>

\* docker rm: the layer, its mount-id file and the log dir go away.
ContainerRemove ==
    /\ ctr.known /\ ~ctr.running
    /\ ctr' = [ctr EXCEPT !.known = FALSE]
    /\ layer' = 0
    /\ logs' = 0
    /\ UNCHANGED <<conf, peer, daemonUp, thinCache, zfsCache, phase, h, stats, fsVars>>

PeerRestart ==
    /\ peer.known
    /\ \E ip \in IPs : peer' = [peer EXCEPT !.ip = ip]
    /\ UNCHANGED <<conf, ctr, daemonUp, layer, logs, thinCache, zfsCache, phase, h, stats, fsVars>>

PeerRemove ==
    /\ peer.known
    /\ peer' = [peer EXCEPT !.known = FALSE]
    /\ UNCHANGED <<conf, ctr, daemonUp, layer, logs, thinCache, zfsCache, phase, h, stats, fsVars>>

DaemonRestart ==
    /\ daemonUp' = ~daemonUp
    /\ UNCHANGED <<conf, ctr, peer, layer, logs, thinCache, zfsCache, phase, h, stats, fsVars>>

\* The thin pool watcher's refresh: usage of every device in the pool.
ThinPoolRefresh ==
    /\ ThinPoolWatcherOn
    /\ thinCache' = IF ctr.known THEN layer ELSE NoValue
    /\ UNCHANGED <<conf, ctr, peer, daemonUp, layer, logs, zfsCache, phase, h, stats, fsVars>>

\* The zfs watcher's refresh: usage of every dataset under the parent.
ZfsRefresh ==
    /\ ZfsWatcherOn
    /\ zfsCache' = [n \in LayerNames |->
                        IF n = DaemonLayerName /\ ctr.known THEN layer ELSE NoValue]
    /\ UNCHANGED <<conf, ctr, peer, daemonUp, layer, logs, thinCache, phase, h, stats, fsVars>>

-----------------------------------------------------------------------------
HandlerNext ==
    \/ ResolveRwLayer \/ InspectContainer \/ InspectPeer
    \/ Start \/ Cleanup \/ GetStats \/ SampleUsage

EnvNext ==
    \/ ContainerWrite \/ ContainerStop \/ ContainerRemove
    \/ PeerRestart \/ PeerRemove \/ DaemonRestart
    \/ ThinPoolRefresh \/ ZfsRefresh

Next == HandlerNext \/ EnvNext

Spec == Init /\ [][Next]_vars

-----------------------------------------------------------------------------
(* Properties.                                                             *)

\* The values the handler's fields can take.
HandlerRec ==
    [rwLayerID : LayerNames, rootfsStorageDir : RootfsDirs,
     ipAddress : IPs \cup {NoIP}, networkMode : NetworkModes,
     fsHandler : BOOLEAN]

TypeOK ==
    /\ conf \in [storageDriver : StorageDrivers,
                 dockerVersion : DockerVersions,
                 includedMetrics : SUBSET Metrics]
    /\ ctr \in [known : BOOLEAN, running : BOOLEAN, ip : IPs \cup {NoIP},
                networkMode : NetworkModes]
    /\ peer \in [known : BOOLEAN, ip : IPs]
    /\ daemonUp \in BOOLEAN
    /\ layer \in 0..MaxBytes
    /\ logs \in 0..MaxBytes
    /\ thinCache \in 0..MaxBytes \cup {NoValue}
    /\ zfsCache \in [LayerNames -> 0..MaxBytes \cup {NoValue}]
    /\ phase \in Phases
    /\ h \in HandlerRec
    /\ stats \in [network : {"none", "zero", "traffic"},
                  fs : SUBSET [device : {"pool", "dirDevice", "zfsParent"},
                               base : Nat, usage : Nat]]
    /\ fsRunning \in BOOLEAN
    /\ fsUsage \in FsUsageRec(Nat)

\* A container that shares another container's network namespace never has
\* network traffic reported for it (spec P6): GetStats clears the network
\* record unless needNet.
SharedNetworkNeverReported ==
    ctr.networkMode = "container" => stats.network # "traffic"

\* Once getRwLayerID has run, the sampler of a directory-driver handler is
\* pointed at the directory where the daemon keeps the container's writable
\* layer (spec P1), whatever the daemon version.
SamplerWatchesContainerLayer ==
    /\ phase \notin {"rwlayer", "failed"}
    /\ conf.storageDriver \in DirDrivers
    => h.rootfsStorageDir = DaemonRWLayerDir(conf.storageDriver, DaemonLayerName)

\* After Cleanup no sample changes the usage the handler reports from
\* (spec section 5, cancellation): Cleanup stops the fsHandler.
NoSamplingAfterCleanup ==
    [][phase = "cleaned" => UNCHANGED fsUsage]_vars

=============================================================================
