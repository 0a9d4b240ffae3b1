------------------------- MODULE DockerHandlerProofs -------------------------
(***************************************************************************)
(* Proofs about the Docker handler model for every value of its constants: *)
(* the type invariant, the sampler's directory, the network record of a   *)
(* container in another's namespace, and the sampler after Cleanup.        *)
(***************************************************************************)
EXTENDS DockerHandler, TLAPS

\* Every driver and layer name gives a rootfsStorageDir of RootfsDirs.
LEMMA RootfsDirsType ==
    ASSUME NEW d \in StorageDrivers, NEW n \in LayerNames
    PROVE  RootfsStorageDir(d, n) \in RootfsDirs
<1>1. CASE d \in DirDrivers
  BY <1>1 DEF RootfsDirs
<1>2. CASE d \notin DirDrivers
  BY <1>2 DEF RootfsStorageDir, RootfsDirs, DirDrivers
<1>3. QED
  BY <1>1, <1>2

\* Recording whether an fsHandler was built keeps the handler's type.
LEMMA WithFsHandlerType ==
    ASSUME NEW r \in HandlerRec
    PROVE  WithFsHandler(r) \in HandlerRec
<1>1. ("disk" \in conf.includedMetrics) \in BOOLEAN
  OBVIOUS
<1>2. QED
  BY <1>1 DEF WithFsHandler, HandlerRec

-----------------------------------------------------------------------------
\* The handler's state stays within its types.
THEOREM TypeCorrect == Spec => []TypeOK
<1> USE BytesAssumption, NoValueAssumption
<1>1. Init => TypeOK
  <2> SUFFICES ASSUME Init PROVE TypeOK
    OBVIOUS
  <2>1. /\ conf \in [storageDriver : StorageDrivers,
                    dockerVersion : DockerVersions,
                    includedMetrics : SUBSET Metrics]
        /\ ctr \in [known : BOOLEAN, running : BOOLEAN, ip : IPs \cup {NoIP},
                   networkMode : NetworkModes]
        /\ peer \in [known : BOOLEAN, ip : IPs]
    BY DEF Init
  <2>2. /\ daemonUp \in BOOLEAN
        /\ layer \in 0..MaxBytes
        /\ logs \in 0..MaxBytes
        /\ thinCache \in 0..MaxBytes \cup {NoValue}
        /\ zfsCache \in [LayerNames -> 0..MaxBytes \cup {NoValue}]
    BY DEF Init
  <2>3. phase \in Phases
    BY DEF Init, Phases
  <2>4. h \in HandlerRec
    BY DEF Init, HandlerRec, RootfsDirs, LayerNames, NoLayer, NetworkModes
  <2>5. stats \in [network : {"none", "zero", "traffic"},
                  fs : SUBSET [device : {"pool", "dirDevice", "zfsParent"},
                               base : Nat, usage : Nat]]
    BY DEF Init, NoStats
  <2>6. fsRunning \in BOOLEAN /\ fsUsage \in FsUsageRec(Nat)
    BY DEF Init, FsInit, ZeroUsage, FsUsageRec
  <2>7. QED
    BY <2>1, <2>2, <2>3, <2>4, <2>5, <2>6 DEF TypeOK
<1>2. TypeOK /\ [Next]_vars => TypeOK'
  <2> SUFFICES ASSUME TypeOK, [Next]_vars PROVE TypeOK'
    OBVIOUS
  <2>1. CASE ResolveRwLayer
    <3>1. GetRwLayerID \in LayerNames
      BY DEF GetRwLayerID, LayerNames
    <3>2. RootfsStorageDir(conf.storageDriver, GetRwLayerID) \in RootfsDirs
      BY <3>1, RootfsDirsType DEF TypeOK
    <3>3. h' \in HandlerRec
      BY <2>1, <3>1, <3>2 DEF ResolveRwLayer, TypeOK, HandlerRec
    <3>4. QED
      BY <2>1, <3>3 DEF ResolveRwLayer, TypeOK, envVars, fsVars, Phases
  <2>2. CASE InspectContainer
    <3>1. h' \in HandlerRec
      <4>1. CASE daemonUp /\ ctr.known /\ InspectedIP = NoIP /\ ctr.networkMode = "container"
        BY <2>2, <4>1 DEF InspectContainer, TypeOK, HandlerRec
      <4>2. CASE daemonUp /\ ctr.known /\ ~(InspectedIP = NoIP /\ ctr.networkMode = "container")
        <5>0. InspectedIP \in IPs \cup {NoIP}
          BY DEF InspectedIP, TypeOK
        <5>1. [h EXCEPT !.networkMode = ctr.networkMode, !.ipAddress = InspectedIP] \in HandlerRec
          BY <5>0 DEF TypeOK, HandlerRec
        <5>2. QED
          BY <2>2, <4>2, <5>1, WithFsHandlerType DEF InspectContainer
      <4>3. CASE ~(daemonUp /\ ctr.known)
        BY <2>2, <4>3 DEF InspectContainer, TypeOK
      <4>4. QED
        BY <4>1, <4>2, <4>3
    <3>2. QED
      BY <2>2, <3>1 DEF InspectContainer, TypeOK, envVars, fsVars, Phases
  <2>3. CASE InspectPeer
    <3>1. h' \in HandlerRec
      <4>1. CASE daemonUp /\ peer.known
        <5>1. [h EXCEPT !.ipAddress = peer.ip] \in HandlerRec
          BY DEF TypeOK, HandlerRec
        <5>2. QED
          BY <2>3, <4>1, <5>1, WithFsHandlerType DEF InspectPeer
      <4>2. CASE ~(daemonUp /\ peer.known)
        BY <2>3, <4>2 DEF InspectPeer, TypeOK
      <4>3. QED
        BY <4>1, <4>2
    <3>2. QED
      BY <2>3, <3>1 DEF InspectPeer, TypeOK, envVars, fsVars, Phases
  <2>4. CASE Start
    BY <2>4 DEF Start, FsStart, TypeOK, envVars, fsVars, Phases
  <2>5. CASE Cleanup
    BY <2>5 DEF Cleanup, FsStop, TypeOK, envVars, fsVars, Phases
  <2>6. CASE GetStats
    <3>1. FsStats \in SUBSET [device : {"pool", "dirDevice", "zfsParent"},
                              base : Nat, usage : Nat]
      <4>2. \A dev \in {"pool", "dirDevice", "zfsParent"} :
               FsRecord(dev) \in [device : {"pool", "dirDevice", "zfsParent"},
                                  base : Nat, usage : Nat]
        <5>1. DockerFsUsage \in FsUsageRec(Nat)
          <6>1. ThinPoolUsage(Usage) \in FsUsageRec(Nat)
            BY DEF ThinPoolUsage, Usage, Overlay, FsUsageRec, TypeOK
          <6>2. QED
            BY <6>1 DEF DockerFsUsage, ZfsUsage, Overlay, FsUsageRec, TypeOK,
                        HandlerRec
        <5>2. QED
          BY <5>1 DEF FsRecord, FsUsageRec
      <4>3. QED
        BY <4>2 DEF FsStats
    <3>2. QED
      BY <2>6, <3>1 DEF GetStats, LibNetwork, TypeOK, envVars, fsVars, Phases
  <2>7. CASE SampleUsage
    BY <2>7 DEF SampleUsage, FsUpdate, FsUsageRec, TypeOK, envVars, Phases
  <2>8. CASE ContainerWrite
    BY <2>8 DEF ContainerWrite, TypeOK, fsVars
  <2>11. CASE ContainerStop
    BY <2>11 DEF ContainerStop, TypeOK, fsVars
  <2>13. CASE ContainerRemove
    <3>1. ctr' \in [known : BOOLEAN, running : BOOLEAN, ip : IPs \cup {NoIP},
                   networkMode : NetworkModes]
      BY <2>13 DEF ContainerRemove, TypeOK
    <3>2. layer' \in 0..MaxBytes /\ logs' \in 0..MaxBytes
      BY <2>13 DEF ContainerRemove
    <3>3. QED
      BY <2>13, <3>1, <3>2 DEF ContainerRemove, TypeOK, fsVars
  <2>14. CASE PeerRestart \/ PeerRemove \/ DaemonRestart
    BY <2>14 DEF PeerRestart, PeerRemove, DaemonRestart, TypeOK, fsVars
  <2>15. CASE ThinPoolRefresh \/ ZfsRefresh
    BY <2>15 DEF ThinPoolRefresh, ZfsRefresh, TypeOK, fsVars
  <2>9. CASE UNCHANGED vars
    BY <2>9 DEF vars, envVars, fsVars, TypeOK
  <2>10. QED
    BY <2>1, <2>2, <2>3, <2>4, <2>5, <2>6, <2>7, <2>8, <2>9, <2>11,
       <2>13, <2>14, <2>15 DEF Next, HandlerNext, EnvNext
<1>3. QED
  BY <1>1, <1>2, PTL DEF Spec

-----------------------------------------------------------------------------
(* SamplerWatchesContainerLayer.  Once getRwLayerID has run, the handler's *)
(* rootfsStorageDir is the one the driver switch computed from it, and the *)
(* version test of getRwLayerID agrees with the daemon's naming for every  *)
(* version from 1.0 on.                                                    *)

LayerInv ==
    phase \notin {"rwlayer", "failed"} =>
        h.rootfsStorageDir = RootfsStorageDir(conf.storageDriver, GetRwLayerID)

\* getRwLayerID's test picks the name the daemon gives the layer.
LEMMA RwLayerIDIsDaemonName ==
    ASSUME TypeOK
    PROVE  GetRwLayerID = DaemonLayerName
<1>1. conf.dockerVersion \in (Nat \ {0}) \X Nat
  BY VersionsAssumption DEF TypeOK
<1>2. UsesContainerID <=>
        \/ conf.dockerVersion[1] < 1
        \/ (conf.dockerVersion[1] = 1 /\ conf.dockerVersion[2] < 10)
  BY <1>1 DEF UsesContainerID, RandomizedRWLayerMinorVersion
<1>3. CASE UsesContainerID
  BY <1>1, <1>2, <1>3 DEF GetRwLayerID, DaemonLayerName
<1>4. CASE ~UsesContainerID
  BY <1>1, <1>2, <1>4 DEF GetRwLayerID, DaemonLayerName
<1>5. QED
  BY <1>3, <1>4

LEMMA LayerInvStep == TypeOK /\ LayerInv /\ [Next]_vars => LayerInv'
<1> SUFFICES ASSUME TypeOK, LayerInv, [Next]_vars PROVE LayerInv'
  OBVIOUS
<1> DEFINE Dir == RootfsStorageDir(conf.storageDriver, GetRwLayerID)
<1>1. CASE ResolveRwLayer
  <2>1. UNCHANGED conf
    BY <1>1 DEF ResolveRwLayer, envVars
  <2>2. phase' = "inspect" => h'.rootfsStorageDir = Dir
    BY <1>1 DEF ResolveRwLayer, TypeOK, HandlerRec
  <2>3. phase' # "inspect" => phase' = "failed"
    BY <1>1 DEF ResolveRwLayer
  <2>4. QED
    BY <2>1, <2>2, <2>3 DEF LayerInv, GetRwLayerID, UsesContainerID
<1>2. CASE InspectContainer \/ InspectPeer
  <2>1. UNCHANGED conf /\ phase \in {"inspect", "peer"}
    BY <1>2 DEF InspectContainer, InspectPeer, envVars
  <2>2. h'.rootfsStorageDir = h.rootfsStorageDir
    <3>1. CASE InspectContainer
      BY <3>1 DEF InspectContainer, WithFsHandler, TypeOK, HandlerRec
    <3>2. CASE InspectPeer
      BY <3>2 DEF InspectPeer, WithFsHandler, TypeOK, HandlerRec
    <3>3. QED
      BY <1>2, <3>1, <3>2
  <2>3. QED
    BY <2>1, <2>2 DEF LayerInv, GetRwLayerID, UsesContainerID
<1>3. CASE Start \/ Cleanup
  <2>1. UNCHANGED <<h, conf>> /\ phase \in {"ready", "started"}
    BY <1>3 DEF Start, Cleanup, envVars
  <2>2. QED
    BY <2>1 DEF LayerInv, GetRwLayerID, UsesContainerID
<1>7. CASE GetStats \/ SampleUsage
  <2>1. UNCHANGED <<phase, h, conf>>
    BY <1>7 DEF GetStats, SampleUsage, envVars
  <2>2. QED
    BY <2>1 DEF LayerInv, GetRwLayerID, UsesContainerID
<1>4. CASE EnvNext
  <2>1. UNCHANGED <<phase, h, conf>>
    BY <1>4 DEF EnvNext, ContainerWrite, ContainerStop,
                ContainerRemove, PeerRestart, PeerRemove, DaemonRestart,
                ThinPoolRefresh, ZfsRefresh
  <2>2. QED
    BY <2>1 DEF LayerInv, GetRwLayerID, UsesContainerID
<1>5. CASE UNCHANGED vars
  BY <1>5 DEF vars, envVars, LayerInv, GetRwLayerID, UsesContainerID
<1>6. QED
  BY <1>1, <1>2, <1>3, <1>4, <1>5, <1>7 DEF Next, HandlerNext

\* For every daemon version the factory accepts, the sampler of a handler
\* on a directory driver walks the container's own writable layer.
THEOREM SamplerWatchesLayer == Spec => []SamplerWatchesContainerLayer
<1>1. Init => LayerInv
  BY DEF Init, LayerInv
<1>2. TypeOK /\ LayerInv /\ [Next]_vars => LayerInv'
  BY LayerInvStep
<1>3. TypeOK /\ LayerInv => SamplerWatchesContainerLayer
  BY RwLayerIDIsDaemonName DEF LayerInv, SamplerWatchesContainerLayer,
     RootfsStorageDir, DaemonRWLayerDir
<1>4. QED
  BY <1>1, <1>2, <1>3, TypeCorrect, PTL DEF Spec

-----------------------------------------------------------------------------
(* SharedNetworkNeverReported.  GetStats decides needNet from the handler's *)
(* copy of the network mode, and the property is about the container's     *)
(* mode: NetModeInspected says the copy is the container's own from the     *)
(* inspect on.  Docker cannot change a container's network mode, so no      *)
(* environment step disturbs it.  The theorem assumes that libcontainer     *)
(* returns no partial record with its error: the run docker_net_partial     *)
(* shows the early return that breaks the property otherwise.               *)

NetModeInspected ==
    phase \in {"peer", "ready", "started", "cleaned"} =>
        h.networkMode = ctr.networkMode

NetInv == NetModeInspected /\ SharedNetworkNeverReported

\* The environment never changes a container's network mode.
LEMMA EnvKeepsNetworkMode ==
    ASSUME TypeOK, EnvNext
    PROVE  ctr'.networkMode = ctr.networkMode /\ UNCHANGED <<phase, h, stats>>
<1>1. CASE ContainerStop \/ ContainerRemove
  BY <1>1 DEF ContainerStop, ContainerRemove, TypeOK
<1>2. CASE ContainerWrite \/ PeerRestart \/ PeerRemove \/ DaemonRestart
           \/ ThinPoolRefresh \/ ZfsRefresh
  BY <1>2 DEF ContainerWrite, PeerRestart, PeerRemove, DaemonRestart,
              ThinPoolRefresh, ZfsRefresh
<1>3. QED
  BY <1>1, <1>2 DEF EnvNext

LEMMA NetInvStep ==
    ASSUME ~PartialStatsOnError
    PROVE  TypeOK /\ NetInv /\ [Next]_vars => NetInv'
<1> SUFFICES ASSUME TypeOK, NetInv, [Next]_vars PROVE NetInv'
  OBVIOUS
<1>1. CASE ResolveRwLayer
  <2>1. phase' \in {"inspect", "failed"} /\ UNCHANGED <<ctr, stats>>
    BY <1>1 DEF ResolveRwLayer, envVars
  <2>2. QED
    BY <2>1 DEF NetInv, NetModeInspected, SharedNetworkNeverReported
<1>2. CASE InspectContainer
  <2>1. UNCHANGED <<ctr, stats>>
    BY <1>2 DEF InspectContainer, envVars
  <2>2. phase' \in {"peer", "ready"} => h'.networkMode = ctr.networkMode
    BY <1>2 DEF InspectContainer, WithFsHandler, TypeOK, HandlerRec
  <2>3. phase' \in {"peer", "ready", "failed"}
    BY <1>2 DEF InspectContainer
  <2>4. QED
    BY <2>1, <2>2, <2>3 DEF NetInv, NetModeInspected, SharedNetworkNeverReported
<1>3. CASE InspectPeer
  <2>1. UNCHANGED <<ctr, stats>> /\ phase = "peer"
    BY <1>3 DEF InspectPeer, envVars
  <2>2. h'.networkMode = h.networkMode
    BY <1>3 DEF InspectPeer, WithFsHandler, TypeOK, HandlerRec
  <2>3. QED
    BY <1>3, <2>1, <2>2 DEF InspectPeer, NetInv, NetModeInspected,
                            SharedNetworkNeverReported
<1>4. CASE Start \/ Cleanup
  <2>1. UNCHANGED <<ctr, h, stats>> /\ phase \in {"ready", "started"}
        /\ phase' \in {"started", "cleaned"}
    BY <1>4 DEF Start, Cleanup, envVars
  <2>2. QED
    BY <2>1 DEF NetInv, NetModeInspected, SharedNetworkNeverReported
<1>5. CASE GetStats
  <2>1. UNCHANGED <<ctr, h, phase>> /\ phase \in {"started", "cleaned"}
    BY <1>5 DEF GetStats, envVars
  <2>2. stats'.network = IF NeedNet THEN LibNetwork ELSE "zero"
    BY <1>5 DEF GetStats
  <2>3. NeedNet => ctr.networkMode # "container"
    BY <2>1 DEF NeedNet, NetInv, NetModeInspected
  <2>4. QED
    BY <2>1, <2>2, <2>3 DEF NetInv, NetModeInspected, SharedNetworkNeverReported
<1>6. CASE SampleUsage
  <2>1. UNCHANGED <<ctr, h, phase, stats>>
    BY <1>6 DEF SampleUsage, envVars
  <2>2. QED
    BY <2>1 DEF NetInv, NetModeInspected, SharedNetworkNeverReported
<1>7. CASE EnvNext
  <2>1. ctr'.networkMode = ctr.networkMode /\ UNCHANGED <<phase, h, stats>>
    BY <1>7, EnvKeepsNetworkMode
  <2>2. QED
    BY <2>1 DEF NetInv, NetModeInspected, SharedNetworkNeverReported
<1>8. CASE UNCHANGED vars
  BY <1>8 DEF vars, envVars, NetInv, NetModeInspected, SharedNetworkNeverReported
<1>9. QED
  BY <1>1, <1>2, <1>3, <1>4, <1>5, <1>6, <1>7, <1>8 DEF Next, HandlerNext

\* When libcontainer returns no partial record with its error, a container
\* that joined another container's network namespace never has traffic
\* reported for it: GetStats's needNet test reads the network mode that
\* the inspect copied from the container, and docker never changes it.
THEOREM SharedNetworkZeroed ==
    ASSUME ~PartialStatsOnError
    PROVE  Spec => []SharedNetworkNeverReported
<1>1. Init => NetInv
  BY DEF Init, NetInv, NetModeInspected, SharedNetworkNeverReported, NoStats
<1>2. TypeOK /\ NetInv /\ [Next]_vars => NetInv'
  BY NetInvStep
<1>3. NetInv => SharedNetworkNeverReported
  BY DEF NetInv
<1>4. QED
  BY <1>1, <1>2, <1>3, TypeCorrect, PTL DEF Spec

-----------------------------------------------------------------------------
(* NoSamplingAfterCleanup.  Only a running sampler changes the usage, and   *)
(* the sampler runs only between Start and Cleanup of a handler that built  *)
(* one: Start starts it only when h.fsHandler, Cleanup stops it then, and   *)
(* no step leaves "cleaned".                                                *)

SamplerRunsOnlyWhenStarted == fsRunning => phase = "started" /\ h.fsHandler

LEMMA SamplerRunsStep ==
    TypeOK /\ SamplerRunsOnlyWhenStarted /\ [Next]_vars => SamplerRunsOnlyWhenStarted'
<1> SUFFICES ASSUME TypeOK, SamplerRunsOnlyWhenStarted, [Next]_vars
             PROVE  SamplerRunsOnlyWhenStarted'
  OBVIOUS
<1>1. CASE ResolveRwLayer \/ InspectContainer \/ InspectPeer
  <2>1. ~fsRunning /\ UNCHANGED fsVars
    BY <1>1 DEF ResolveRwLayer, InspectContainer, InspectPeer, SamplerRunsOnlyWhenStarted
  <2>2. QED
    BY <2>1 DEF SamplerRunsOnlyWhenStarted, fsVars
<1>2. CASE Start
  <2>1. phase' = "started" /\ UNCHANGED h /\ ~fsRunning
    BY <1>2 DEF Start, SamplerRunsOnlyWhenStarted
  <2>2. fsRunning' => h.fsHandler
    BY <1>2, <2>1 DEF Start, FsStart, fsVars
  <2>3. QED
    BY <2>1, <2>2 DEF SamplerRunsOnlyWhenStarted
<1>3. CASE Cleanup
  <2>1. CASE h.fsHandler
    BY <1>3, <2>1 DEF Cleanup, FsStop, SamplerRunsOnlyWhenStarted
  <2>2. CASE ~h.fsHandler
    BY <1>3, <2>2 DEF Cleanup, fsVars, SamplerRunsOnlyWhenStarted
  <2>3. QED
    BY <2>1, <2>2
<1>4. CASE GetStats \/ SampleUsage
  BY <1>4 DEF GetStats, SampleUsage, FsUpdate, fsVars, SamplerRunsOnlyWhenStarted
<1>5. CASE EnvNext
  BY <1>5 DEF EnvNext, ContainerWrite, ContainerStop,
              ContainerRemove, PeerRestart, PeerRemove, DaemonRestart,
              ThinPoolRefresh, ZfsRefresh, fsVars, SamplerRunsOnlyWhenStarted
<1>6. CASE UNCHANGED vars
  BY <1>6 DEF vars, fsVars, SamplerRunsOnlyWhenStarted
<1>7. QED
  BY <1>1, <1>2, <1>3, <1>4, <1>5, <1>6 DEF Next, HandlerNext

\* Every step but a sample leaves the usage alone.
LEMMA OnlySampleChangesUsage ==
    ASSUME [Next]_vars, ~SampleUsage
    PROVE  UNCHANGED fsUsage
BY DEF Next, HandlerNext, EnvNext, ResolveRwLayer, InspectContainer, InspectPeer,
       Start, FsStart, Cleanup, FsStop, GetStats, ContainerWrite, ContainerStop,
       ContainerRemove, PeerRestart, PeerRemove, DaemonRestart,
       ThinPoolRefresh, ZfsRefresh, vars, fsVars

\* Once Cleanup has run, no step changes the usage the handler reports
\* from: Cleanup stops the sampler that Start started, for every storage
\* driver, metric set and daemon version.
THEOREM NoUsageChangeAfterCleanup == Spec => NoSamplingAfterCleanup
<1>1. Init => SamplerRunsOnlyWhenStarted
  BY DEF Init, FsInit, SamplerRunsOnlyWhenStarted
<1>2. TypeOK /\ SamplerRunsOnlyWhenStarted /\ [Next]_vars => SamplerRunsOnlyWhenStarted'
  BY SamplerRunsStep
<1>3. SamplerRunsOnlyWhenStarted /\ [Next]_vars
        => [phase = "cleaned" => UNCHANGED fsUsage]_vars
  <2> SUFFICES ASSUME SamplerRunsOnlyWhenStarted, [Next]_vars, phase = "cleaned"
               PROVE  UNCHANGED fsUsage
    OBVIOUS
  <2>1. ~SampleUsage
    BY DEF SampleUsage, FsUpdate, SamplerRunsOnlyWhenStarted
  <2>2. QED
    BY <2>1, OnlySampleChangesUsage
<1>4. QED
  BY <1>1, <1>2, <1>3, TypeCorrect, PTL DEF Spec, NoSamplingAfterCleanup

=============================================================================
