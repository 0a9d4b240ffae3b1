# TLA+ models of cAdvisor's container handlers, factories and load client

This directory holds TLA+ models of three things:

- the container-handler core of this repository (`src/unnamed/part_000`);
- the kernel load client (`src/utils/cpuload/netlink/reader.go`);
- the collaborators these call that live outside `src/`. These are written from `spec.md` and are marked `spec_modelled` in `PROJECT.json`.

The directory also has the TLC configurations that check the models, and TLAPS proofs of the main docker-handler, registry, cloud-info and netlink-reader invariants and of the netlink reader's refinement of an abstract load reader.

## The system

The parts and how they interact. The registry (spec 4.1) ties them together:

1. **Registry and factories.** At start-up each runtime calls its `Register`, in the order docker, rkt, raw (the fallback). A factory that registers is appended to the list of each watch source it names:
   - docker and raw register on the raw cgroup watcher;
   - rkt registers on the rkt watcher.

   For every cgroup name a watcher reports, the discovery loop skips names that a handler already owns. Otherwise it scans the source's factories in order, and the first one whose `CanHandleAndAccept` says *can handle* decides. If it accepts, its handler owns the name; if it rejects, the name is ignored.

   The raw factory always handles. It accepts:
   - `/`;
   - with `--docker_only` and an empty whitelist, nothing else;
   - otherwise, exactly the names that some whitelist entry prefixes.
2. **Docker container handler (construction).**
   - Resolves the read-write layer id. Docker before 1.10 uses the container id; later versions read the mount id.
   - Derives the root storage directory per storage driver.
   - Inspects the container. For a `container:` network mode without an address, it also inspects the peer container.
   - With disk metrics enabled, builds a `dockerFsHandler` around the filesystem sampler.
3. **Docker container handler (lifecycle and stats).**
   - `Start` and `Cleanup` start and stop the sampler.
   - `GetStats` takes libcontainer's stats and clears the network record when the container has no network of its own. It then appends a filesystem record whose usage comes from `dockerFsHandler.Usage`.
4. **dockerFsHandler** replaces the sampler's base usage with the thin-pool (devicemapper) or zfs figure, when the watcher's cache has one, and adds that figure to the total.
5. **Filesystem sampler** (`common.FsHandler`, not under `src/`). It periodically walks the root storage directory and the log directory.
6. **Netlink reader.** `New` opens one connection. Every `GetCpuLoad` then does the following, over that shared connection, with no lock:
   - opens the cgroup directory;
   - sends a request carrying the descriptor number;
   - blocks for the next reply;
   - closes the descriptor.
7. **Cloud info.** Provider packages register with `RegisterCloudProvider` from their `init`; a second registration under a name replaces the first. Every `machine.Info` call builds a new `realCloudInfo`, which ranges over the providers map and keeps the first provider whose `IsActiveProvider` holds.
8. **Machine info** reads `/proc` and `sysfs` once per call.

## Modules

| Module | Models | State | Actions |
|---|---|---|---|
| `FsHandler` | the sampler (spec 4.4) | `fsRunning`, `fsUsage` | `FsStart`, `FsStop`, `FsUpdate` (one completed walk) |
| `DockerHandler` | the docker handler and `dockerFsHandler`, composed with `FsHandler` | `phase` (construction step or lifecycle state), `h` (the handler's fields), `stats` (last `GetStats` result), plus the environment: `conf` (driver, version, metrics), `ctr`/`peer` (docker's view), `daemonUp`, directory sizes, watcher caches | `ResolveRwLayer`, `InspectContainer`, `InspectPeer`, `Start`, `Cleanup`, `GetStats`, `SampleUsage`; environment: container write/stop/remove, peer restart/remove, daemon restart, thin-pool and zfs refresh |
| `Registry` | registry, raw factory, rkt factory, docker factory's resolution | `factories` (per source, in order), `regStep`, `rawPrefixWhiteList`, `live` cgroups, `claimed` (owner per name), `rejected`, `dockerUp` | `RegisterDocker`, `RegisterRkt`, `RegisterRaw`, `Discover(name, source)`; environment: cgroup created/removed, daemon stop/start |
| `NetlinkReader` | the reader with concurrent callers | `conn`, `fdTable`, socket `requests`/`replies`, per caller `pc`, `path`, `fd`, `result` | `New`, `Stop`, `GetCpuLoad` (up to the send), `SendRequest`, `ReceiveReply`; the kernel's `Kernel` |
| `LoadReader` | what the load client promises (spec 4.5), with the protocol hidden | `conn`, per caller `busy`, `path`, `result` | `Create`, `Close`, `Refuse`, `Begin`, `Answer` |
| `CloudInfo` | provider registration and `NewRealCloudInfo` | `providers` map, `started` (main runs), `reported` clouds, `calls` | `RegisterCloudProvider`, `Main`, `InfoCall` (one `machine.Info`, over every map order `MapOrders`) |
| `MC*` | the instances TLC checks | | |
| `DockerHandlerProofs` | TLAPS proofs about `DockerHandler` | | |
| `RegistryProofs` | TLAPS proofs about `Registry` | | |
| `CloudInfoProofs` | TLAPS proofs about `CloudInfo` | | |
| `NetlinkReaderProofs` | TLAPS proofs about `NetlinkReader`, and its refinement of `LoadReader` | | |

`PROJECT.json`'s `map` names the source lines of every definition.

How the docker handler model maps to the code:
- Each construction step of `newDockerContainerHandler` is one action, because docker's state can change between the steps. A failing step ends in `phase = "failed"`, which is the function returning an error.
- The handler's fields are set exactly where the code sets them.
- `GetStats` is one action covering the whole method: the early return on a libcontainer error, the network clearing, and `getFsStats`.
- A container stop removes its cgroups, and the manager then retires the handler (`Cleanup`); a later `docker start` builds a new handler with a fresh inspect, which is a new instance of this model. Docker reports no address for a stopped container, so an inspect after the stop reads `NoIP` (`InspectedIP`).

Data is abstracted:
- a layer name is one of `containerID` / `mountID`;
- a path is the tuple of its components;
- byte counts are `0..MaxBytes`;
- an IP is a model value;
- a cloud provider implementation is a model value, and whether it detects the instance is the constant `Active`.

Registry names are character sequences, because the raw factory compares them with `strings.HasPrefix`. In `MCRegistry` the whitelist `/m` prefixes both `/m` and `/mr`.

## Runs

| Run | Checks | Shows |
|---|---|---|
| `docker_handler` (pass) | `TypeOK`, `SamplerWatchesContainerLayer`, `NoSamplingAfterCleanup` | See the list after this table. |
| `docker_net_zeroing` (pass) | `SharedNetworkNeverReported` | If libcontainer never fails, a container in another container's network namespace never reports traffic. |
| `docker_net_partial` (violation) | `SharedNetworkNeverReported` | If libcontainer returns partial stats with an error, `GetStats` returns before clearing the network record (part_000:633-634). |
| `registry` (pass) | `TypeOK`, `DockerOnlyHonoured`, `DockerContainersReachDocker` | With `--docker_only`, for both the default whitelist and `/m`, and with any set of failed registrations, cgroup churn and daemon restarts: raw owns only `/` and whitelisted names; every docker container is eventually owned by docker. |
| `registry_not_docker_only` (violation) | `RawGovernedByDockerOnly` | Without `--docker_only`, a whitelist still makes raw reject names it does not prefix (part_000:80). |
| `registry_trailing_comma` (violation) | `DockerOnlyHonoured` | A whitelist ending in an empty entry (`--raw_cgroup_prefix_whitelist=/m,`) lets raw accept everything despite `--docker_only`. Only entry 0 is tested for emptiness (part_000:72). |
| `registry_docker_fallback` (violation) | `DockerContainersReachDocker` | Without `--docker_only`, a docker container first seen while the daemon is down is claimed by raw for good. |
| `netlink_reader` (pass) | `TypeOK`, `ReplyMatchesRequest`, `DescriptorsClosedOnReturn`, `CallsReturn`, `ImplementsLoadReader` | With callers that serialise their calls: each call gets the reply for its own cgroup; no descriptor leaks; every call returns, including when `Stop` races it; the reader implements `LoadReader`. |
| `netlink_concurrent` (violation) | `ReplyMatchesRequest` | Two unserialised callers can swap replies (reader.go:74). |
| `cloud_info` (pass) | `TypeOK`, `ReportsAnActiveProvider` | For any registration order, with a duplicate name whose second provider does not detect the instance, every `machine.Info` reports a provider that does, and the unknown one only when none does. |
| `cloud_provider_unstable` (violation) | `CloudProviderStable` | With two detecting providers, two `machine.Info` calls can report different clouds: the map's range order decides (part_000:939). |

The `docker_handler` run covers every storage driver and the daemon versions 1.9, 1.10 and 17.03. Container stops and removals, peer and daemon restarts interleave with every construction step, with sampling and with both watcher refreshes. The run shows that:
- once the layer is resolved, the sampler walks the directory the daemon of that version writes the layer to;
- `Cleanup` freezes the sampler.

The six violation runs are recorded as findings in `PROJECT.json`. Every property of a passing run has a mutant in `PROJECT.json`. A mutant is a plausible bug in a mapped definition, such as a dropped guard, an off-by-one, or a missing `Stop` or close. TLC finds each mutant violating its property.

**Bounds.**
- **Docker handler:**
  - `MaxBytes = 1`: one byte is enough to tell base from total, and a zero cache from a non-zero one.
  - Two IPs, under symmetry: enough for a peer to come back with another address before or after the inspect.
  - Three versions: just below the 1.10 threshold, at it, and a modern version whose major number is above 1 and minor number below 10.
  - All drivers and both metric kinds are enumerated.
  - Size: about 950,000 distinct states.
- **Registry:**
  - Five names: root, one docker container, a slice with an rkt pod under it, and an unrelated cgroup.
  - Two daemon restarts and two cgroup creations or removals.
  - These let a name be seen while the daemon is down, be claimed, be released and come back.
- **Netlink:**
  - Two callers, two cgroups and two descriptor numbers.
  - This is enough for both calls to be in flight at once and for a number to be reused.
- **Cloud info:**
  - Three names (gce, aws, azure) and four registrations: aws is registered twice, once with a stub that does not detect the instance, so the later registration decides; gce and aws detect the instance, azure does not.
  - Six `machine.Info` calls, enough for several map orders to be taken one after another.
  - `CHECK_DEADLOCK FALSE`: a process makes finitely many calls, and the bound stops the run.

**Fairness.**
- **Registry:**
  - Weak fairness on each registration, on `Discover(name, source)` and on `DaemonStart`.
  - Justification: the manager's housekeeping re-runs discovery periodically, so a live, unowned name is seen again.
  - The daemon restarts are bounded, so the daemon eventually stays up.
- **Netlink:**
  - Weak fairness on each caller's send and receive, and on the kernel.
  - The kernel answering is an assumption: `GetCpuLoad` has no timeout, so a hung kernel hangs the caller. The spec leaves this as an open question (§9).
  - `CHECK_DEADLOCK FALSE` only in the netlink runs. A failed `New` leaves no reader, and then nothing happens.

## Refinement

`LoadReader` is what a caller of the load client can rely on: a call either fails at once or is under way until it returns its own cgroup's load or an error, and every call under way returns. `NetlinkReader` instantiates it with `busy <- [c |-> pc[c] # "idle"]`; the socket, the descriptors and the kernel are hidden. `New`/`Stop` map to `Create`/`Close`, a refused or failed open to `Refuse`, a successful `os.Open` to `Begin`, every return after it to `Answer`; sends, receives that hand a reply to the socket and kernel steps are stutters. The run `netlink_reader` checks `ImplementsLoadReader` (with its fairness) as a property; the mutant that lets a receive time out leaves a reply on the socket for the next caller, and the refinement fails.

## What is proved

`DockerHandlerProofs` proves, with TLAPS, for every value of the constants:

- **`TypeCorrect`**: `Spec => []TypeOK`.
- **`SamplerWatchesLayer`**: `Spec => []SamplerWatchesContainerLayer`.
  - The inductive invariant is `LayerInv`: after `ResolveRwLayer`, `h.rootfsStorageDir` is the driver's directory for `GetRwLayerID`, and the configuration never changes.
  - Lemma `RwLayerIDIsDaemonName` shows that the code's version test picks the name the daemon uses, for every version with major ≥ 1. This rests on `VersionsAssumption`: the docker factory refuses older daemons.

- **`SharedNetworkZeroed`**: under the hypothesis `~PartialStatsOnError`, `Spec => []SharedNetworkNeverReported`.
  - The hypothesis says libcontainer returns no partial record along with its error. The run `docker_net_partial` shows what goes wrong without it, so it is a hypothesis of the theorem, not an assumption of the module.
  - The inductive invariant `NetInv` adds `NetModeInspected`: from the inspect on, the handler's copy of the network mode is the container's. `GetStats` tests the copy, and the property is about the container. Lemma `EnvKeepsNetworkMode`: no docker event changes a container's network mode.
- **`NoUsageChangeAfterCleanup`**: `Spec => NoSamplingAfterCleanup`, an action property.
  - It rests on the invariant `SamplerRunsOnlyWhenStarted`: the sampler runs only in phase `started` of a handler that built one.
  - Lemma `OnlySampleChangesUsage`: every step other than a sample leaves the usage alone. A sample needs a running sampler, which the invariant rules out once the phase is `cleaned`.

None of these proofs needs fairness. All need `BytesAssumption` and `NoValueAssumption`.

`RegistryProofs` proves, for every set of names, whitelists and registration outcomes:

- **`TypeCorrect`**: `Spec => []TypeOK`.
- **`RawOwnsOnlyAllowed`**: under the hypothesis `OnlyFirstEntryMayBeEmpty`, `Spec => []DockerOnlyHonoured`.
  - The hypothesis says that no whitelist entry after the first is empty. It is a hypothesis of the theorem, not an `ASSUME` of the module, because the run `registry_trailing_comma` shows what goes wrong without it.
  - The inductive invariant is `TypeOK /\ DockerOnlyHonoured`.
  - The argument rests on two lemmas. `ResolveEffect`: a resolution either changes no owner or gives the name to a factory that accepts it. `RawAcceptsOnlyAllowed`: with `--docker_only`, the raw factory accepts only `/` and names that a non-empty entry prefixes.
  - TypeOK is needed so that the position the scan picks is a position of the source's factory list.

`CloudInfoProofs` proves, for every finite set of provider names and every set of registrations and detecting providers:

- **`TypeCorrect`**: `Spec => []TypeOK`.
- **`ActiveProviderReported`**: `Spec => []ReportsAnActiveProvider`.
  - The inductive invariant `CloudInv` adds `NothingReportedDuringInit`: nothing is reported while package init can still change the map.
  - Lemma `NewRealCloudInfoSound` covers one `NewRealCloudInfo` over any order in `MapOrders`. It rests on two further lemmas:
    - `OrderVisitsAll`: an injection from `1..Cardinality(Registered)` into the registered names is onto them (`FS_Injection`), so a range visits every provider;
    - `LeastIndex`: a non-empty set of indices has a least element (`WFMin` on `<` over `Nat`), so the loop's first hit exists.
  - The module's assumption `IsFiniteSet(Names)` holds because the providers map is a finite Go map.

`NetlinkReaderProofs` proves, for any set of callers, paths and descriptor numbers:

- **`TypeCorrect`**: `Spec => []TypeOK`, serialised callers or not.
- **`NoDescriptorLeak`**: `Spec => []DescriptorsClosedOnReturn`, serialised or not. The inductive invariant `FdInv` adds `HeldFds`: an idle caller holds no descriptor, a busy one holds a descriptor open on its own path, and two busy callers hold different ones. It is needed because `Return` frees `fd[c]`, which must be the caller's own entry; the descriptor chosen by `os.Open` is free, so no held one is overwritten.
- **`SerialRepliesMatch`**: under `Serialized`, `Spec => []ReplyMatchesRequest`. The inductive invariant `SerialInv` adds that at most one call is under way (`OneCall`) and that the socket holds only that call's request or the reply for its path (`SocketHoldsOwnExchange`); so the reply a receive takes is the kernel's answer to its own descriptor.
- **`ImplementsLoadReaderSafety`**: under `Serialized`, `Spec => LoadReader!Init /\ [][LoadReader!Next]_LoadReader!avars`: every step maps to a `LoadReader` step or a stutter (lemma `RefineStep`, resting on `SerialInv`; lemma `ReturnIsAnswer` says a return of a busy call is an `Answer`).

**Only model-checked:**
- the liveness properties (`DockerContainersReachDocker`, `CallsReturn`, and the fairness part of `ImplementsLoadReader`), which TLAPS cannot check (it does not reason about ENABLED and fairness).

## Not modelled

- **Machine info, and the cloud providers' own detection and getters.** These are pure I/O and parsing with no state kept across calls; detection is the constant `Active`.
- **The docker handler's read-only queries** (`GetSpec`, `ListContainers`, `ListProcesses`, labels, `Exists`, `GetCgroupPath`), `GetContainerIPAddress`: they change no state.
- **The container manager.** Only what the spec assigns to the registry is modelled.
- **The `GetMachineInfo` error in `getFsStats`** (part_000:575-578): the model's machine-info lookup never fails.
- **How stale the thin-pool and zfs caches are.** `GetStats` reads them as they stand; the model's byte counts cannot tell a figure a refresh behind from a current one.

## Plan

The following are left for later sittings:

1. A failing `GetDirFsDevice` in `getFsStats` (part_000:595): it needs `GetStats` split around a container removal.
2. A refinement of `DockerHandler`'s `dockerFsHandler` against an abstract "usage = sampler ⊕ overlay" specification.
3. The rkt `NewContainerHandler` failure path.
