# A TLA+ model of the Cloud Storage FUSE CSI driver

The driver lets Pods use Cloud Storage buckets as volumes. This directory models
the parts of it that keep state, race with each other or survive restarts, checks
them with TLC on small instances, and proves with TLAPS, for any number of calls,
paths, NICs and restarts, the main safety properties of the node service, that it
implements an abstract life cycle of a volume, and the safety of the routing tables
and of the FUSE limit it changes on the host.

## 1. The system

| Part | Code | State | Operations | Talks to |
|---|---|---|---|---|
| Node service | `pkg/csi_driver/node.go` | path locks, `VolumeStateStore`, kernel-params monitors, metrics registry, mount table | NodePublish/Unpublish/Stage/UnstageVolume | kubelet, csi_mounter, metrics manager, mounter Pod |
| Driver-side mount | `pkg/csi_mounter` | descriptors of `/dev/fuse`, listeners, socket files, one-hour timers | Mount, createSocket, startAcceptConn | sidecar, over a unix socket and the files of an emptyDir |
| Sidecar mounter | `pkg/sidecar_mounter`, `cmd/sidecar_mounter` | gcsfuse processes, ready and error files | start, Mount, watchMountOutcome, waitForGcsfuseExit, exit | driver, gcsfuse, kubelet (startup probe) |
| Controller service | `pkg/csi_driver/controller.go`, `shared_mount.go` | locks, mounter Pods, buckets | ControllerPublish/UnpublishVolume, Create/DeleteVolume | attacher, API server behind an informer |
| Profiles scanner | `pkg/profiles/scanner.go` | work queue, `trackedPVs` | syncPV, syncPod, AddPV, DeletePV, periodic enqueue | API server behind informers, Cloud Storage |
| Profiles recommender | `pkg/profiles/recommender.go` | none (a computation of NodePublish and NodeStage) | BuildProfileConfig, merges, cache sizes | PV, StorageClass, node and Pod objects |
| Webhook | `pkg/webhook` | none (a function of a Pod and the listers) | Handle | API server, listers |
| Metrics manager | `pkg/metrics` | registry of collectors | register, unregister, scrape | node service |
| Kernel params | `pkg/util/kernel_params_monitoring.go` | monitors, `max_pages_limit` of the node | monitor, elevated mount | node service, gcsfuse |
| Mounter Pod's server | `pkg/sidecar_mounter/mounter_server.go`, `MountToNode` | gcsfuse processes of shared mounts | Mount, forceKillCmd, stop | NodeStageVolume, over gRPC; gcsfuse |
| Multi-NIC routing | `pkg/csi_driver/network.go` | routing tables, device cache | list devices, add routes and rules | node service, kernel |
| Clients, auth, identity, commands | `pkg/cloud_provider`, `cmd` | none of their own | requests, start-up | all of the above |

`PROJECT.json` lists every part, modelled or not, with the reason.

What makes this code hard to get right:

- CSI calls are repeated, overlap and outlive their callers; each handler takes a
  try-lock on one path but shares the store, the registry and the mounts with others.
  In shared-mount mode a monitor is started under one lock and cancelled under another.
- Everything the driver process knows is lost when it restarts, while the mounts and
  the files in the emptyDir stay. `requiresRepublish` must rebuild what was lost.
- Driver, sidecar and gcsfuse only share a socket and a few files, in an order no
  lock protects, and each of the three may die.
- A Mount call to the mounter Pod that times out leaves gcsfuse at work on a staging path
  that the driver cleans up and stages again; meanwhile a limit of the host is raised and
  a mutex is held.
- Routing tables, rules and routes are written one after the other and outlive the
  driver, while the list of NICs is filled without a lock.
- The controller and the scanner read caches that trail what they write.
- The webhook and the recommender merge what users, StorageClasses and defaults say.

The `hazards` of `PROJECT.json` say, line by line, what could go wrong, and which
property would show it or why none covers it yet.

## 2. Modules

| Module | Models |
|---|---|
| `MetricsManager` | identity of a collector, RegisterMetricsCollector and its limit |
| `NodeServer` | the four node handlers, the locks, the store, the monitors, the mounts, the mounter Pod as the node sees it, driver restarts |
| `NodeKubelet` | composition: `NodeServer` called by a kubelet that keeps the CSI order (external) |
| `VolumeLifecycle` | abstract specification: what the node service promises about the targets of sidecar mode, without handlers, locks or objects |
| `StagedMount` | composition: NodeStageVolume and NodeUnstageVolume, the server in the mounter Pod, its gcsfuse processes, and the host's `max_pages_limit` |
| `Network` | setupMultiNIC: the list of NICs, the choice of one, and its routing table, rule and route |
| `SidecarMount` | composition: csi_mounter, sidecar mounter and gcsfuse processes of one Pod |
| `MounterPodController` | composition: controller service, API server, informer and attacher for one volume on one node |
| `Scanner` | the scanner's worker and event handlers, with the API server and the informer |
| `Recommender` | from the profile objects to the final mount options, as operators, and the steps of the call |
| `Webhook` | admission of a Pod, and of a copy of the result |
| `NodeServerProofs`, `NodeSafetyProofs` | TLAPS proofs about `NodeServer` |
| `LifecycleProofs` | proof that `NodeServer` implements `VolumeLifecycle` |
| `NetworkProofs`, `StagedMountProofs` | TLAPS proofs about `Network` and `StagedMount` |
| `MC...` | constants for TLC |

How state and actions correspond to the code:

**NodeServer.** `call[c]` is a handler goroutine with its program counter and its local
`vs`; `locks`, `store`, `size`, `registry` are the fields of `VolumeLocks`,
`VolumeStateStore` and the metrics manager. `heap` holds the `VolumeState` objects,
so that two pointers to one object, and an object that has left the store while a
handler still uses it, are what they are in Go. Each access to shared state is an
action; a failing call that returns early is `PublishFails`, `StageMountFails` and so
on, with the state left as the code leaves it. Dynamic mounts, skipped access checks
and the collector limit are constants. In `NodeServer` alone a call may arrive at any
time on any path; nothing relies on the kubelet. TryAcquire is taken on arrival (what
precedes it changes nothing). The kernel-params feature is on. A monitor is "running"
while its context is not cancelled and it has not ended by itself.

**NodeKubelet** adds the order that the CSI specification promises: stage before
publish, one operation per volume except unpublishes of different targets, unpublish
of whatever was tried, unstage at the end, republish while wanted, time-outs after
which the handler runs on. Its variables are declared in `NodeServer`, whose handlers leave
them alone, so that the composition consists of the very actions of the handlers.

**VolumeLifecycle** has four sets: targets that are mounted, known (with a
`VolumeState`), monitored and collected. Each changes by one target at a time; a monitor
needs a mount and a state, a collector goes before the state, the state takes its monitor
along, and only then the target is unmounted. `NodeServer` instantiates it with
`MountedTargets`, `KnownTargets`, `MonitoredTargets` and `CollectedTargets`, which are
read off the mount table, the store, the heap and the registry; `ImplementsLifecycle`
is the abstract specification under this mapping.

**StagedMount.** `handler[v]` is the handler that holds the lock of a staging path;
`saved` is `origLimit` while the limit is raised, zero otherwise. `mounts[v]` is the
stack of mounts on the path, since a late gcsfuse mounts over an earlier one and an
unmount takes the newest away. `gcsfuse[v]` lists the Mount calls of a volume: the state
of the process, the state of the call in the server (`rpc`), whether the context of a
call that is still polling has ended (`cut`), and whether the process has been told to
stop (`term`). `NodeServer` has the same two handlers with their metrics and
monitors, and the Mount call as one step; here it is the other way round.

**Network.** `devices` is the cache of ListDevices (the slices `devices` and `links` are
filled together and are one), with its append as a read and a write. The lines the driver
wrote in `rt_tables`, its rules and the default routes are sets that survive a restart; a
rule or route that is there already is not added twice. `handed` remembers which device
and address went into mount options.

**SidecarMount.** A FUSE session is numbered by the `Mount` that made it; `fdtab` maps
descriptor numbers to sessions, lowest free number first, so that reuse is visible, by
volumes of other Pods too (`Foreign`). `mounting` is the one `Mount` that holds
`Mounter.mux`. `sess[n]` keeps listener and goroutines of session n; the timer of Mount may
fire at any moment, also between Accept and SendMsg. A file that cannot be removed is only
logged and stays (`stuck`). The sidecar lists sockets once at its start (`SidecarStarts`),
dials one after the other (`Dial`, `RecvFails`), sets a volume up (`SetUp`, or
`SetUpFails`, `SetUpFatal`, `SetUpRetries` with an error file in between), and runs gcsfuse
with two goroutines per volume (`WatchMountOutcome`, `WaitForGcsfuseExit`). How gcsfuse
ended (`exit`) decides on the error file. Whether a sidecar that ended is started again
follows from `Native` and `RestartPolicy`. The kernel-params file is left out.

**MounterPodController.** `api` is the truth, `cache` what `GetMounterPod` and
`ListMounterPods` read, `watch` the events in between. `ctx` of a call is FALSE once
the attacher has given it up. Two namespaces may hold a PVC of the same volume.
`calm` becomes TRUE when faults have ended.

**Scanner.** One worker (`work`), the set of queued keys, `trackedPVs`, and PVs that
have lives, so that a deleted PV and a new one of the same name differ. A PV also has what
its user specified: valid settings, a class without a profile, an invalid setting of the scan
or an invalid resync period; the last two are InvalidArgument errors, after which
processNextWorkItem drops the key (`Drop`) instead of queueing it again (`Requeue`). Which
PVs a Pod claims (`volumes`) is chosen at the start. A Pod is gated only if its class
exists, as in the webhook. A patch goes to whatever PV has the name. Time is one bit: a scan
is fresh or old. The tracking label of a PV (`ensurePVTrackingLabel`), which no property
depends on, is left out, and so are scan annotations without override mode, which the
webhook refuses.

**Recommender.** `int64` wraps at `Width` bits; float factors are exact fractions.
A key has a spelling because some comparisons fold case and some do not; Go's map
ranges are a choice of an order. Parsing failures of attributes other than cache
sizes are nondeterministic.

**Webhook.** `Handle` is one action per outcome. Containers, volumes and annotations
are records; resources are left out, but for annotations that do not parse.

## 3. Runs

Each run of `PROJECT.json` answers one question. All are meant for
`tlc -workers 2 -config X.cfg M`; the longest takes about three minutes.

| Run (cfg, module) | Question | Result |
|---|---|---|
| `node_sidecar` (MCNodeSidecar) | Three calls in any order and duplicated, on a normal and a dynamic target, with a limit of one collector and driver restarts: do store, registry, monitors and access checks stay consistent, and is each step one of the abstract life cycle? | holds |
| `node_shared` (MCNodeShared) | Two shared targets of one staging path under a kubelet that keeps the order, with a mounter Pod that dies and restarts of the driver: does the state shared across two locks stay consistent, and does no call unmount the staging path under a publish that has checked it? | holds |
| `node_republish` (MCNodeRepublish) | Does every wanted target get its monitor, and get it back after a restart, with a kubelet that restarts too? | holds |
| `sidecar_files` (MCSidecarFiles, MCSidecar) | With expiring timers, files that cannot be removed, restarts of driver and node, a killed sidecar and mounts of other Pods: does gcsfuse get its own device, does every descriptor have an owner, are ready and error files truthful? | holds |
| `sidecar_live` (MCSidecarLive, MCSidecar) | Two volumes, any step of which may fail, and one fault (a restart of the driver, an expiry, a killed sidecar): is each volume whose socket was found served or its failure reported, does the sidecar end with the workload? | holds |
| `staged_mount` (MCStagedMount) | Two volumes that need the raised limit, one of them staged twice, with Mount calls that time out while gcsfuse goes on, a Pod that stops and a driver that dies: is the limit restored, is what was staged served, does every handler return, does no gcsfuse of a failed call stay? | holds |
| `network` (MCNetwork) | Two handlers set up NICs at the same time, with failures at every step and a restart: is a routing table ever shared, is an address handed out ever routed elsewhere? | no |
| `mounter_pod` (MCMounterPod) | Retries, give-ups, evictions, restarts and stale reads: can attach and detach always succeed, and is the Pod gone when delete returns? | holds |
| `scanner` (MCScanner) | May a gate go before its PVs are scanned? Are old scans repeated and gates removed, with PVs that are deleted, replaced or invalid, failures and a restart? | no; yes |
| `scanner_late_class` (MCScannerLateClass, MCScanner) | And when the StorageClass comes after the PV? | violated, see 6 |
| `recommender` (MCRecommender) | Do recommended caches fit the budgets, do users' options and attributes win, in all spellings and at overflow? | holds |
| `webhook` (MCWebhook) | Is an injected Pod accepted by the node, ordered, gated, and left alone when admitted again? | holds |

**Bounds.** Three calls let two handlers race on one path while a third works on the
other; a violation of the locking or of the store needs two. Two VolumeState objects
are one per path plus, after an unpublish, the reused one; three sessions (two in
`node_shared`) allow a remount on one path while a monitor still watches its old device.
`node_sidecar` has no mounter Pods; that `UnpublishLeavesNothing`, `SizeIsCount` and the
rest also survive the replacement of one is shown by the theorems only. In
`node_sidecar` and `node_shared` the driver may restart any number of times, since states are
compared without the count of restarts (`View`), and in `mounter_pod` the controller may;
elsewhere one restart in any state suffices, since it empties the whole memory and what
differs is what it leaves behind. In `sidecar_files` two descriptors for three mounts, one of
which may be of another Pod, force the numbers to be reused; two faults are, for example, an
expiry and a restart. `sidecar_live` has two mounts, one of each volume or two of one, and one
fault.
Two watch events are a stale cache that is one and two writes behind. Three
creations and deletions of PVs are the two PVs of a Pod, one of which goes again, or a PV
that goes and another one that takes its name. In
`staged_mount` two Mount calls of one volume are a late gcsfuse and a retry beside it; the
other volume has none and is there to compete for the mutex. In `network`
two of the four table ids belong to others and three NICs share what is left, so that the
ids run out; two calls suffice for a race on the list, on the file and on the lock. In
`Recommender`, 10 bits with a mebibyte of 4 let every product overflow that can overflow in
64. `MaxAdmissions` 2 is a Pod and a copy of it. Symmetry is used over calls and over the two
shared targets, and in no run with a liveness property.

Deadlock is checked everywhere except where the system really stops: a sidecar that
has ended, a finished recommendation, a Pod admitted for the last time.

**Fairness.** A goroutine that can go on does so (weak fairness of handler steps,
answers, timers of informers). Beyond that:

- `node_republish`: the kubelet repeats NodePublishVolume of a wanted target for ever
  (strong fairness: the opportunity comes and goes with other operations on the
  volume), as `requiresRepublish` of the CSIDriver object asks; from some time on
  publishes do not fail. Without the last point nothing can be promised.
- `staged_mount`: a Mount call ends at kubelet's deadline, if not before; `sync.Mutex`
  does not starve a waiter (strong fairness of `RaiseLimit`); the goroutines and the timer
  of the server run. Nothing is assumed of gcsfuse.
- `sidecar_live`: the kubelet republishes, which gets at least to the exit file
  (`node.go:480`), and starts a sidecar again that is to be restarted; gcsfuse mounts,
  ends, or reports an error and retries, and a set-up does the same: both may retry for ever
  once the error is visible. A gcsfuse whose context was cancelled ends, since the sidecar
  kills it.
- `mounter_pod`: the attacher retries and gives up a call that polls for something that
  will not come; scheduler, kubelet and informer make progress; faults end.
- `scanner`: the work queue is first in, first out, so a key that is queued again
  and again is taken (strong fairness); failures of lookups, scans and patches of valid PVs
  end.

## 4. Proofs

`NodeServerProofs` and `NodeSafetyProofs` prove, for every value of the constants that
satisfies `ConstantsAssumption` (paths of the three kinds are disjoint and finite, bounds are
naturals, the collector limit is an integer):

| Theorem | Statement |
|---|---|
| `TypeCorrect` | `Spec => []TypeOK` |
| `LockingCorrect` | `Spec => []LocksExclusive` |
| `MonitorsStoppable` | `Spec => []TargetMonitorsStoppable` |
| `UnpublishCorrect` | `Spec => []UnpublishLeavesNothing` |
| `MonitoringCorrect` | `Spec => []MonitoredVolumesChecked` |
| `CollectorsBounded` | `Spec => []CollectorLimit` |
| `SizeCorrect` | `Spec => []SizeIsCount` |
| `LifecycleImplemented` (`LifecycleProofs`) | `Spec => ImplementsLifecycle` |

and, from the assumptions in `Network` (two links have no address in common, ids are
naturals, `NoDevice` is no link and `NoCall` no call) and in `StagedMount` (types of the
constants, the limit of the host is positive):

| Theorem | Statement |
|---|---|
| `TablesSeparate` (`NetworkProofs`) | `Spec => []TableOfOneDevice` |
| `SourceRouting` (`NetworkProofs`) | `Spec => []SourceRouted` |
| `LimitAlwaysRestored` (`StagedMountProofs`) | `Spec => []LimitRestored` |

The argument: `HandlerShape` shows that a handler step changes only its own call, keeps
operation and path, and either goes on with its lock or returns and releases it. From this
alone `LockingStep` gets the exclusiveness of the locks; `PodStep` says the same of the end of
a mounter Pod, which may or may not take its mount along. A monitor can be stopped because the
object that holds its CancelFunc is the one in the store. That is not inductive: a
handler uses the object it loaded several steps ago. The strengthening says that an
entry of the store is an object made for that path (`StoredUnderOwnPath`), that a
handler of a target past its load holds the very object that is stored
(`HandlersHoldOwnState`, which needs the locks), and that a running monitor belongs to
a path (`MonitorsHavePaths`). Together with types and locks this is `StateInv`, theorem
`StateInvariant`. Steps are grouped by what they do to the store: nothing
(`QuietStep`), a new object (`AllocatingStep`), a removal (`RemovingStep`).

`UnpublishCorrect` adds `UnpublishProgress`: what NodeUnpublishVolume has removed up to
each program counter; other calls cannot undo it since they would need its lock
(`OthersUntouched`). `MonitoringCorrect` adds that a publisher past the access check
holds an object whose check has passed. `CollectorsBounded` needs the finiteness of the
paths and how one registration changes the number of registered paths. `SizeCorrect` adds
`UnstageHolds`: NodeUnstageVolume decrements without looking, so what it loaded must still be
stored when it deletes it. It is, since only the holder of the staging path's lock removes it,
even while shared publishes, which do not take that lock, call LoadOrStore. The change of the map and
of its counter are one step here; in the code the counter follows at once, and nothing
decides on it in between.

`LifecycleImplemented` shows that every step of `NodeServer` is a step of
`VolumeLifecycle` or leaves its four sets alone. `OnlyOwnTarget` and `OthersSame` reduce
this to the target of the handler that moves, `PublishImplements` and
`UnpublishImplements` go through its steps. The order of an unpublish is known from
`UnpublishProgress`. That a monitor only starts on a mounted target is not known from the
step that starts it: it happens after the mount, and the invariant `MonitorsAfterMount`
keeps the mount until then, since only the owner of the lock unmounts.

`NetworkProofs` strengthens the two properties with what the holder of the mutex
knows: the id it was given is free or its own, the address belongs to its device, and a rule
from the address of a device leads to that device's own table. Calls outside the lock
write nothing but the cache. `StagedMountProofs` says in `LimitInv` which value the limit
has in each phase of the holder of the mutex, and that nobody else has saved a value.

TLC agrees with these invariants on the instances of the runs: `StateInv`,
`UnpublishProgress`, `PublishersChecked`, `UnstageHolds` and `MonitorsAfterMount` on that of
`node_sidecar`, `StateInv`, `UnpublishProgress` and `UnstageHolds` also on that of `node_shared`,
`Inv` of `NetworkProofs` and `LimitInv` on those of `network` and `staged_mount`.

**Only model-checked.** Liveness under fairness is out of the prover's reach. So are the
properties of `NodeKubelet`, which depend on the kubelet's order and are not yet proved
(`StagingMonitorsStoppable`, `UnstageLeavesNothing`, `CheckedMountStays`), `StagedIsServed`,
and everything about the other modules. `LocksExclusive` is proved
(`LockingCorrect`) and has no run of its own. What a recursively defined
operator computes for every input cannot be proved either, for want of induction over data.

## 5. What the properties do not say

Some properties hold only under conditions that the definitions or the constants state.
Most were met by relaxing the condition and reading TLC's counterexample:

- `CheckedMountStays` needs a kubelet that does not restart. A publish the kubelet has
  forgotten may still be between its check of the staging path and its bind mount while
  the path is unstaged. It says nothing of a mounter Pod that is stopped in between: its
  gcsfuse unmounts the path, and the publish binds a bare directory.
- `OwnDevice` excepts a timer of Mount that fires between Accept and SendMsg. The goroutine
  then sends a number that a volume of another Pod may have got in the meantime.
- `DescriptorsOwned` excepts the descriptor of a FUSE mount that failed, which is not closed
  (`csi_mounter.go:109-112`).
- `ReadyMeansMounted` excepts a ready file that could not be removed.
- `ServedOrReported` speaks of volumes whose socket the sidecar has found. A driver that
  dies between the FUSE mount and the socket leaves a mount that nobody will serve, and the
  next publish takes it for a good one (`node.go:518` has a TODO for the related case of a
  listener that timed out). A gcsfuse that is killed before it has mounted is reported by
  nobody, and while the set-up of a volume is retried the volumes after it wait.
- `ErrorStaysVisible` is about a gcsfuse that exits with an error, not one that is killed.
- `SidecarTerminates` leaves out a deleted Pod, which the kubelet ends, and a set-up that
  is being retried: the exit file is looked for only after it.
- `DeleteReturnsAfterTermination` needs that nobody else deletes mounter Pods: a
  delayed deletion event of an earlier Pod ends the wait for the next one (with a
  cache that is three events behind).
- `LimitRestored` excludes a restore that fails and a driver that dies while the limit is
  raised. Another writer of the limit, of whom a TODO warns, is not modelled.
- `StagedIsServed` leaves out volumes with a failed Mount call. NodeStageVolume takes any
  mount on the staging path for its own, so a retry may succeed on the late mount of a
  gcsfuse that is about to be killed.
- `SourceRouted` does not say that the NIC is the one of the NUMA node: a list that is
  incomplete, after an error or while another call fills it, gives another NIC or none.
- `ScannedBeforeUngated` excepts a PV that took the name of a deleted one. The scan of the
  earlier PV stays in `trackedPVs` until the deletion has been handled, and a gate may go
  on the strength of it.
- `RescannedWhenOld` and `GateRemoved` speak of PVs with valid settings. A PV that is dropped
  for an invalid one is not queued again, and an invalid resync period also drops the Pod,
  which stays gated until it is created again (`scanner.go:606-608`). `GateRemoved` needs PVs that
  come after their StorageClass (see 6).
- `DetachSucceeds` excludes mounter Pods of the same volume in two namespaces, which
  ControllerUnpublishVolume refuses for ever (`controller.go:337`).
- `CachesFitBudgets` assumes cache sizes that gcsfuse accepts, for the budgets.
- `UserOptionsWin` excepts a StorageClass parameter (`fileCacheCapacity`) for what the user set
  as a mount option only (`file-cache:max-size-mb`). Attributes are merged before options are
  looked at, so both are passed, and the later one in the order of their text wins.
- `StartOrderKept` leaves a complete prefetch container of the user where it is.
- `ProfilePodGated` speaks of what the listers show.

## 6. Disagreements with the repository's own words

- `scanner_late_class`: a PV that syncPV has looked at before its StorageClass existed
  is never looked at again, and Pods that are created after the class and use the PV stay
  gated, although `scanner.go:620-622` says that requeueing the Pod "eventually results in the
  PV being scanned by syncPV, and the Pod's scheduling gate being removed by syncPod".

Seen while modelling, without a run: a gcsfuse that is killed leaves no error file
(`sidecar_mounter.go:322-325` only logs it), although `node.go:496` says NodePublishVolume
"will still report an error if gcsfuse itself fails". An address that is not set is printed
as `<nil>`, so the loop in `network.go:167-173`, meant to find a route with source and
gateway, always stops at the first route.

## 7. Not modelled

- CreateVolume, DeleteVolume and ValidateVolumeCapabilities: one call of Cloud Storage
  after the other under one try-lock. What a retry finds depends on the fields that
  `CompareBuckets` and `extractLabels` look at, not on an order of steps:
  `cloudBucketToServiceBucket` (`storage.go:293-299`) fills in neither project nor size, so
  an existing bucket is never accepted, and `extractLabels` (`controller.go:517-549`)
  merges the labels of the StorageClass twice, so that any label is refused.
- The metrics scrape (sequential mode and its time budget), Anywhere Cache in the scanner,
  the resources and probes of injected containers, admission of PVs and evictions, the
  classification of error texts into codes, the parsing of kernel parameters, the token server: computations or single checks on data, or
  requests to others, that share no state with what is modelled.
- Identity service, authentication, clients, metadata and prefetch commands. They keep no
  state that another part depends on, and a failure of theirs is a failing step of their
  caller.
- What becomes of a Pod whose mounter Pod is being deleted when the volume is attached
  (`shared_mount.go:266`): it depends on when Kubernetes detaches the volume.

Theorems worth adding: the properties of shared mounts over `NodeKubelet`,
`ReadyMeansMounted` and `ErrorStaysVisible` of `SidecarMount`,
`DeleteReturnsAfterTermination`, and arithmetic lemmas of the recommender.
