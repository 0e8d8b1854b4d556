----------------------------- MODULE NodeServer -----------------------------
(***************************************************************************)
(* The CSI node service (pkg/csi_driver/node.go): the handlers of          *)
(* NodePublishVolume (sidecar and shared mount), NodeUnpublishVolume,      *)
(* NodeStageVolume and NodeUnstageVolume as gRPC goroutines that interleave*)
(* at every access to shared state: the try-locks, the VolumeStateStore,   *)
(* the kernel-params monitors, the metrics registry and the mount table.   *)
(* Calls may arrive at any time, on any path, duplicated and in any order. *)
(***************************************************************************)
EXTENDS MetricsManager

CONSTANTS
  Calls,          \* handler goroutines that may run at the same time
  Targets,        \* target paths of sidecar-mode volumes
  SharedTargets,  \* target paths of shared-mount volumes
  StagingPaths,   \* staging paths of shared-mount volumes
  StagingOf,      \* the staging path a shared target is published from
  Dynamic,        \* targets of dynamic mounts (bucket name "_")
  SkipCheck,      \* targets whose volume sets skipCSIBucketAccessCheck
  NoPath,         \* no path at all
  MaxCollectors,  \* metrics collector limit of the node, negative for none
  MaxStates,      \* bound: VolumeState objects alive at the same time
  MaxSessions,    \* bound: FUSE sessions alive at the same time
  MaxPods,        \* bound: incarnations of the mounter Pod
  MaxRestarts     \* bound: restarts of the driver process

Paths == Targets \cup SharedTargets \cup StagingPaths

ASSUME ConstantsAssumption ==
  /\ StagingOf \in [SharedTargets -> StagingPaths]
  /\ Dynamic \subseteq Targets /\ SkipCheck \subseteq Targets
  /\ Targets \cap SharedTargets = {}
  /\ (Targets \cup SharedTargets) \cap StagingPaths = {}
  /\ NoPath \notin Paths /\ IsFiniteSet(Paths)
  /\ MaxCollectors \in Int /\ MaxStates \in Nat /\ MaxSessions \in Nat
  /\ MaxPods \in Nat /\ MaxRestarts \in Nat

VARIABLES
  call,       \* the gRPC calls being handled
  locks,      \* VolumeLocks.locks
  store,      \* VolumeStateStore.store: the VolumeState of a path, 0 if none
  size,       \* VolumeStateStore.size
  heap,       \* the VolumeState objects of the process
  registry,   \* metrics collectors by mount path
  mnt,        \* the FUSE session mounted at a path
  dirs,       \* staging directories that exist
  pod,        \* the running mounter Pod of a staging path, 0 if none
  npods,      \* incarnations of that Pod so far
  seen,       \* the incarnation the node's Pod lister shows
  restarts,
  \* the kubelet (NodeKubelet); no handler looks at its state or changes it
  want,       \* targets of Pods that should run
  used,       \* targets published to since their last successful unpublish
  staged,     \* "no", "maybe" or "yes" for each staging path
  waits,      \* calls the kubelet still waits for
  krestarts

memory  == <<locks, store, size, heap, registry>>
disk    == <<mnt, dirs>>
pods    == <<pod, npods, seen>>
server  == <<call, memory, disk, pods, restarts>>
kubelet == <<want, used, staged, waits, krestarts>>
vars    == <<server, kubelet>>

States   == 1..MaxStates
Sessions == 1..MaxSessions

NotMounted == 0
BareBind   == -1     \* a bind mount of a directory on which nothing is mounted

\* A VolumeState.  mon is the kernel-params monitor that its sync.Once guards:
\* not started, started, watching a device, stopped by itself, or cancelled
\* through CancelFunc; dev is the FUSE session whose device it watches.
MonitorStates == {"none", "started", "watching", "stopped", "cancelled"}
Devices       == Sessions \cup {NotMounted, BareBind}

VolumeState ==
  [path : Paths \cup {NoPath}, passed : BOOLEAN, uid : 0..MaxPods,
   mon : MonitorStates, dev : Devices]

NewVolumeState(p, uid) ==
  [path |-> p, passed |-> FALSE, uid |-> uid, mon |-> "none", dev |-> NotMounted]

Idle == [op |-> "none", path |-> NoPath, pc |-> "idle", vs |-> 0, uid |-> 0, code |-> "OK"]

Running(v) == heap[v].mon \in {"started", "watching"}

InHandler(c) == call[c].pc \notin {"idle", "done"}

Init ==
  /\ call = [c \in Calls |-> Idle]
  /\ locks = {}
  /\ store = [p \in Paths |-> 0]
  /\ size = 0
  /\ heap = [v \in States |-> NewVolumeState(NoPath, 0)]
  /\ registry = [p \in Paths |-> NoCollector]
  /\ mnt = [p \in Paths |-> NotMounted]
  /\ dirs = {}
  /\ pod = [s \in StagingPaths |-> 0] /\ npods = pod /\ seen = pod
  /\ restarts = 0
  /\ want = {} /\ used = {} /\ waits = {} /\ krestarts = 0
  /\ staged = [s \in StagingPaths |-> "no"]

-----------------------------------------------------------------------------
(***************************************************************************)
(* Building blocks of the handlers.                                        *)
(***************************************************************************)

\* An object is garbage when neither the store, nor a handler, nor a running
\* monitor refers to it; the lowest free one is allocated.
FreeStates ==
  {v \in States : /\ \A p \in Paths : store[p] # v
                  /\ \A c \in Calls : call[c].vs # v
                  /\ ~Running(v)}

Allocates(v) == v \in FreeStates /\ \A w \in FreeStates : v <= w

FreeSessions ==
  {n \in Sessions : /\ \A p \in Paths : mnt[p] # n
                    /\ \A v \in States : Running(v) => heap[v].dev # n}

NewSession(n) == n \in FreeSessions /\ \A m \in FreeSessions : n <= m

\* Mutant: the result of TryAcquire is ignored.
BeginWithoutTry(c, op, p, first) ==
  /\ call[c].pc = "idle"
  /\ locks' = locks \cup {p}
  /\ call' = [call EXCEPT ![c] = [Idle EXCEPT !.op = op, !.path = p, !.pc = first]]
  /\ UNCHANGED <<store, size, heap, registry, disk, pods, restarts>>

\* VolumeLocks.TryAcquire at the start of a handler: the call goes on to its
\* first step with the lock held, or is answered with Aborted.
Begin(c, op, p, first) ==
  /\ call[c].pc = "idle"
  /\ \/ /\ p \notin locks
        /\ locks' = locks \cup {p}
        /\ call' = [call EXCEPT ![c] = [Idle EXCEPT !.op = op, !.path = p, !.pc = first]]
     \/ /\ p \in locks
        /\ call' = [call EXCEPT ![c] = [Idle EXCEPT !.op = op, !.path = p, !.pc = "done",
                                                    !.code = "Aborted"]]
        /\ UNCHANGED locks
  /\ UNCHANGED <<store, size, heap, registry, disk, pods, restarts>>

At(c, op, pc) == call[c].op = op /\ call[c].pc = pc

Goto(c, pc) == call' = [call EXCEPT ![c].pc = pc]

\* The handler returns and its deferred VolumeLocks.Release runs.
Return(c, code) ==
  /\ call' = [call EXCEPT ![c].pc = "done", ![c].code = code, ![c].vs = 0]
  /\ locks' = locks \ {call[c].path}

\* startGcsFuseKernelParamsMonitoring: sync.Once.Do sets CancelFunc and starts
\* the goroutine, the first time it is called for this VolumeState.
StartMonitor(v) ==
  heap' = [heap EXCEPT ![v].mon = IF @ = "none" THEN "started" ELSE @]

\* Mutant: CancelFunc is never called.
CancelMonitorForgotten(v) == UNCHANGED heap

\* CancelFunc is nil until the Once has fired.
CancelMonitor(v) ==
  heap' = [heap EXCEPT ![v].mon = IF @ = "none" THEN "none" ELSE "cancelled"]

\* The response reaches the caller, or nobody if the caller has given up.
Reply(c) ==
  /\ call[c].pc = "done"
  /\ call' = [call EXCEPT ![c] = Idle]
  /\ UNCHANGED <<memory, disk, pods, restarts>>

-----------------------------------------------------------------------------
(***************************************************************************)
(* NodePublishVolume for a sidecar-mode volume.                            *)
(***************************************************************************)

NodePublishVolume(c, t) == Begin(c, "publish", t, "state")

\* Mutant: a VolumeState that is found counts as checked.
PublishLoadStateAsChecked(c) ==
  LET p == call[c].path
  IN  /\ At(c, "publish", "state") /\ p \notin Dynamic
      /\ \/ /\ store[p] # 0
            /\ call' = [call EXCEPT ![c].pc = "register", ![c].vs = store[p]]
            /\ UNCHANGED <<store, size, heap>>
         \/ /\ store[p] = 0
            /\ \E v \in States :
                 /\ Allocates(v)
                 /\ heap' = [heap EXCEPT ![v] = NewVolumeState(p, 0)]
                 /\ store' = [store EXCEPT ![p] = v]
                 /\ size' = size + 1
                 /\ call' = [call EXCEPT ![c].pc = "access", ![c].vs = v]
      /\ UNCHANGED <<locks, registry, disk, pods, restarts, kubelet>>

\* Mutant: only a target that is not mounted gets a VolumeState.
PublishLoadStateUnmounted(c) ==
  LET p == call[c].path
  IN  /\ At(c, "publish", "state")
      /\ \/ /\ store[p] # 0 \/ mnt[p] # NotMounted
            /\ call' = [call EXCEPT ![c].pc = "access", ![c].vs = store[p]]
            /\ UNCHANGED <<store, size, heap>>
         \/ /\ store[p] = 0 /\ mnt[p] = NotMounted
            /\ \E v \in States :
                 /\ Allocates(v)
                 /\ heap' = [heap EXCEPT ![v] = NewVolumeState(p, 0)]
                 /\ store' = [store EXCEPT ![p] = v]
                 /\ size' = size + 1
                 /\ call' = [call EXCEPT ![c].pc = "access", ![c].vs = v]
      /\ UNCHANGED <<locks, registry, disk, pods, restarts, kubelet>>

PublishLoadState(c) ==
  LET p == call[c].path
  IN  /\ At(c, "publish", "state")
      /\ \/ /\ p \in Dynamic
            /\ Goto(c, "access")
            /\ UNCHANGED <<store, size, heap>>
         \/ /\ p \notin Dynamic /\ store[p] # 0
            /\ call' = [call EXCEPT ![c].pc = "access", ![c].vs = store[p]]
            /\ UNCHANGED <<store, size, heap>>
         \/ /\ p \notin Dynamic /\ store[p] = 0
            /\ \E v \in States :
                 /\ Allocates(v)
                 /\ heap' = [heap EXCEPT ![v] = NewVolumeState(p, 0)]
                 /\ store' = [store EXCEPT ![p] = v]
                 /\ size' = size + 1
                 /\ call' = [call EXCEPT ![c].pc = "access", ![c].vs = v]
      /\ UNCHANGED <<locks, registry, disk, pods, restarts, kubelet>>

ChecksAccess(c) == call[c].vs # 0 /\ call[c].path \notin SkipCheck

\* The bucket access check, remembered in the VolumeState once it has passed.
PublishCheckAccess(c) ==
  /\ At(c, "publish", "access")
  /\ Goto(c, "register")
  /\ heap' = IF ChecksAccess(c) THEN [heap EXCEPT ![call[c].vs].passed = TRUE] ELSE heap
  /\ UNCHANGED <<locks, store, size, registry, disk, pods, restarts, kubelet>>

\* Mutant: the identity of the collector lacks the Pod.
PublishRegisterMetricsByVolume(c) ==
  /\ At(c, "publish", "register")
  /\ Goto(c, "mounted")
  /\ registry' = RegisterMetricsCollector(registry, MaxCollectors, call[c].path, call[c].path)
  /\ UNCHANGED <<locks, store, size, heap, disk, pods, restarts, kubelet>>

\* Metrics may be disabled for the volume or the Pod, or the symlink may fail.
PublishRegisterMetrics(c) ==
  /\ At(c, "publish", "register")
  /\ Goto(c, "mounted")
  /\ \/ registry' = RegisterMetricsCollector(registry, MaxCollectors, call[c].path,
                                             <<0, call[c].path>>)
     \/ UNCHANGED registry
  /\ UNCHANGED <<locks, store, size, heap, disk, pods, restarts, kubelet>>

\* Mutant: a target with a VolumeState counts as mounted.
PublishCheckMountedByState(c) ==
  /\ At(c, "publish", "mounted")
  /\ Goto(c, IF mnt[call[c].path] = NotMounted /\ ~(call[c].vs # 0 /\ heap[call[c].vs].passed)
             THEN "mount" ELSE "monitor")
  /\ UNCHANGED <<memory, disk, pods, restarts, kubelet>>

\* A republish of a mounted target skips the mount and restarts the monitor.
PublishCheckMounted(c) ==
  /\ At(c, "publish", "mounted")
  /\ Goto(c, IF mnt[call[c].path] = NotMounted THEN "mount" ELSE "monitor")
  /\ UNCHANGED <<memory, disk, pods, restarts, kubelet>>

\* A mounted target whose gcsfuse has terminated needs nothing more.
PublishNotNeeded(c) ==
  /\ At(c, "publish", "mounted")
  /\ mnt[call[c].path] # NotMounted
  /\ Return(c, "OK")
  /\ UNCHANGED <<store, size, heap, registry, disk, pods, restarts, kubelet>>

PublishMount(c) ==
  /\ At(c, "publish", "mount")
  /\ \E n \in Sessions : NewSession(n) /\ mnt' = [mnt EXCEPT ![call[c].path] = n]
  /\ Goto(c, "monitor")
  /\ UNCHANGED <<memory, dirs, pods, restarts, kubelet>>

PublishStartMonitor(c) ==
  /\ At(c, "publish", "monitor")
  /\ IF call[c].vs = 0 THEN UNCHANGED heap ELSE StartMonitor(call[c].vs)
  /\ Return(c, "OK")
  /\ UNCHANGED <<store, size, registry, disk, pods, restarts, kubelet>>

\* Every early return with an error after the lock was taken: the access
\* check unless it has passed before, the checks before metrics are registered,
\* the exit file, the mount list, gcsfuse or container errors, and the mount.
PublishFails(c) ==
  /\ \/ \E pc \in {"register", "mounted", "mount"} : At(c, "publish", pc)
     \/ At(c, "publish", "access") /\ ChecksAccess(c) /\ ~heap[call[c].vs].passed
  /\ Return(c, "Error")
  /\ UNCHANGED <<store, size, heap, registry, disk, pods, restarts, kubelet>>

-----------------------------------------------------------------------------
(***************************************************************************)
(* NodeUnpublishVolume, for targets of both kinds.                         *)
(***************************************************************************)

NodeUnpublishVolume(c, t) == Begin(c, "unpublish", t, "unregister")

\* Mutant: the collector is left registered.
UnpublishUnregisterSkipped(c) ==
  /\ At(c, "unpublish", "unregister")
  /\ Goto(c, "delete")
  /\ UNCHANGED <<memory, disk, pods, restarts, kubelet>>

UnpublishUnregister(c) ==
  /\ At(c, "unpublish", "unregister")
  /\ registry' = UnregisterMetricsCollector(registry, call[c].path)
  /\ Goto(c, "delete")
  /\ UNCHANGED <<locks, store, size, heap, disk, pods, restarts, kubelet>>

\* Mutant: Delete decrements size also when there is nothing to delete.
UnpublishDeleteAnyState(c) ==
  LET p == call[c].path
  IN  /\ At(c, "unpublish", "delete")
      /\ Goto(c, "unmount")
      /\ IF store[p] = 0 THEN UNCHANGED heap ELSE CancelMonitor(store[p])
      /\ store' = [store EXCEPT ![p] = 0]
      /\ size' = size - 1
      /\ UNCHANGED <<locks, registry, disk, pods, restarts, kubelet>>

UnpublishDeleteState(c) ==
  LET p == call[c].path
  IN  /\ At(c, "unpublish", "delete")
      /\ Goto(c, "unmount")
      /\ \/ /\ store[p] = 0
            /\ UNCHANGED <<store, size, heap>>
         \/ /\ store[p] # 0
            /\ CancelMonitor(store[p])
            /\ store' = [store EXCEPT ![p] = 0]
            /\ size' = size - 1
      /\ UNCHANGED <<locks, registry, disk, pods, restarts, kubelet>>

UnpublishUnmount(c) ==
  /\ At(c, "unpublish", "unmount")
  /\ mnt' = [mnt EXCEPT ![call[c].path] = NotMounted]
  /\ Goto(c, "rmdir")
  /\ UNCHANGED <<memory, dirs, pods, restarts, kubelet>>

UnpublishCleanup(c) ==
  /\ At(c, "unpublish", "rmdir")
  /\ Return(c, "OK")
  /\ UNCHANGED <<store, size, heap, registry, disk, pods, restarts, kubelet>>

UnpublishFails(c) ==
  /\ At(c, "unpublish", "unmount") \/ At(c, "unpublish", "rmdir")
  /\ Return(c, "Error")
  /\ UNCHANGED <<store, size, heap, registry, disk, pods, restarts, kubelet>>

-----------------------------------------------------------------------------
(***************************************************************************)
(* NodePublishVolumeForSharedMount: the lock is the target's, the state is *)
(* the staging path's.                                                     *)
(***************************************************************************)

Staging(c) == StagingOf[call[c].path]

NodePublishVolumeForSharedMount(c, t) == Begin(c, "publishShared", t, "check")

\* The mounter Pod is the one the lister shows; its UID is kept for later.
SharedGetPod(c) ==
  /\ At(c, "publishShared", "check")
  /\ seen[Staging(c)] # 0
  /\ call' = [call EXCEPT ![c].uid = seen[Staging(c)], ![c].pc = "mounted"]
  /\ UNCHANGED <<memory, disk, pods, restarts, kubelet>>

\* The staging path must be mounted; a target that is mounted is not bound again.
SharedCheckMounted(c) ==
  /\ At(c, "publishShared", "mounted")
  /\ mnt[Staging(c)] # NotMounted
  /\ Goto(c, IF mnt[call[c].path] = NotMounted THEN "bind" ELSE "load")
  /\ UNCHANGED <<memory, disk, pods, restarts, kubelet>>

\* The bind mount takes whatever is at the staging path by then.
SharedBind(c) ==
  /\ At(c, "publishShared", "bind")
  /\ Staging(c) \in dirs
  /\ mnt' = [mnt EXCEPT ![call[c].path] =
                IF mnt[Staging(c)] = NotMounted THEN BareBind ELSE mnt[Staging(c)]]
  /\ Goto(c, "load")
  /\ UNCHANGED <<memory, dirs, pods, restarts, kubelet>>

SharedLoadOrStore(c) ==
  LET s == Staging(c)
  IN  /\ At(c, "publishShared", "load")
      /\ \/ /\ store[s] # 0
            /\ call' = [call EXCEPT ![c].pc = "monitor", ![c].vs = store[s]]
            /\ UNCHANGED <<store, size, heap>>
         \/ /\ store[s] = 0
            /\ \E v \in States :
                 /\ Allocates(v)
                 /\ heap' = [heap EXCEPT ![v] = NewVolumeState(s, call[c].uid)]
                 /\ store' = [store EXCEPT ![s] = v]
                 /\ size' = size + 1
                 /\ call' = [call EXCEPT ![c].pc = "monitor", ![c].vs = v]
      /\ UNCHANGED <<locks, registry, disk, pods, restarts, kubelet>>

SharedStartMonitor(c) ==
  /\ At(c, "publishShared", "monitor")
  /\ StartMonitor(call[c].vs)
  /\ Goto(c, "register")
  /\ UNCHANGED <<locks, store, size, registry, disk, pods, restarts, kubelet>>

SharedRegisterMetrics(c) ==
  /\ At(c, "publishShared", "register")
  /\ \/ registry' = RegisterMetricsCollector(registry, MaxCollectors, Staging(c),
                                             <<call[c].uid, Staging(c)>>)
     \/ UNCHANGED registry
  /\ Return(c, "OK")
  /\ UNCHANGED <<store, size, heap, disk, pods, restarts, kubelet>>

SharedFails(c) ==
  /\ \E pc \in {"check", "mounted", "bind"} : At(c, "publishShared", pc)
  /\ Return(c, "Error")
  /\ UNCHANGED <<store, size, heap, registry, disk, pods, restarts, kubelet>>

-----------------------------------------------------------------------------
(***************************************************************************)
(* NodeStageVolume and NodeUnstageVolume.                                  *)
(***************************************************************************)

NodeStageVolume(c, s) == Begin(c, "stage", s, "check")

\* Staging an already mounted path succeeds; otherwise the directory is made.
StageCheck(c) ==
  LET s == call[c].path
  IN  /\ At(c, "stage", "check")
      /\ seen[s] # 0
      /\ \/ /\ mnt[s] # NotMounted
            /\ Return(c, "OK") /\ UNCHANGED dirs
         \/ /\ mnt[s] = NotMounted
            /\ call' = [call EXCEPT ![c].pc = "mount", ![c].uid = seen[s]]
            /\ dirs' = dirs \cup {s} /\ UNCHANGED locks
      /\ UNCHANGED <<store, size, heap, registry, mnt, pods, restarts, kubelet>>

\* waitForMounterServer and the Mount RPC to the Pod found by StageCheck.
StageMount(c) ==
  /\ At(c, "stage", "mount")
  /\ pod[call[c].path] = call[c].uid
  /\ \E n \in Sessions : NewSession(n) /\ mnt' = [mnt EXCEPT ![call[c].path] = n]
  /\ Return(c, "OK")
  /\ UNCHANGED <<store, size, heap, registry, dirs, pods, restarts, kubelet>>

\* gcsfuse mounted, but the answer of the Mount RPC is an error or is lost.
StageMountFails(c) ==
  /\ At(c, "stage", "mount")
  /\ pod[call[c].path] = call[c].uid
  /\ \E n \in Sessions : NewSession(n) /\ mnt' = [mnt EXCEPT ![call[c].path] = n]
  /\ Goto(c, "unmount")
  /\ UNCHANGED <<memory, dirs, pods, restarts, kubelet>>

\* Every error of executeNodeStageVolume is followed by cleanupStagingPath.
StageFails(c) ==
  /\ At(c, "stage", "check") \/ At(c, "stage", "mount")
  /\ Goto(c, "unmount")
  /\ UNCHANGED <<memory, disk, pods, restarts, kubelet>>

\* cleanupStagingPath, on behalf of NodeStageVolume or NodeUnstageVolume.
CleanupUnmount(c) ==
  /\ At(c, "stage", "unmount") \/ At(c, "unstage", "unmount")
  /\ mnt' = [mnt EXCEPT ![call[c].path] = NotMounted]
  /\ Goto(c, "rmdir")
  /\ UNCHANGED <<memory, dirs, pods, restarts, kubelet>>

CleanupRemoveDir(c) ==
  /\ At(c, "stage", "rmdir") \/ At(c, "unstage", "rmdir")
  /\ dirs' = dirs \ {call[c].path}
  /\ Return(c, IF call[c].op = "stage" THEN "Error" ELSE "OK")
  /\ UNCHANGED <<store, size, heap, registry, mnt, pods, restarts, kubelet>>

CleanupFails(c) ==
  /\ call[c].op \in {"stage", "unstage"} /\ call[c].pc \in {"unmount", "rmdir"}
  /\ Return(c, "Error")
  /\ UNCHANGED <<store, size, heap, registry, disk, pods, restarts, kubelet>>

NodeUnstageVolume(c, s) == Begin(c, "unstage", s, "load")

UnstageLoad(c) ==
  LET v == store[call[c].path]
  IN  /\ At(c, "unstage", "load")
      /\ call' = [call EXCEPT ![c].vs = v, ![c].pc = IF v = 0 THEN "unmount" ELSE "unregister"]
      /\ UNCHANGED <<memory, disk, pods, restarts, kubelet>>

\* Mutant: the collector is left registered.
UnstageUnregisterSkipped(c) ==
  /\ At(c, "unstage", "unregister")
  /\ Goto(c, "cancel")
  /\ UNCHANGED <<memory, disk, pods, restarts, kubelet>>

UnstageUnregister(c) ==
  /\ At(c, "unstage", "unregister")
  /\ registry' = UnregisterMetricsCollector(registry, call[c].path)
  /\ Goto(c, "cancel")
  /\ UNCHANGED <<locks, store, size, heap, disk, pods, restarts, kubelet>>

UnstageCancel(c) ==
  /\ At(c, "unstage", "cancel")
  /\ CancelMonitor(call[c].vs)
  /\ Goto(c, "delete")
  /\ UNCHANGED <<locks, store, size, registry, disk, pods, restarts, kubelet>>

UnstageDelete(c) ==
  /\ At(c, "unstage", "delete")
  /\ store' = [store EXCEPT ![call[c].path] = 0]
  /\ size' = size - 1
  /\ call' = [call EXCEPT ![c].pc = "unmount", ![c].vs = 0]
  /\ UNCHANGED <<locks, heap, registry, disk, pods, restarts, kubelet>>

-----------------------------------------------------------------------------
(***************************************************************************)
(* The monitors, the mounter Pod and the driver process.                   *)
(***************************************************************************)

\* MonitorKernelParamsFile resolves the device mounted at its path once, and
\* watches that device from then on.
MonitorResolves(v) ==
  /\ heap[v].mon = "started"
  /\ heap' = [heap EXCEPT ![v].mon = "watching", ![v].dev = mnt[heap[v].path]]
  /\ UNCHANGED <<call, locks, store, size, registry, disk, pods, restarts, kubelet>>

\* It ends by itself on a terminal error.
MonitorStops(v) ==
  /\ Running(v)
  /\ heap' = [heap EXCEPT ![v].mon = "stopped"]
  /\ UNCHANGED <<call, locks, store, size, registry, disk, pods, restarts, kubelet>>

MounterPodStarts(s) ==
  /\ pod[s] = 0 /\ npods[s] < MaxPods
  /\ npods' = [npods EXCEPT ![s] = @ + 1]
  /\ pod' = [pod EXCEPT ![s] = npods[s] + 1]
  /\ UNCHANGED <<call, memory, disk, seen, restarts, kubelet>>

\* A mounter Pod that is killed leaves its mount behind, without a gcsfuse to
\* serve it.  One that is stopped terminates gcsfuse, which unmounts.
MounterPodDies(s) ==
  /\ pod[s] # 0 /\ pod' = [pod EXCEPT ![s] = 0]
  /\ mnt' \in {mnt, [mnt EXCEPT ![s] = NotMounted]}
  /\ UNCHANGED <<call, memory, dirs, npods, seen, restarts, kubelet>>

PodListerSyncs(s) ==
  /\ seen[s] # pod[s] /\ seen' = [seen EXCEPT ![s] = pod[s]]
  /\ UNCHANGED <<call, memory, disk, pod, npods, restarts, kubelet>>

\* A new driver process: calls, locks, states, monitors and collectors are
\* gone, mounts stay.
DriverRestart ==
  /\ restarts < MaxRestarts /\ restarts' = restarts + 1
  /\ call' = [c \in Calls |-> Idle]
  /\ locks' = {} /\ size' = 0
  /\ store' = [p \in Paths |-> 0]
  /\ heap' = [v \in States |-> NewVolumeState(NoPath, 0)]
  /\ registry' = [p \in Paths |-> NoCollector]
  /\ UNCHANGED <<disk, pods>>

Requests(c) ==
  \/ \E t \in Targets : NodePublishVolume(c, t)
  \/ \E t \in SharedTargets : NodePublishVolumeForSharedMount(c, t)
  \/ \E t \in Targets \cup SharedTargets : NodeUnpublishVolume(c, t)
  \/ \E s \in StagingPaths : NodeStageVolume(c, s) \/ NodeUnstageVolume(c, s)

\* A step of a handler that does not give up.
HandlerStep(c) ==
  \/ PublishLoadState(c) \/ PublishCheckAccess(c) \/ PublishRegisterMetrics(c)
  \/ PublishCheckMounted(c) \/ PublishNotNeeded(c) \/ PublishMount(c)
  \/ PublishStartMonitor(c)
  \/ UnpublishUnregister(c) \/ UnpublishDeleteState(c) \/ UnpublishUnmount(c)
  \/ UnpublishCleanup(c)
  \/ SharedGetPod(c) \/ SharedCheckMounted(c) \/ SharedBind(c) \/ SharedLoadOrStore(c)
  \/ SharedStartMonitor(c) \/ SharedRegisterMetrics(c)
  \/ StageCheck(c) \/ StageMount(c) \/ CleanupUnmount(c) \/ CleanupRemoveDir(c)
  \/ UnstageLoad(c) \/ UnstageUnregister(c) \/ UnstageCancel(c) \/ UnstageDelete(c)

HandlerFails(c) ==
  \/ PublishFails(c) \/ UnpublishFails(c) \/ SharedFails(c)
  \/ StageFails(c) \/ StageMountFails(c) \/ CleanupFails(c)

Environment ==
  \/ \E v \in States : MonitorResolves(v) \/ MonitorStops(v)
  \/ \E s \in StagingPaths : MounterPodStarts(s) \/ MounterPodDies(s) \/ PodListerSyncs(s)
  \/ DriverRestart /\ UNCHANGED kubelet

Next ==
  \/ \E c \in Calls : (Requests(c) \/ Reply(c)) /\ UNCHANGED kubelet
  \/ \E c \in Calls : HandlerStep(c) \/ HandlerFails(c)
  \/ Environment

Spec == Init /\ [][Next]_vars

-----------------------------------------------------------------------------
(***************************************************************************)
(* Properties of the node server, whoever calls it and however.            *)
(***************************************************************************)

Operations == {"none", "publish", "publishShared", "unpublish", "stage", "unstage"}

Steps ==
  {"idle", "done", "state", "access", "register", "mounted", "mount", "monitor",
   "check", "bind", "load", "unregister", "delete", "cancel", "unmount", "rmdir"}

CallRecord ==
  [op : Operations, path : Paths \cup {NoPath}, pc : Steps,
   vs : 0..MaxStates, uid : 0..MaxPods, code : {"OK", "Aborted", "Error"}]

Collectors == {NoCollector} \cup ((0..MaxPods) \X Paths)

\* Types of all variables (nodeServer's fields and the mount table).
TypeOK ==
  /\ call \in [Calls -> CallRecord]
  /\ locks \subseteq Paths
  /\ store \in [Paths -> 0..MaxStates]
  /\ size \in Int
  /\ heap \in [States -> VolumeState]
  /\ registry \in [Paths -> Collectors]
  /\ mnt \in [Paths -> Devices]
  /\ dirs \subseteq StagingPaths
  /\ pod \in [StagingPaths -> 0..MaxPods] /\ npods \in [StagingPaths -> 0..MaxPods]
  /\ seen \in [StagingPaths -> 0..MaxPods]
  /\ restarts \in 0..MaxRestarts

\* VolumeLocks: two handlers never work on the same path at the same time, and
\* a path stays locked only while a handler works on it (no lock is leaked by
\* an early return).
LocksExclusive ==
  /\ \A c, d \in Calls :
       InHandler(c) /\ InHandler(d) /\ call[c].path = call[d].path => c = d
  /\ locks = {call[c].path : c \in {d \in Calls : InHandler(d)}}

\* Every running monitor of a sidecar target can still be cancelled: the
\* VolumeState that holds its CancelFunc is the one NodeUnpublishVolume will
\* find in the store.  So at most one monitor runs per target.
TargetMonitorsStoppable ==
  \A v \in States :
    Running(v) /\ heap[v].path \in Targets => store[heap[v].path] = v

\* When NodeUnpublishVolume is about to report success, nothing of the target
\* is left in the process or on the node: no mount, state, collector, monitor.
UnpublishLeavesNothing ==
  \A c \in Calls :
    At(c, "unpublish", "rmdir") =>
      LET p == call[c].path
      IN  /\ mnt[p] = NotMounted /\ store[p] = 0 /\ registry[p] = NoCollector
          /\ \A v \in States : heap[v].path = p => ~Running(v)

\* VolumeStateStore.size counts the entries of the store although Store and
\* Delete change it without looking whether the key was there.
SizeIsCount == size = Cardinality({p \in Paths : store[p] # 0})

\* The collector limit of the node is never exceeded, whatever order
\* publishes, republishes and mounter Pod replacements come in.
CollectorLimit ==
  MaxCollectors >= 0 => Cardinality(Registered(registry)) <= MaxCollectors

\* No monitor runs for a sidecar volume whose bucket access check this driver
\* process has not seen passing, republishes after a restart included.
MonitoredVolumesChecked ==
  \A v \in States :
    heap[v].mon # "none" /\ heap[v].path \in Targets \ SkipCheck => heap[v].passed

-----------------------------------------------------------------------------

MountedTargets   == {t \in Targets : mnt[t] # NotMounted}
KnownTargets     == {t \in Targets : store[t] # 0}
MonitoredTargets == {t \in Targets : \E v \in States : Running(v) /\ heap[v].path = t}
CollectedTargets == {t \in Targets : registry[t] # NoCollector}

Lifecycle ==
  INSTANCE VolumeLifecycle
    WITH mounted <- MountedTargets, known <- KnownTargets,
         monitored <- MonitoredTargets, collected <- CollectedTargets

\* The interleaved handlers of NodePublishVolume and NodeUnpublishVolume, the
\* monitors and the restarts implement the lifecycle of a volume: each of their
\* steps is one of its steps, in its order, or changes nothing of it.
ImplementsLifecycle == Lifecycle!Spec
=============================================================================
