-------------------------- MODULE LifecycleProofs ---------------------------
(***************************************************************************)
(* The node server implements the lifecycle of a volume, for any number of *)
(* concurrent calls, targets, VolumeState objects and restarts.            *)
(***************************************************************************)
EXTENDS NodeSafetyProofs

\* A publish starts the monitor of a target that is mounted: it has just been
\* mounted, or was found mounted and only the holder of its lock unmounts it.
MonitorsAfterMount ==
  \A c \in Calls : At(c, "publish", "monitor") => mnt[call[c].path] # NotMounted

\* What the lifecycle says of a target stays as it is.
Same(t) ==
  /\ mnt'[t] = mnt[t] /\ store'[t] = store[t] /\ registry'[t] = registry[t]
  /\ t \in MonitoredTargets' <=> t \in MonitoredTargets

-----------------------------------------------------------------------------

\* A handler stops no monitor of another sidecar target: CancelFunc is taken from
\* the VolumeState of the handler's own path, and no VolumeState with a running
\* monitor is allocated anew.
LEMMA MonitorsLeftRunning ==
  ASSUME StateInv, NEW c \in Calls, HandlerStep(c) \/ HandlerFails(c),
         NEW v \in States, Running(v), heap[v].path \in Targets, heap[v].path # call[c].path
  PROVE  heap'[v].path = heap[v].path /\ Running(v)'
<1>a. heap \in [States -> VolumeState] BY DEF StateInv, TypeOK
<1>b. ASSUME heap' = heap PROVE heap'[v].path = heap[v].path /\ Running(v)' BY <1>b DEF Running
<1>c. ASSUME NEW w \in States, NEW q, NEW uid, Allocates(w),
             heap' = [heap EXCEPT ![w] = NewVolumeState(q, uid)]
      PROVE  heap'[v].path = heap[v].path /\ Running(v)'
  <2>1. w # v BY <1>c DEF Allocates, FreeStates
  <2> QED BY <1>a, <1>c, <2>1 DEF Running
<1>d. ASSUME NEW w, CancelMonitor(w), w # v PROVE heap'[v].path = heap[v].path /\ Running(v)'
  BY <1>a, <1>d DEF CancelMonitor, Running
<1>e. ASSUME NEW w, StartMonitor(w) PROVE heap'[v].path = heap[v].path /\ Running(v)'
  BY <1>a, <1>e DEF StartMonitor, VolumeState, Running
<1>f. StepsOf(c) BY HandlerShape DEF StateInv
<1>1. \/ PublishLoadState(c) \/ PublishCheckAccess(c) \/ PublishStartMonitor(c)
      \/ UnpublishDeleteState(c) \/ SharedLoadOrStore(c) \/ SharedStartMonitor(c)
      \/ UnstageCancel(c) \/ heap' = heap
  BY DEF HandlerStep, HandlerFails, memory,
    PublishRegisterMetrics, PublishCheckMounted, PublishNotNeeded, PublishMount, PublishFails,
    UnpublishUnregister, UnpublishUnmount, UnpublishCleanup, UnpublishFails,
    SharedGetPod, SharedCheckMounted, SharedBind, SharedRegisterMetrics, SharedFails,
    StageCheck, StageMount, StageMountFails, StageFails, CleanupUnmount, CleanupRemoveDir,
    CleanupFails, UnstageLoad, UnstageUnregister, UnstageDelete
<1>2. CASE PublishLoadState(c) BY <1>b, <1>c, <1>2 DEF PublishLoadState
<1>3. CASE PublishCheckAccess(c) BY <1>a, <1>3 DEF PublishCheckAccess, VolumeState, Running
<1>4. CASE PublishStartMonitor(c) BY <1>b, <1>e, <1>4 DEF PublishStartMonitor
<1>5. CASE UnpublishDeleteState(c)
  <2>1. CASE store[call[c].path] = 0
    BY <1>b, <1>5, <2>1 DEF UnpublishDeleteState
  <2>2. CASE store[call[c].path] # 0
    <3>1. call[c].path \in Paths
      BY <1>f, <1>5 DEF StepsOf, StateInv, OpsOnTheirPaths, Paths
    <3>2. store[call[c].path] # v
      BY <2>2, <3>1 DEF StateInv, StoredUnderOwnPath
    <3>3. CancelMonitor(store[call[c].path])
      BY <1>5, <2>2 DEF UnpublishDeleteState
    <3> QED BY <1>d, <3>2, <3>3
  <2> QED BY <2>1, <2>2
<1>6. CASE SharedLoadOrStore(c) BY <1>b, <1>c, <1>6 DEF SharedLoadOrStore
<1>7. CASE SharedStartMonitor(c) BY <1>e, <1>7 DEF SharedStartMonitor
<1>8. CASE UnstageCancel(c)
  <2>1. call[c].op = "unstage" BY <1>8 DEF UnstageCancel, At
  <2>2. v # 0 BY DEF States
  <2>3. call[c].vs # v BY <2>1, <2>2 DEF StateInv, HandlersHoldOwnState
  <2> QED BY <1>d, <1>8, <2>3 DEF UnstageCancel
<1> QED BY <1>b, <1>1, <1>2, <1>3, <1>4, <1>5, <1>6, <1>7, <1>8

\* The lock of a path is enough: a handler changes nothing the lifecycle says of a
\* target that is not its own.
LEMMA OthersSame ==
  ASSUME StateInv, NEW c \in Calls, HandlerStep(c) \/ HandlerFails(c),
         NEW t \in Targets, t # call[c].path
  PROVE  Same(t)
<1>1. Untouched(t) BY OthersUntouched
<1>2. ASSUME NEW v \in States, Running(v), heap[v].path = t
      PROVE  heap'[v].path = t /\ Running(v)'
  BY <1>2, MonitorsLeftRunning
<1>3. t \in MonitoredTargets' <=> \E v \in States : Running(v)' /\ heap'[v].path = t
  BY DEF MonitoredTargets
<1>4. t \in MonitoredTargets <=> \E v \in States : Running(v) /\ heap[v].path = t
  BY DEF MonitoredTargets
<1> QED BY <1>1, <1>2, <1>3, <1>4 DEF Same, Untouched

-----------------------------------------------------------------------------

\* What a step does to the four sets when it leaves every target but p alone.
LEMMA OnlyOwnTarget ==
  ASSUME NEW p \in Targets, \A t \in Targets : t # p => Same(t)
  PROVE  /\ MountedTargets' = IF mnt'[p] # NotMounted
                              THEN MountedTargets \cup {p} ELSE MountedTargets \ {p}
         /\ KnownTargets' = IF store'[p] # 0
                            THEN KnownTargets \cup {p} ELSE KnownTargets \ {p}
         /\ MonitoredTargets' = IF p \in MonitoredTargets'
                                THEN MonitoredTargets \cup {p} ELSE MonitoredTargets \ {p}
         /\ CollectedTargets' = IF registry'[p] # NoCollector
                                THEN CollectedTargets \cup {p} ELSE CollectedTargets \ {p}
<1>1. MountedTargets' = IF mnt'[p] # NotMounted
                        THEN MountedTargets \cup {p} ELSE MountedTargets \ {p}
  BY DEF MountedTargets, Same
<1>2. KnownTargets' = IF store'[p] # 0 THEN KnownTargets \cup {p} ELSE KnownTargets \ {p}
  BY DEF KnownTargets, Same
<1>3. MonitoredTargets' = IF p \in MonitoredTargets'
                          THEN MonitoredTargets \cup {p} ELSE MonitoredTargets \ {p}
  <2>1. MonitoredTargets \subseteq Targets /\ MonitoredTargets' \subseteq Targets
    BY DEF MonitoredTargets
  <2> QED BY <2>1 DEF Same
<1>4. CollectedTargets' = IF registry'[p] # NoCollector
                          THEN CollectedTargets \cup {p} ELSE CollectedTargets \ {p}
  BY DEF CollectedTargets, Same
<1> QED BY <1>1, <1>2, <1>3, <1>4

\* A step that changes nothing of any target is a stuttering step of the lifecycle.
LEMMA AllSame ==
  ASSUME \A t \in Targets : Same(t)
  PROVE  UNCHANGED Lifecycle!vars
<1>1. MountedTargets' = MountedTargets BY DEF MountedTargets, Same
<1>2. KnownTargets' = KnownTargets BY DEF KnownTargets, Same
<1>3. MonitoredTargets \subseteq Targets /\ MonitoredTargets' \subseteq Targets
  BY DEF MonitoredTargets
<1>4. MonitoredTargets' = MonitoredTargets BY <1>3 DEF Same
<1>5. CollectedTargets' = CollectedTargets BY DEF CollectedTargets, Same
<1> QED BY <1>1, <1>2, <1>4, <1>5 DEF Lifecycle!vars

\* Membership in the four sets, as the handlers know it.
LEMMA OfTarget ==
  ASSUME NEW p \in Targets
  PROVE  /\ p \in MountedTargets <=> mnt[p] # NotMounted
         /\ p \in KnownTargets <=> store[p] # 0
         /\ p \in MonitoredTargets <=> \E v \in States : Running(v) /\ heap[v].path = p
         /\ p \in CollectedTargets <=> registry[p] # NoCollector
BY DEF MountedTargets, KnownTargets, MonitoredTargets, CollectedTargets

\* The steps of NodePublishVolume on its own target: a VolumeState is stored, a
\* collector registered or replaced, the target mounted, its monitor started.
LEMMA PublishImplements ==
  ASSUME StateInv, MonitorsAfterMount, NEW c \in Calls, HandlerStep(c) \/ HandlerFails(c),
         call[c].op = "publish", call[c].path \in Targets
  PROVE  Lifecycle!Next \/ UNCHANGED Lifecycle!vars
<1> DEFINE p == call[c].path
<1>a. /\ call \in [Calls -> CallRecord] /\ heap \in [States -> VolumeState]
      /\ store \in [Paths -> 0..MaxStates] /\ mnt \in [Paths -> Devices]
      /\ registry \in [Paths -> Collectors] /\ p \in Paths
  BY DEF StateInv, TypeOK, Paths
<1>b. \A t \in Targets : t # p => Same(t) BY OthersSame
<1>c. UNCHANGED heap => (p \in MonitoredTargets' <=> p \in MonitoredTargets)
  BY DEF MonitoredTargets, Running
<1>d. ASSUME Same(p) PROVE UNCHANGED Lifecycle!vars BY <1>b, <1>d, AllSame
<1>e. /\ MountedTargets' = IF mnt'[p] # NotMounted
                           THEN MountedTargets \cup {p} ELSE MountedTargets \ {p}
      /\ KnownTargets' = IF store'[p] # 0 THEN KnownTargets \cup {p} ELSE KnownTargets \ {p}
      /\ MonitoredTargets' = IF p \in MonitoredTargets'
                             THEN MonitoredTargets \cup {p} ELSE MonitoredTargets \ {p}
      /\ CollectedTargets' = IF registry'[p] # NoCollector
                             THEN CollectedTargets \cup {p} ELSE CollectedTargets \ {p}
  BY <1>b, OnlyOwnTarget
<1>f. /\ p \in MountedTargets <=> mnt[p] # NotMounted
      /\ p \in KnownTargets <=> store[p] # 0
      /\ p \in MonitoredTargets <=> \E v \in States : Running(v) /\ heap[v].path = p
      /\ p \in CollectedTargets <=> registry[p] # NoCollector
  BY OfTarget
<1>g. /\ mnt'[p] = mnt[p] => MountedTargets' = MountedTargets
      /\ store'[p] = store[p] => KnownTargets' = KnownTargets
      /\ (p \in MonitoredTargets' <=> p \in MonitoredTargets)
           => MonitoredTargets' = MonitoredTargets
      /\ registry'[p] = registry[p] => CollectedTargets' = CollectedTargets
  BY <1>e, <1>f
<1>1. CASE PublishLoadState(c)
  <2>1. CASE UNCHANGED <<store, heap>>
    BY <1>1, <1>c, <1>d, <2>1 DEF PublishLoadState, disk, Same
  <2>2. ASSUME NEW v \in States, Allocates(v), store[p] = 0,
               heap' = [heap EXCEPT ![v] = NewVolumeState(p, 0)],
               store' = [store EXCEPT ![p] = v]
        PROVE  Lifecycle!Learn(p)
    <3>1. store'[p] # 0 BY <1>a, <2>2 DEF States
    <3>2. \A w \in States : Running(w)' <=> Running(w)
      BY <1>a, <2>2 DEF Running, NewVolumeState, Allocates, FreeStates
    <3>3. \A w \in States : w # v => heap'[w] = heap[w] BY <1>a, <2>2
    <3>4. ~Running(v) BY <2>2 DEF Allocates, FreeStates
    <3>5. p \in MonitoredTargets' <=> p \in MonitoredTargets
      BY <3>2, <3>3, <3>4 DEF MonitoredTargets
    <3>6. mnt' = mnt /\ registry' = registry BY <1>1 DEF PublishLoadState, disk
    <3> QED BY <1>e, <1>f, <1>g, <2>2, <3>1, <3>5, <3>6 DEF Lifecycle!Learn
  <2> QED BY <1>1, <2>1, <2>2 DEF PublishLoadState, Lifecycle!Next
<1>2. CASE PublishCheckAccess(c)
  <2>1. \A w \in States : heap'[w].path = heap[w].path /\ (Running(w)' <=> Running(w))
    BY <1>a, <1>2 DEF PublishCheckAccess, VolumeState, Running
  <2>2. p \in MonitoredTargets' <=> p \in MonitoredTargets BY <2>1 DEF MonitoredTargets
  <2> QED BY <1>2, <1>d, <2>2 DEF PublishCheckAccess, disk, Same
<1>3. CASE PublishRegisterMetrics(c)
  <2>1. /\ mnt' = mnt /\ store' = store
        /\ p \in MonitoredTargets' <=> p \in MonitoredTargets
    BY <1>3, <1>c DEF PublishRegisterMetrics, disk
  <2>2. MountedTargets' = MountedTargets /\ KnownTargets' = KnownTargets
        /\ MonitoredTargets' = MonitoredTargets
    BY <1>g, <2>1
  <2>3. CASE registry'[p] # NoCollector /\ registry[p] = NoCollector
    <3>1. Lifecycle!Collect(p) BY <1>e, <1>f, <2>2, <2>3 DEF Lifecycle!Collect
    <3> QED BY <3>1 DEF Lifecycle!Next
  <2>4. CASE registry'[p] = NoCollector /\ registry[p] # NoCollector
    <3>1. Lifecycle!StopCollecting(p) BY <1>e, <1>f, <2>2, <2>4 DEF Lifecycle!StopCollecting
    <3> QED BY <3>1 DEF Lifecycle!Next
  <2>5. CASE registry'[p] = NoCollector <=> registry[p] = NoCollector
    <3>1. CollectedTargets' = CollectedTargets BY <1>e, <1>f, <2>5
    <3> QED BY <2>2, <3>1 DEF Lifecycle!vars
  <2> QED BY <2>3, <2>4, <2>5
<1>4. CASE PublishCheckMounted(c)
  BY <1>4, <1>c, <1>d DEF PublishCheckMounted, memory, disk, Same
<1>5. CASE PublishNotNeeded(c) \/ PublishFails(c)
  BY <1>5, <1>c, <1>d DEF PublishNotNeeded, PublishFails, disk, Same
<1>6. CASE PublishMount(c)
  <2>1. mnt'[p] # NotMounted
    <3>1. PICK n \in Sessions : mnt' = [mnt EXCEPT ![p] = n] BY <1>6 DEF PublishMount
    <3> QED BY <1>a, <3>1 DEF Sessions, NotMounted
  <2>2. /\ store' = store /\ registry' = registry
        /\ p \in MonitoredTargets' <=> p \in MonitoredTargets
    BY <1>6, <1>c DEF PublishMount, memory
  <2>3. /\ KnownTargets' = KnownTargets /\ MonitoredTargets' = MonitoredTargets
        /\ CollectedTargets' = CollectedTargets /\ MountedTargets' = MountedTargets \cup {p}
    BY <1>e, <1>g, <2>1, <2>2
  <2>4. CASE p \in MountedTargets BY <2>3, <2>4 DEF Lifecycle!vars
  <2>5. CASE p \notin MountedTargets
    <3>1. Lifecycle!Mount(p) BY <2>3, <2>5 DEF Lifecycle!Mount
    <3> QED BY <3>1 DEF Lifecycle!Next
  <2> QED BY <2>4, <2>5
<1>7. CASE PublishStartMonitor(c)
  <2>1. mnt' = mnt /\ store' = store /\ registry' = registry
    BY <1>7 DEF PublishStartMonitor, disk
  <2>2. CASE call[c].vs = 0 BY <1>7, <1>c, <1>d, <2>1, <2>2 DEF PublishStartMonitor, Same
  <2>3. CASE call[c].vs # 0
    <3>1. store[p] # 0 BY <2>3 DEF StateInv, HandlersHoldOwnState
    <3>2. mnt[p] # NotMounted BY <1>7 DEF PublishStartMonitor, MonitorsAfterMount
    <3>3. StartMonitor(call[c].vs) BY <1>7, <2>3 DEF PublishStartMonitor
    <3>4. \A w \in States : heap'[w].path = heap[w].path /\ (Running(w) => Running(w)')
      BY <1>a, <3>3 DEF StartMonitor, VolumeState, Running
    <3>5. p \in MonitoredTargets => p \in MonitoredTargets' BY <3>4 DEF MonitoredTargets
    <3>6. CASE p \in MonitoredTargets'
      <4>1. Lifecycle!Monitor(p) BY <1>e, <1>f, <1>g, <2>1, <3>1, <3>2, <3>6 DEF Lifecycle!Monitor
      <4> QED BY <4>1 DEF Lifecycle!Next
    <3>7. CASE p \notin MonitoredTargets' BY <1>d, <2>1, <3>5, <3>7 DEF Same
    <3> QED BY <3>6, <3>7
  <2> QED BY <2>2, <2>3
<1> QED
  BY <1>1, <1>2, <1>3, <1>4, <1>5, <1>6, <1>7
  DEF HandlerStep, HandlerFails, At,
    UnpublishUnregister, UnpublishDeleteState, UnpublishUnmount, UnpublishCleanup, UnpublishFails,
    SharedGetPod, SharedCheckMounted, SharedBind, SharedLoadOrStore, SharedStartMonitor,
    SharedRegisterMetrics, SharedFails,
    StageCheck, StageMount, StageMountFails, StageFails, CleanupUnmount, CleanupRemoveDir,
    CleanupFails, UnstageLoad, UnstageUnregister, UnstageCancel, UnstageDelete

\* The steps of NodeUnpublishVolume on its own target, in the order of the
\* lifecycle: the collector, then the VolumeState with its monitor, then the mount.
LEMMA UnpublishImplements ==
  ASSUME StateInv, UnpublishProgress, NEW c \in Calls, HandlerStep(c) \/ HandlerFails(c),
         call[c].op = "unpublish", call[c].path \in Targets
  PROVE  Lifecycle!Next \/ UNCHANGED Lifecycle!vars
<1> DEFINE p == call[c].path
<1>a. /\ call \in [Calls -> CallRecord] /\ heap \in [States -> VolumeState]
      /\ store \in [Paths -> 0..MaxStates] /\ mnt \in [Paths -> Devices]
      /\ registry \in [Paths -> Collectors] /\ p \in Paths
  BY DEF StateInv, TypeOK, Paths
<1>b. \A t \in Targets : t # p => Same(t) BY OthersSame
<1>c. UNCHANGED heap => (p \in MonitoredTargets' <=> p \in MonitoredTargets)
  BY DEF MonitoredTargets, Running
<1>d. ASSUME Same(p) PROVE UNCHANGED Lifecycle!vars BY <1>b, <1>d, AllSame
<1>e. /\ MountedTargets' = IF mnt'[p] # NotMounted
                           THEN MountedTargets \cup {p} ELSE MountedTargets \ {p}
      /\ KnownTargets' = IF store'[p] # 0 THEN KnownTargets \cup {p} ELSE KnownTargets \ {p}
      /\ MonitoredTargets' = IF p \in MonitoredTargets'
                             THEN MonitoredTargets \cup {p} ELSE MonitoredTargets \ {p}
      /\ CollectedTargets' = IF registry'[p] # NoCollector
                             THEN CollectedTargets \cup {p} ELSE CollectedTargets \ {p}
  BY <1>b, OnlyOwnTarget
<1>f. /\ p \in MountedTargets <=> mnt[p] # NotMounted
      /\ p \in KnownTargets <=> store[p] # 0
      /\ p \in MonitoredTargets <=> \E v \in States : Running(v) /\ heap[v].path = p
      /\ p \in CollectedTargets <=> registry[p] # NoCollector
  BY OfTarget
<1>1. CASE UnpublishUnregister(c)
  <2>1. /\ mnt' = mnt /\ store' = store
        /\ p \in MonitoredTargets' <=> p \in MonitoredTargets
    BY <1>1, <1>c DEF UnpublishUnregister, disk
  <2>2. registry'[p] = NoCollector
    BY <1>1, <1>a DEF UnpublishUnregister, UnregisterMetricsCollector
  <2>3. CASE p \in CollectedTargets
    <3>1. Lifecycle!StopCollecting(p)
      BY <1>e, <1>f, <2>1, <2>2, <2>3 DEF Lifecycle!StopCollecting
    <3> QED BY <3>1 DEF Lifecycle!Next
  <2>4. CASE p \notin CollectedTargets BY <1>d, <1>f, <2>1, <2>2, <2>4 DEF Same
  <2> QED BY <2>3, <2>4
<1>2. CASE UnpublishDeleteState(c)
  <2>1. mnt' = mnt /\ registry' = registry BY <1>2 DEF UnpublishDeleteState, disk
  <2>2. CASE store[p] = 0
    BY <1>2, <1>c, <1>d, <2>1, <2>2 DEF UnpublishDeleteState, Same
  <2>3. CASE store[p] # 0
    <3>1. CancelMonitor(store[p]) /\ store' = [store EXCEPT ![p] = 0]
      BY <1>2, <2>3 DEF UnpublishDeleteState
    <3>2. store'[p] = 0 BY <1>a, <3>1
    <3>3. \A v \in States :
            heap'[v].path = heap[v].path /\ (Running(v)' => Running(v) /\ v # store[p])
      BY <1>a, <3>1 DEF CancelMonitor, VolumeState, Running
    <3>4. \A v \in States : Running(v) /\ heap[v].path = p => v = store[p]
      BY DEF StateInv, TargetMonitorsStoppable
    <3>5. p \notin MonitoredTargets' BY <3>3, <3>4 DEF MonitoredTargets
    <3>6. registry[p] = NoCollector BY <1>2 DEF UnpublishDeleteState, At, UnpublishProgress
    <3>7. Lifecycle!Forget(p)
      BY <1>e, <1>f, <2>1, <2>3, <3>2, <3>5, <3>6 DEF Lifecycle!Forget
    <3> QED BY <3>7 DEF Lifecycle!Next
  <2> QED BY <2>2, <2>3
<1>3. CASE UnpublishUnmount(c)
  <2>1. /\ store' = store /\ registry' = registry
        /\ p \in MonitoredTargets' <=> p \in MonitoredTargets
    BY <1>3, <1>c DEF UnpublishUnmount, memory
  <2>2. mnt'[p] = NotMounted BY <1>3, <1>a DEF UnpublishUnmount
  <2>3. CASE p \in MountedTargets
    <3>1. p \notin KnownTargets /\ p \notin MonitoredTargets /\ p \notin CollectedTargets
      BY <1>3, <1>f DEF UnpublishUnmount, At, UnpublishProgress
    <3>2. Lifecycle!Unmount(p)
      BY <1>e, <1>f, <2>1, <2>2, <2>3, <3>1 DEF Lifecycle!Unmount
    <3> QED BY <3>2 DEF Lifecycle!Next
  <2>4. CASE p \notin MountedTargets BY <1>d, <1>f, <2>1, <2>2, <2>4 DEF Same
  <2> QED BY <2>3, <2>4
<1>4. CASE UnpublishCleanup(c) \/ UnpublishFails(c)
  BY <1>4, <1>c, <1>d DEF UnpublishCleanup, UnpublishFails, disk, Same
<1> QED
  BY <1>1, <1>2, <1>3, <1>4
  DEF HandlerStep, HandlerFails, At,
    PublishLoadState, PublishCheckAccess, PublishRegisterMetrics, PublishCheckMounted,
    PublishNotNeeded, PublishMount, PublishStartMonitor, PublishFails,
    SharedGetPod, SharedCheckMounted, SharedBind, SharedLoadOrStore, SharedStartMonitor,
    SharedRegisterMetrics, SharedFails,
    StageCheck, StageMount, StageMountFails, StageFails, CleanupUnmount, CleanupRemoveDir,
    CleanupFails, UnstageLoad, UnstageUnregister, UnstageCancel, UnstageDelete

-----------------------------------------------------------------------------

\* A publish that is about to start its monitor finds its target mounted after
\* every step: it came from the mount or from the check of the mount list, and
\* the handlers of other paths mount and unmount other paths.
LEMMA MonitorsAfterMountStep ==
  ASSUME StateInv, MonitorsAfterMount, Next
  PROVE  MonitorsAfterMount'
<1>a. call \in [Calls -> CallRecord] /\ mnt \in [Paths -> Devices]
  BY DEF StateInv, TypeOK
<1> SUFFICES ASSUME NEW d \in Calls, call'[d].op = "publish", call'[d].pc = "monitor"
             PROVE  mnt'[call'[d].path] # NotMounted
  BY DEF MonitorsAfterMount, At
<1>b. ASSUME call'[d] = call[d], mnt'[call[d].path] = mnt[call[d].path]
      PROVE  mnt'[call'[d].path] # NotMounted
  BY <1>b DEF MonitorsAfterMount, At
<1>1. ASSUME NEW c \in Calls, Requests(c) PROVE mnt'[call'[d].path] # NotMounted
  <2>1. PICK op, q : StartOf(c, op, q) BY <1>1, RequestShape DEF StateInv
  <2>2. d # c BY <2>1 DEF StartOf
  <2> QED BY <1>b, <2>1, <2>2 DEF StartOf
<1>2. ASSUME NEW c \in Calls, HandlerStep(c) \/ HandlerFails(c), c # d
      PROVE  mnt'[call'[d].path] # NotMounted
  <2>1. StepsOf(c) BY <1>2, HandlerShape DEF StateInv
  <2>2. call'[d] = call[d] /\ InHandler(c) /\ InHandler(d)
    BY <1>2, <2>1 DEF StepsOf, InHandler
  <2>3. call[d].path # call[c].path BY <1>2, <2>2 DEF StateInv, LocksExclusive
  <2>4. call[d].path \in Targets BY <2>2 DEF StateInv, OpsOnTheirPaths
  <2> QED BY <1>2, <1>b, <2>2, <2>3, <2>4, OthersUntouched DEF Untouched
<1>3. ASSUME HandlerStep(d) \/ HandlerFails(d) PROVE mnt'[call'[d].path] # NotMounted
  <2>1. StepsOf(d) BY <1>3, HandlerShape DEF StateInv
  <2>2. call[d].op = "publish" /\ call'[d].path = call[d].path /\ call[d].path \in Paths
    BY <2>1 DEF StepsOf, StateInv, OpsOnTheirPaths, Paths
  <2>3. PublishCheckMounted(d) \/ PublishMount(d)
    <3>1. ~(PublishNotNeeded(d) \/ PublishStartMonitor(d) \/ PublishFails(d))
      BY <1>a DEF PublishNotNeeded, PublishStartMonitor, PublishFails, Return, CallRecord
    <3>2. ~(PublishLoadState(d) \/ PublishCheckAccess(d) \/ PublishRegisterMetrics(d))
      BY <1>a DEF PublishLoadState, PublishCheckAccess, PublishRegisterMetrics, Goto, CallRecord
    <3> QED BY <1>3, <2>2, <3>1, <3>2 DEF HandlerStep, HandlerFails, At,
      UnpublishUnregister, UnpublishDeleteState, UnpublishUnmount, UnpublishCleanup,
      UnpublishFails, SharedGetPod, SharedCheckMounted, SharedBind, SharedLoadOrStore,
      SharedStartMonitor, SharedRegisterMetrics, SharedFails,
      StageCheck, StageMount, StageMountFails, StageFails, CleanupUnmount, CleanupRemoveDir,
      CleanupFails, UnstageLoad, UnstageUnregister, UnstageCancel, UnstageDelete
  <2>4. CASE PublishCheckMounted(d)
    <3>1. mnt[call[d].path] # NotMounted
      BY <1>a, <2>4 DEF PublishCheckMounted, Goto, CallRecord
    <3> QED BY <2>2, <2>4, <3>1 DEF PublishCheckMounted, disk
  <2>5. CASE PublishMount(d)
    <3>1. PICK n \in Sessions : mnt' = [mnt EXCEPT ![call[d].path] = n]
      BY <2>5 DEF PublishMount
    <3> QED BY <1>a, <2>2, <3>1 DEF Sessions, NotMounted
  <2> QED BY <2>3, <2>4, <2>5
<1>4. ASSUME NEW c \in Calls, Reply(c) PROVE mnt'[call'[d].path] # NotMounted
  <2>1. d # c BY <1>a, <1>4 DEF Reply, Idle
  <2> QED BY <1>a, <1>4, <1>b, <2>1 DEF Reply, disk
<1>5. ~DriverRestart BY DEF DriverRestart, Idle
<1>6. ASSUME Environment PROVE mnt'[call'[d].path] # NotMounted
  <2>1. ASSUME NEW v \in States, MonitorResolves(v) \/ MonitorStops(v)
        PROVE  mnt'[call'[d].path] # NotMounted
    BY <1>b, <2>1 DEF MonitorResolves, MonitorStops, disk
  <2>2. ASSUME NEW s \in StagingPaths,
               MounterPodStarts(s) \/ MounterPodDies(s) \/ PodListerSyncs(s)
        PROVE  mnt'[call'[d].path] # NotMounted
    <3>1. call' = call BY <1>a, <2>2, PodStep
    <3>2. call[d].path \in Targets BY <3>1 DEF StateInv, OpsOnTheirPaths, InHandler
    <3> QED BY <1>a, <1>b, <2>2, <3>1, <3>2, PodStep
  <2> QED BY <1>5, <1>6, <2>1, <2>2 DEF Environment
<1> QED BY <1>1, <1>2, <1>3, <1>4, <1>6 DEF Next

\* Every step of the node server is a step of the lifecycle or changes nothing of it.
LEMMA StepImplements ==
  ASSUME StateInv, UnpublishProgress, MonitorsAfterMount, Next
  PROVE  Lifecycle!Next \/ UNCHANGED Lifecycle!vars
<1>a. /\ heap \in [States -> VolumeState] /\ \A t \in Targets : t \in Paths
  BY DEF StateInv, TypeOK, Paths
<1>b. ASSUME UNCHANGED <<mnt, store, registry, heap>> PROVE UNCHANGED Lifecycle!vars
  BY <1>b DEF Lifecycle!vars, MountedTargets, KnownTargets, MonitoredTargets,
     CollectedTargets, Running
<1>1. ASSUME NEW c \in Calls, Requests(c) PROVE UNCHANGED Lifecycle!vars
  BY <1>1, <1>b, RequestShape DEF StateInv, StartOf
<1>2. ASSUME NEW c \in Calls, Reply(c) PROVE UNCHANGED Lifecycle!vars
  BY <1>2, <1>b DEF Reply, memory, disk
<1>3. ASSUME NEW c \in Calls, HandlerStep(c) \/ HandlerFails(c)
      PROVE  Lifecycle!Next \/ UNCHANGED Lifecycle!vars
  <2>1. CASE call[c].path \notin Targets
    <3>1. \A t \in Targets : Same(t) BY <1>3, <2>1, OthersSame
    <3> QED BY <3>1, AllSame
  <2>2. CASE call[c].path \in Targets
    <3>1. InHandler(c) BY <1>3, HandlerShape DEF StateInv, StepsOf
    <3>2. call[c].op = "publish" \/ call[c].op = "unpublish"
      BY <2>2, <3>1, ConstantsAssumption DEF StateInv, OpsOnTheirPaths
    <3> QED BY <1>3, <2>2, <3>2, PublishImplements, UnpublishImplements
  <2> QED BY <2>1, <2>2
<1>4. ASSUME NEW v \in States, MonitorResolves(v) PROVE UNCHANGED Lifecycle!vars
  <2>1. \A w \in States : heap'[w].path = heap[w].path /\ (Running(w)' <=> Running(w))
    BY <1>a, <1>4 DEF MonitorResolves, VolumeState, Running
  <2>2. MonitoredTargets' = MonitoredTargets BY <2>1 DEF MonitoredTargets
  <2> QED BY <1>4, <2>2 DEF MonitorResolves, disk, Lifecycle!vars, MountedTargets,
        KnownTargets, CollectedTargets
<1>5. ASSUME NEW v \in States, MonitorStops(v)
      PROVE  Lifecycle!Next \/ UNCHANGED Lifecycle!vars
  <2>1. /\ \A w \in States : heap'[w].path = heap[w].path
        /\ \A w \in States : Running(w)' <=> Running(w) /\ w # v
    BY <1>a, <1>5 DEF MonitorStops, VolumeState, Running
  <2>2. /\ MountedTargets' = MountedTargets /\ KnownTargets' = KnownTargets
        /\ CollectedTargets' = CollectedTargets
    BY <1>5 DEF MonitorStops, disk, MountedTargets, KnownTargets, CollectedTargets
  <2>3. CASE heap[v].path \notin Targets
    <3>1. MonitoredTargets' = MonitoredTargets BY <2>1, <2>3 DEF MonitoredTargets
    <3> QED BY <2>2, <3>1 DEF Lifecycle!vars
  <2>4. CASE heap[v].path \in Targets
    <3>1. Running(v) BY <1>5 DEF MonitorStops
    <3>2. \A w \in States : Running(w) /\ heap[w].path = heap[v].path => w = v
      BY <2>4, <3>1 DEF StateInv, TargetMonitorsStoppable
    <3>3. /\ heap[v].path \in MonitoredTargets
          /\ MonitoredTargets' = MonitoredTargets \ {heap[v].path}
      BY <2>1, <2>4, <3>1, <3>2 DEF MonitoredTargets
    <3>4. Lifecycle!MonitorEnds(heap[v].path) BY <2>2, <3>3 DEF Lifecycle!MonitorEnds
    <3> QED BY <2>4, <3>4 DEF Lifecycle!Next
  <2> QED BY <2>3, <2>4
<1>6. ASSUME NEW s \in StagingPaths, MounterPodStarts(s) \/ MounterPodDies(s) \/ PodListerSyncs(s)
      PROVE  UNCHANGED Lifecycle!vars
  <2>1. mnt \in [Paths -> Devices] BY DEF StateInv, TypeOK
  <2>2. /\ UNCHANGED <<call, memory>>
        /\ \A t \in Targets : mnt'[t] = mnt[t]
    BY <1>6, <2>1, PodStep
  <2>3. MonitoredTargets' = MonitoredTargets BY <2>2 DEF memory, MonitoredTargets, Running
  <2>4. \A t \in Targets : Same(t) BY <2>2, <2>3 DEF Same, memory
  <2> QED BY <2>4, AllSame
<1>7. CASE DriverRestart
  <2>1. MountedTargets' = MountedTargets BY <1>7 DEF DriverRestart, disk, MountedTargets
  <2>2. KnownTargets' = {} BY <1>7, <1>a DEF DriverRestart, KnownTargets
  <2>3. MonitoredTargets' = {}
    BY <1>7 DEF DriverRestart, MonitoredTargets, Running, NewVolumeState
  <2>4. CollectedTargets' = {} BY <1>7, <1>a DEF DriverRestart, CollectedTargets
  <2>5. Lifecycle!Restart BY <2>1, <2>2, <2>3, <2>4 DEF Lifecycle!Restart
  <2> QED BY <2>5 DEF Lifecycle!Next
<1> QED BY <1>1, <1>2, <1>3, <1>4, <1>5, <1>6, <1>7 DEF Next, Environment

\* The handlers of node.go, the monitors and the restarts of the driver, however
\* they interleave, implement the lifecycle of a sidecar-mode volume.
THEOREM LifecycleImplemented == Spec => ImplementsLifecycle
<1>1. Init => UnpublishProgress /\ MonitorsAfterMount
  BY DEF Init, Idle, UnpublishProgress, MonitorsAfterMount, At
<1>2. StateInv /\ UnpublishProgress /\ MonitorsAfterMount /\ [Next]_vars
        => UnpublishProgress' /\ MonitorsAfterMount'
  <2>1. UnpublishProgress /\ MonitorsAfterMount /\ UNCHANGED vars
          => UnpublishProgress' /\ MonitorsAfterMount'
    BY DEF UnpublishProgress, MonitorsAfterMount, At, vars, server, memory, disk, Running
  <2> QED BY <2>1, UnpublishStep, MonitorsAfterMountStep
<1>3. Init => Lifecycle!Init
  <2>1. \A t \in Targets : t \in Paths BY DEF Paths
  <2> QED BY <2>1 DEF Init, Lifecycle!Init, MountedTargets, KnownTargets, MonitoredTargets,
        CollectedTargets, Running, NewVolumeState
<1>4. StateInv /\ UnpublishProgress /\ MonitorsAfterMount /\ [Next]_vars
        => [Lifecycle!Next]_Lifecycle!vars
  <2>1. UNCHANGED vars => UNCHANGED Lifecycle!vars
    BY DEF vars, server, memory, disk, Lifecycle!vars, MountedTargets, KnownTargets,
       MonitoredTargets, CollectedTargets, Running
  <2> QED BY <2>1, StepImplements
<1> QED
  BY <1>1, <1>2, <1>3, <1>4, StateInvariant, PTL DEF Spec, ImplementsLifecycle, Lifecycle!Spec
=============================================================================
