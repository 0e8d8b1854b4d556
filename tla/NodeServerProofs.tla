-------------------------- MODULE NodeServerProofs --------------------------
(***************************************************************************)
(* Proofs about the node server, for any number of concurrent calls,       *)
(* paths, VolumeState objects, sessions, Pods and restarts.                *)
(***************************************************************************)
EXTENDS NodeServer, TLAPS, FiniteSetTheorems

(***************************************************************************)
(* The inductive invariant.                                                *)
(***************************************************************************)

\* A handler works on a path of the kind its operation is for.
OpsOnTheirPaths ==
  \A c \in Calls : InHandler(c) =>
    \/ call[c].op = "publish" /\ call[c].path \in Targets
    \/ call[c].op = "publishShared" /\ call[c].path \in SharedTargets
    \/ call[c].op = "unpublish" /\ call[c].path \in Targets \cup SharedTargets
    \/ call[c].op \in {"stage", "unstage"} /\ call[c].path \in StagingPaths

\* The store keeps a VolumeState under its own path.
StoredUnderOwnPath == \A p \in Paths : store[p] # 0 => heap[store[p]].path = p

\* The VolumeState in the hands of a handler: a publish holds the one that is
\* in the store, a shared publish one of its staging path, an unstage one of
\* its own path.
HandlersHoldOwnState ==
  \A c \in Calls : call[c].vs # 0 =>
    /\ InHandler(c)
    /\ \/ /\ call[c].op = "publish"
          /\ heap[call[c].vs].path = call[c].path /\ store[call[c].path] = call[c].vs
       \/ call[c].op = "publishShared" /\ heap[call[c].vs].path = Staging(c)
       \/ call[c].op = "unstage" /\ heap[call[c].vs].path = call[c].path

\* Monitors belong to sidecar targets and to staging paths.
MonitorsHavePaths ==
  \A v \in States : heap[v].mon # "none" => heap[v].path \in Targets \cup StagingPaths

StateInv ==
  /\ TypeOK /\ OpsOnTheirPaths /\ LocksExclusive
  /\ StoredUnderOwnPath /\ HandlersHoldOwnState /\ MonitorsHavePaths
  /\ TargetMonitorsStoppable

-----------------------------------------------------------------------------
(***************************************************************************)
(* Lemmas about the building blocks.                                       *)
(***************************************************************************)

\* A step of a handler changes only its own call, keeps its operation and path,
\* and either goes on with its lock or returns and releases it.
StepsOf(c) ==
  /\ InHandler(c)
  /\ \A d \in Calls : d # c => call'[d] = call[d]
  /\ call'[c].op = call[c].op /\ call'[c].path = call[c].path
  /\ \/ call'[c].pc \notin {"idle", "done"} /\ locks' = locks
     \/ /\ call'[c].pc = "done" /\ call'[c].vs = 0
        /\ locks' = locks \ {call[c].path}

\* Every step of a handler, a failing one included, has that shape: no early
\* return of node.go forgets the deferred VolumeLocks.Release.
LEMMA HandlerShape ==
  ASSUME TypeOK, NEW c \in Calls, HandlerStep(c) \/ HandlerFails(c)
  PROVE  StepsOf(c)
<1> USE DEF TypeOK, CallRecord, Steps, StepsOf, InHandler, At, Goto, Return, memory
<1>1. CASE PublishLoadState(c) BY <1>1 DEF PublishLoadState
<1>2. CASE PublishCheckAccess(c) BY <1>2 DEF PublishCheckAccess
<1>3. CASE PublishRegisterMetrics(c) BY <1>3 DEF PublishRegisterMetrics
<1>4. CASE PublishCheckMounted(c) BY <1>4 DEF PublishCheckMounted
<1>5. CASE PublishNotNeeded(c) BY <1>5 DEF PublishNotNeeded
<1>6. CASE PublishMount(c) BY <1>6 DEF PublishMount
<1>7. CASE PublishStartMonitor(c) BY <1>7 DEF PublishStartMonitor
<1>8. CASE UnpublishUnregister(c) BY <1>8 DEF UnpublishUnregister
<1>9. CASE UnpublishDeleteState(c) BY <1>9 DEF UnpublishDeleteState
<1>10. CASE UnpublishUnmount(c) BY <1>10 DEF UnpublishUnmount
<1>11. CASE UnpublishCleanup(c) BY <1>11 DEF UnpublishCleanup
<1>12. CASE SharedGetPod(c) BY <1>12 DEF SharedGetPod
<1>13. CASE SharedCheckMounted(c) BY <1>13 DEF SharedCheckMounted
<1>14. CASE SharedBind(c) BY <1>14 DEF SharedBind
<1>15. CASE SharedLoadOrStore(c) BY <1>15 DEF SharedLoadOrStore
<1>16. CASE SharedStartMonitor(c) BY <1>16 DEF SharedStartMonitor
<1>17. CASE SharedRegisterMetrics(c) BY <1>17 DEF SharedRegisterMetrics
<1>18. CASE StageCheck(c) BY <1>18 DEF StageCheck
<1>19. CASE StageMount(c) BY <1>19 DEF StageMount
<1>20. CASE CleanupUnmount(c) BY <1>20 DEF CleanupUnmount
<1>21. CASE CleanupRemoveDir(c) BY <1>21 DEF CleanupRemoveDir
<1>22. CASE UnstageLoad(c) BY <1>22 DEF UnstageLoad
<1>23. CASE UnstageUnregister(c) BY <1>23 DEF UnstageUnregister
<1>24. CASE UnstageCancel(c) BY <1>24 DEF UnstageCancel
<1>25. CASE UnstageDelete(c) BY <1>25 DEF UnstageDelete
<1>26. CASE PublishFails(c) BY <1>26 DEF PublishFails
<1>27. CASE UnpublishFails(c) BY <1>27 DEF UnpublishFails
<1>28. CASE SharedFails(c) BY <1>28 DEF SharedFails
<1>29. CASE StageFails(c) BY <1>29 DEF StageFails
<1>30. CASE StageMountFails(c) BY <1>30 DEF StageMountFails
<1>31. CASE CleanupFails(c) BY <1>31 DEF CleanupFails
<1> QED
  BY <1>1, <1>2, <1>3, <1>4, <1>5, <1>6, <1>7, <1>8, <1>9, <1>10, <1>11, <1>12,
     <1>13, <1>14, <1>15, <1>16, <1>17, <1>18, <1>19, <1>20, <1>21, <1>22, <1>23,
     <1>24, <1>25, <1>26, <1>27, <1>28, <1>29, <1>30, <1>31
  DEF HandlerStep, HandlerFails

\* A request takes a free lock and starts its handler, or is answered with
\* Aborted at once and leaves the locks alone.
StartOf(c, op, p) ==
  /\ call[c].pc = "idle"
  /\ \A d \in Calls : d # c => call'[d] = call[d]
  /\ call'[c].op = op /\ call'[c].path = p /\ call'[c].vs = 0
  /\ \/ /\ p \notin locks /\ locks' = locks \cup {p}
        /\ call'[c].pc \in {"state", "check", "unregister", "load"}
     \/ p \in locks /\ locks' = locks /\ call'[c].pc = "done"
  /\ UNCHANGED <<store, size, heap, registry, mnt, dirs, pod, npods, seen, restarts>>

\* Every request of the five node RPCs starts that way.
LEMMA RequestShape ==
  ASSUME TypeOK, NEW c \in Calls, Requests(c)
  PROVE  \/ \E t \in Targets : StartOf(c, "publish", t)
         \/ \E t \in SharedTargets : StartOf(c, "publishShared", t)
         \/ \E t \in Targets \cup SharedTargets : StartOf(c, "unpublish", t)
         \/ \E s \in StagingPaths : StartOf(c, "stage", s) \/ StartOf(c, "unstage", s)
<1>1. ASSUME NEW op, NEW p, NEW first \in {"state", "check", "unregister", "load"},
             Begin(c, op, p, first)
      PROVE  StartOf(c, op, p)
  <2>1. /\ call[c].pc = "idle" /\ call \in [Calls -> CallRecord]
        /\ UNCHANGED <<store, size, heap, registry, mnt, dirs, pod, npods, seen, restarts>>
    BY <1>1 DEF Begin, TypeOK, disk, pods
  <2>2. CASE /\ p \notin locks /\ locks' = locks \cup {p}
             /\ call' = [call EXCEPT ![c] = [Idle EXCEPT !.op = op, !.path = p, !.pc = first]]
    BY <2>1, <2>2 DEF StartOf, Idle
  <2>3. CASE /\ p \in locks /\ locks' = locks
             /\ call' = [call EXCEPT ![c] = [Idle EXCEPT !.op = op, !.path = p, !.pc = "done",
                                                         !.code = "Aborted"]]
    BY <2>1, <2>3 DEF StartOf, Idle
  <2> QED BY <1>1, <2>2, <2>3 DEF Begin
<1> QED
  BY <1>1 DEF Requests, NodePublishVolume, NodePublishVolumeForSharedMount,
              NodeUnpublishVolume, NodeStageVolume, NodeUnstageVolume

\* The lock discipline is inductive: every step keeps operations on their kind
\* of path and the lock table equal to the paths of the running handlers.
LEMMA LockingStep ==
  ASSUME TypeOK, OpsOnTheirPaths, LocksExclusive, Next
  PROVE  OpsOnTheirPaths' /\ LocksExclusive'
<1>0. \A p : p \in locks <=> \E c \in Calls : InHandler(c) /\ call[c].path = p
  BY DEF LocksExclusive
<1>1. ASSUME NEW c \in Calls, Requests(c) PROVE OpsOnTheirPaths' /\ LocksExclusive'
  <2>1. PICK op \in {"publish", "publishShared", "unpublish", "stage", "unstage"}, p \in Paths :
          /\ StartOf(c, op, p)
          /\ \/ op = "publish" /\ p \in Targets
             \/ op = "publishShared" /\ p \in SharedTargets
             \/ op = "unpublish" /\ p \in Targets \cup SharedTargets
             \/ op \in {"stage", "unstage"} /\ p \in StagingPaths
    BY <1>1, RequestShape DEF Paths
  <2>2. OpsOnTheirPaths' BY <2>1 DEF OpsOnTheirPaths, StartOf, InHandler
  <2>3. ASSUME NEW d \in Calls, NEW e \in Calls, InHandler(d)', InHandler(e)',
               call'[d].path = call'[e].path
        PROVE  d = e
    BY <1>0, <2>1, <2>3 DEF LocksExclusive, StartOf, InHandler
  <2>4. \A q : q \in locks' <=> \E d \in Calls : InHandler(d)' /\ call'[d].path = q
    BY <1>0, <2>1 DEF StartOf, InHandler
  <2> QED BY <2>2, <2>3, <2>4 DEF LocksExclusive
<1>2. ASSUME NEW c \in Calls, HandlerStep(c) \/ HandlerFails(c)
      PROVE  OpsOnTheirPaths' /\ LocksExclusive'
  <2>1. StepsOf(c) BY <1>2, HandlerShape
  <2>2. OpsOnTheirPaths' BY <2>1 DEF OpsOnTheirPaths, StepsOf, InHandler
  <2>3. ASSUME NEW d \in Calls, NEW e \in Calls, InHandler(d)', InHandler(e)',
               call'[d].path = call'[e].path
        PROVE  d = e
    BY <2>1, <2>3 DEF LocksExclusive, StepsOf, InHandler
  <2>4. \A q : q \in locks' <=> \E d \in Calls : InHandler(d)' /\ call'[d].path = q
    BY <1>0, <2>1 DEF LocksExclusive, StepsOf, InHandler
  <2> QED BY <2>2, <2>3, <2>4 DEF LocksExclusive
<1>3. ASSUME NEW c \in Calls, Reply(c) PROVE OpsOnTheirPaths' /\ LocksExclusive'
  <2>1. /\ ~InHandler(c) /\ ~InHandler(c)' /\ locks' = locks
        /\ \A d \in Calls : d # c => call'[d] = call[d]
    BY <1>3 DEF Reply, Idle, InHandler, TypeOK, memory
  <2>2. OpsOnTheirPaths' BY <2>1 DEF OpsOnTheirPaths, InHandler
  <2>3. ASSUME NEW d \in Calls, NEW e \in Calls, InHandler(d)', InHandler(e)',
               call'[d].path = call'[e].path
        PROVE  d = e
    BY <2>1, <2>3 DEF LocksExclusive, InHandler
  <2>4. \A q : q \in locks' <=> \E d \in Calls : InHandler(d)' /\ call'[d].path = q
    BY <1>0, <2>1 DEF InHandler
  <2> QED BY <2>2, <2>3, <2>4 DEF LocksExclusive
<1>4. ASSUME DriverRestart PROVE OpsOnTheirPaths' /\ LocksExclusive'
  <2>1. locks' = {} /\ \A c \in Calls : ~InHandler(c)'
    BY <1>4 DEF DriverRestart, Idle, InHandler
  <2> QED BY <2>1 DEF OpsOnTheirPaths, LocksExclusive
<1>5. CASE UNCHANGED <<call, locks>>
  BY <1>5 DEF OpsOnTheirPaths, LocksExclusive, InHandler
<1>6. Environment => DriverRestart \/ UNCHANGED <<call, locks>>
  BY DEF Environment, MonitorResolves, MonitorStops, MounterPodStarts, MounterPodDies,
         PodListerSyncs, memory
<1> QED BY <1>1, <1>2, <1>3, <1>4, <1>5, <1>6 DEF Next

\* Registering touches one path only and leaves there nothing, what was there,
\* or the new identity.
LEMMA RegisterEffect ==
  ASSUME registry \in [Paths -> Collectors], NEW p \in Paths, NEW id \in Collectors
  PROVE  /\ RegisterMetricsCollector(registry, MaxCollectors, p, id) \in [Paths -> Collectors]
         /\ \A q \in Paths : q # p =>
              RegisterMetricsCollector(registry, MaxCollectors, p, id)[q] = registry[q]
  BY DEF RegisterMetricsCollector, UnregisterMetricsCollector, Collectors

\* The coming and going of mounter Pods touches no memory, no call, and no mount
\* but those of staging paths.
LEMMA PodStep ==
  ASSUME mnt \in [Paths -> Devices], NEW s \in StagingPaths,
         MounterPodStarts(s) \/ MounterPodDies(s) \/ PodListerSyncs(s)
  PROVE  /\ mnt' \in [Paths -> Devices]
         /\ \A p \in Targets \cup SharedTargets : mnt'[p] = mnt[p]
         /\ UNCHANGED <<call, memory, dirs, restarts>>
<1>1. mnt' = mnt \/ mnt' = [mnt EXCEPT ![s] = NotMounted]
  BY DEF MounterPodStarts, MounterPodDies, PodListerSyncs, disk
<1>2. UNCHANGED <<call, memory, dirs, restarts>>
  BY DEF MounterPodStarts, MounterPodDies, PodListerSyncs, disk
<1>3. NotMounted \in Devices BY DEF Devices
<1>4. s \notin Targets \cup SharedTargets BY ConstantsAssumption
<1>5. \A p \in Targets \cup SharedTargets : p \in Paths /\ p # s BY <1>4 DEF Paths
<1> QED BY <1>1, <1>2, <1>3, <1>5

\* Types are preserved.  Only here it matters that a monitor belongs to a path:
\* it resolves the device that is mounted there.
LEMMA TypeStep ==
  ASSUME StateInv, Next
  PROVE  TypeOK'
<1>a. call \in [Calls -> CallRecord] BY DEF StateInv, TypeOK
<1>b. heap \in [States -> VolumeState] BY DEF StateInv, TypeOK
<1>c. /\ store \in [Paths -> 0..MaxStates] /\ size \in Int
      /\ \A p \in Paths : store[p] # 0 => store[p] \in States
  BY ConstantsAssumption DEF StateInv, TypeOK, States
<1>d. registry \in [Paths -> Collectors]
  BY DEF StateInv, TypeOK
<1>e. mnt \in [Paths -> Devices] BY DEF StateInv, TypeOK
<1>f. Idle \in CallRecord
  BY ConstantsAssumption DEF Idle, CallRecord, Operations, Steps
<1>g. \A v \in States : v \in 0..MaxStates BY DEF States
<1>h. 0 \in 0..MaxStates /\ 0 \in 0..MaxPods BY ConstantsAssumption
<1>i. /\ NotMounted \in Devices /\ BareBind \in Devices /\ \A n \in Sessions : n \in Devices
      /\ NoCollector \in Collectors
  BY DEF Devices, Collectors
<1>1. ASSUME NEW c \in Calls, Requests(c) PROVE TypeOK'
  <2>1. ASSUME NEW op \in Operations, NEW p \in Paths, NEW first \in Steps,
               Begin(c, op, p, first)
        PROVE  TypeOK'
    <3>1. [Idle EXCEPT !.op = op, !.path = p, !.pc = first] \in CallRecord
      BY <1>f DEF Idle, CallRecord
    <3>2. [Idle EXCEPT !.op = op, !.path = p, !.pc = "done", !.code = "Aborted"] \in CallRecord
      BY <1>f DEF Idle, CallRecord, Steps
    <3>3. call' \in [Calls -> CallRecord] /\ locks' \subseteq Paths
      BY <1>a, <2>1, <3>1, <3>2 DEF Begin, StateInv, TypeOK
    <3> QED BY <2>1, <3>3 DEF Begin, disk, pods, StateInv, TypeOK
  <2> QED
    BY <1>1, <2>1 DEF Requests, NodePublishVolume, NodePublishVolumeForSharedMount, Paths,
         NodeUnpublishVolume, NodeStageVolume, NodeUnstageVolume, Operations, Steps
<1>2. ASSUME NEW c \in Calls, HandlerStep(c) \/ HandlerFails(c) PROVE TypeOK'
  <2>a. ASSUME NEW pc \in Steps, Goto(c, pc) PROVE call' \in [Calls -> CallRecord]
    BY <1>a, <2>a DEF Goto, CallRecord
  <2>b. ASSUME NEW code \in {"OK", "Aborted", "Error"}, Return(c, code)
        PROVE  call' \in [Calls -> CallRecord] /\ locks' \subseteq Paths
    <3>1. "done" \in Steps BY DEF Steps
    <3>2. call' = [call EXCEPT ![c] = [@ EXCEPT !.pc = "done", !.code = code, !.vs = 0]]
      BY <1>a, <2>b DEF Return
    <3>3. [call[c] EXCEPT !.pc = "done", !.code = code, !.vs = 0] \in CallRecord
      BY <1>a, <1>h, <3>1 DEF CallRecord
    <3>4. call' \in [Calls -> CallRecord] BY <1>a, <3>2, <3>3
    <3> QED BY <2>b, <3>4 DEF Return, StateInv, TypeOK
  <2>c. /\ InHandler(c) => call[c].path \in Paths
        /\ call[c].op = "publishShared" /\ InHandler(c) =>
             Staging(c) \in StagingPaths /\ Staging(c) \in Paths
    BY ConstantsAssumption DEF StateInv, OpsOnTheirPaths, Staging, Paths
  <2>d. /\ call[c].uid \in 0..MaxPods
        /\ call[c].vs # 0 => call[c].vs \in States
    BY <1>a, ConstantsAssumption DEF CallRecord, States
  <2>1. CASE PublishLoadState(c)
    <3>1. call' \in [Calls -> CallRecord]
      BY <1>a, <1>c, <1>g, <2>1, <2>a, <2>c DEF PublishLoadState, Goto, At, InHandler, CallRecord, Steps
    <3>2. NewVolumeState(call[c].path, 0) \in VolumeState
      BY <1>h, <2>1, <2>c DEF PublishLoadState, At, InHandler, VolumeState, NewVolumeState, MonitorStates, Devices
    <3>3. heap' \in [States -> VolumeState]
      BY <1>b, <2>1, <3>2 DEF PublishLoadState
    <3>4. store' \in [Paths -> 0..MaxStates] /\ size' \in Int
      BY <1>c, <1>g, <2>1 DEF PublishLoadState
    <3> QED BY <2>1, <3>1, <3>2, <3>3, <3>4 DEF PublishLoadState, memory, disk, pods, StateInv, TypeOK
  <2>2. CASE PublishCheckAccess(c)
    <3>1. call' \in [Calls -> CallRecord]
      BY <2>2, <2>a DEF PublishCheckAccess, Steps
    <3>2. heap' \in [States -> VolumeState]
      BY <1>b, <2>2, <2>d DEF PublishCheckAccess, ChecksAccess, VolumeState
    <3> QED BY <2>2, <3>1, <3>2 DEF PublishCheckAccess, memory, disk, pods, StateInv, TypeOK
  <2>3. CASE PublishRegisterMetrics(c)
    <3>1. call' \in [Calls -> CallRecord]
      BY <2>3, <2>a DEF PublishRegisterMetrics, Steps
    <3>2. call[c].path \in Paths /\ <<0, call[c].path>> \in Collectors
      BY <1>h, <2>3, <2>c DEF PublishRegisterMetrics, At, InHandler, Collectors
    <3>3. registry' \in [Paths -> Collectors]
      BY <1>d, <2>3, <3>2, RegisterEffect DEF PublishRegisterMetrics
    <3> QED BY <2>3, <3>1, <3>2, <3>3 DEF PublishRegisterMetrics, memory, disk, pods, StateInv, TypeOK
  <2>4. CASE PublishCheckMounted(c)
    <3>1. call' \in [Calls -> CallRecord]
      BY <2>4, <2>a DEF PublishCheckMounted, Steps
    <3> QED BY <2>4, <3>1 DEF PublishCheckMounted, memory, disk, pods, StateInv, TypeOK
  <2>5. CASE PublishNotNeeded(c)
    <3>1. call' \in [Calls -> CallRecord] /\ locks' \subseteq Paths
      BY <2>5, <2>b DEF PublishNotNeeded
    <3> QED BY <2>5, <3>1 DEF PublishNotNeeded, memory, disk, pods, StateInv, TypeOK
  <2>6. CASE PublishMount(c)
    <3>1. call' \in [Calls -> CallRecord]
      BY <2>6, <2>a DEF PublishMount, Steps
    <3>2. mnt' \in [Paths -> Devices]
      BY <1>e, <1>i, <2>6 DEF PublishMount
    <3> QED BY <2>6, <3>1, <3>2 DEF PublishMount, memory, disk, pods, StateInv, TypeOK
  <2>7. CASE PublishStartMonitor(c)
    <3>1. call' \in [Calls -> CallRecord] /\ locks' \subseteq Paths
      BY <2>7, <2>b DEF PublishStartMonitor
    <3>2. heap' \in [States -> VolumeState]
      BY <1>b, <2>7, <2>d DEF PublishStartMonitor, StartMonitor, VolumeState, MonitorStates
    <3> QED BY <2>7, <3>1, <3>2 DEF PublishStartMonitor, memory, disk, pods, StateInv, TypeOK
  <2>8. CASE UnpublishUnregister(c)
    <3>1. call' \in [Calls -> CallRecord]
      BY <2>8, <2>a DEF UnpublishUnregister, Steps
    <3>2. registry' \in [Paths -> Collectors]
      BY <1>d, <1>i, <2>8 DEF UnpublishUnregister, UnregisterMetricsCollector
    <3> QED BY <2>8, <3>1, <3>2 DEF UnpublishUnregister, memory, disk, pods, StateInv, TypeOK
  <2>9. CASE UnpublishDeleteState(c)
    <3>1. call' \in [Calls -> CallRecord]
      BY <2>9, <2>a DEF UnpublishDeleteState, Steps
    <3>2. heap' \in [States -> VolumeState]
      BY <1>b, <1>c, <2>9, <2>c DEF UnpublishDeleteState, CancelMonitor, At, InHandler, VolumeState, MonitorStates
    <3>3. store' \in [Paths -> 0..MaxStates] /\ size' \in Int
      BY <1>c, <1>h, <2>9 DEF UnpublishDeleteState
    <3> QED BY <2>9, <3>1, <3>2, <3>3 DEF UnpublishDeleteState, memory, disk, pods, StateInv, TypeOK
  <2>10. CASE UnpublishUnmount(c)
    <3>1. call' \in [Calls -> CallRecord]
      BY <2>10, <2>a DEF UnpublishUnmount, Steps
    <3>2. mnt' \in [Paths -> Devices]
      BY <1>e, <1>i, <2>10 DEF UnpublishUnmount
    <3> QED BY <2>10, <3>1, <3>2 DEF UnpublishUnmount, memory, disk, pods, StateInv, TypeOK
  <2>11. CASE UnpublishCleanup(c)
    <3>1. call' \in [Calls -> CallRecord] /\ locks' \subseteq Paths
      BY <2>11, <2>b DEF UnpublishCleanup
    <3> QED BY <2>11, <3>1 DEF UnpublishCleanup, memory, disk, pods, StateInv, TypeOK
  <2>12. CASE SharedGetPod(c)
    <3>1. seen[Staging(c)] \in 0..MaxPods
      BY <2>12, <2>c DEF SharedGetPod, At, InHandler, StateInv, TypeOK
    <3>2. [call[c] EXCEPT !.uid = seen[Staging(c)], !.pc = "mounted"] \in CallRecord
      BY <1>a, <3>1 DEF CallRecord, Steps
    <3>3. call' = [call EXCEPT ![c] = [@ EXCEPT !.uid = seen[Staging(c)], !.pc = "mounted"]]
      BY <1>a, <2>12 DEF SharedGetPod
    <3>4. call' \in [Calls -> CallRecord]
      BY <1>a, <3>2, <3>3
    <3> QED BY <2>12, <3>1, <3>2, <3>3, <3>4 DEF SharedGetPod, memory, disk, pods, StateInv, TypeOK
  <2>13. CASE SharedCheckMounted(c)
    <3>1. call' \in [Calls -> CallRecord]
      BY <2>13, <2>a DEF SharedCheckMounted, Steps
    <3> QED BY <2>13, <3>1 DEF SharedCheckMounted, memory, disk, pods, StateInv, TypeOK
  <2>14. CASE SharedBind(c)
    <3>1. call' \in [Calls -> CallRecord]
      BY <2>14, <2>a DEF SharedBind, Steps
    <3>2. mnt[Staging(c)] \in Devices
      BY <1>e, <1>i, <2>14, <2>c DEF SharedBind, At, InHandler
    <3>3. mnt' \in [Paths -> Devices]
      BY <1>e, <1>i, <2>14, <3>2 DEF SharedBind
    <3> QED BY <2>14, <3>1, <3>2, <3>3 DEF SharedBind, memory, disk, pods, StateInv, TypeOK
  <2>15. CASE SharedLoadOrStore(c)
    <3>1. Staging(c) \in Paths
      BY <2>15, <2>c DEF SharedLoadOrStore, At, InHandler
    <3>2. call' \in [Calls -> CallRecord]
      BY <1>a, <1>c, <1>g, <2>15, <3>1 DEF SharedLoadOrStore, CallRecord, Steps
    <3>3. NewVolumeState(Staging(c), call[c].uid) \in VolumeState
      BY <2>d, <3>1 DEF VolumeState, NewVolumeState, MonitorStates, Devices
    <3>4. heap' \in [States -> VolumeState]
      BY <1>b, <2>15, <3>3 DEF SharedLoadOrStore
    <3>5. store' \in [Paths -> 0..MaxStates] /\ size' \in Int
      BY <1>c, <1>g, <2>15 DEF SharedLoadOrStore
    <3> QED BY <2>15, <3>1, <3>2, <3>3, <3>4, <3>5 DEF SharedLoadOrStore, memory, disk, pods, StateInv, TypeOK
  <2>16. CASE SharedStartMonitor(c)
    <3>1. call' \in [Calls -> CallRecord]
      BY <2>16, <2>a DEF SharedStartMonitor, Steps
    <3>2. call[c].vs \notin States => heap' = heap
      BY <1>b, <2>16 DEF SharedStartMonitor, StartMonitor
    <3>3. call[c].vs \in States => heap' \in [States -> VolumeState]
      BY <1>b, <2>16 DEF SharedStartMonitor, StartMonitor, VolumeState, MonitorStates
    <3>4. heap' \in [States -> VolumeState]
      BY <1>b, <3>2, <3>3
    <3> QED BY <2>16, <3>1, <3>2, <3>3, <3>4 DEF SharedStartMonitor, memory, disk, pods, StateInv, TypeOK
  <2>17. CASE SharedRegisterMetrics(c)
    <3>1. call' \in [Calls -> CallRecord] /\ locks' \subseteq Paths
      BY <2>17, <2>b DEF SharedRegisterMetrics
    <3>2. Staging(c) \in Paths /\ <<call[c].uid, Staging(c)>> \in Collectors
      BY <2>17, <2>c, <2>d DEF SharedRegisterMetrics, At, InHandler, Collectors
    <3>3. registry' \in [Paths -> Collectors]
      BY <1>d, <2>17, <3>2, RegisterEffect DEF SharedRegisterMetrics
    <3> QED BY <2>17, <3>1, <3>2, <3>3 DEF SharedRegisterMetrics, memory, disk, pods, StateInv, TypeOK
  <2>18. CASE StageCheck(c)
    <3>1. call[c].path \in StagingPaths
      BY <2>18 DEF StageCheck, At, StateInv, OpsOnTheirPaths, InHandler
    <3>2. seen[call[c].path] \in 0..MaxPods
      BY <3>1 DEF StateInv, TypeOK
    <3>3. call' \in [Calls -> CallRecord] /\ locks' \subseteq Paths
      BY <1>a, <2>18, <2>b, <3>2 DEF StageCheck, CallRecord, Steps, StateInv, TypeOK
    <3> QED BY <2>18, <3>1, <3>2, <3>3 DEF StageCheck, memory, disk, pods, StateInv, TypeOK
  <2>19. CASE StageMount(c)
    <3>1. call' \in [Calls -> CallRecord] /\ locks' \subseteq Paths
      BY <2>19, <2>b DEF StageMount
    <3>2. mnt' \in [Paths -> Devices]
      BY <1>e, <1>i, <2>19 DEF StageMount
    <3> QED BY <2>19, <3>1, <3>2 DEF StageMount, memory, disk, pods, StateInv, TypeOK
  <2>20. CASE CleanupUnmount(c)
    <3>1. call' \in [Calls -> CallRecord]
      BY <2>20, <2>a DEF CleanupUnmount, Steps
    <3>2. mnt' \in [Paths -> Devices]
      BY <1>e, <1>i, <2>20 DEF CleanupUnmount
    <3> QED BY <2>20, <3>1, <3>2 DEF CleanupUnmount, memory, disk, pods, StateInv, TypeOK
  <2>21. CASE CleanupRemoveDir(c)
    <3>1. call' \in [Calls -> CallRecord] /\ locks' \subseteq Paths
      BY <2>21, <2>b DEF CleanupRemoveDir
    <3> QED BY <2>21, <3>1 DEF CleanupRemoveDir, memory, disk, pods, StateInv, TypeOK
  <2>22. CASE UnstageLoad(c)
    <3>1. store[call[c].path] \in 0..MaxStates
      BY <1>c, <2>22, <2>c DEF UnstageLoad, At, InHandler
    <3>2. \A pc \in Steps : [call[c] EXCEPT !.vs = store[call[c].path], !.pc = pc] \in CallRecord
      BY <1>a, <3>1 DEF CallRecord
    <3>3. \E pc \in Steps : call' = [call EXCEPT ![c] = [@ EXCEPT !.vs = store[call[c].path], !.pc = pc]]
      BY <1>a, <2>22 DEF UnstageLoad, Steps
    <3>4. call' \in [Calls -> CallRecord]
      BY <1>a, <3>2, <3>3
    <3> QED BY <2>22, <3>1, <3>2, <3>3, <3>4 DEF UnstageLoad, memory, disk, pods, StateInv, TypeOK
  <2>23. CASE UnstageUnregister(c)
    <3>1. call' \in [Calls -> CallRecord]
      BY <2>23, <2>a DEF UnstageUnregister, Steps
    <3>2. registry' \in [Paths -> Collectors]
      BY <1>d, <1>i, <2>23 DEF UnstageUnregister, UnregisterMetricsCollector
    <3> QED BY <2>23, <3>1, <3>2 DEF UnstageUnregister, memory, disk, pods, StateInv, TypeOK
  <2>24. CASE UnstageCancel(c)
    <3>1. call' \in [Calls -> CallRecord]
      BY <2>24, <2>a DEF UnstageCancel, Steps
    <3>2. call[c].vs \notin States => heap' = heap
      BY <1>b, <2>24 DEF UnstageCancel, CancelMonitor
    <3>3. call[c].vs \in States => heap' \in [States -> VolumeState]
      BY <1>b, <2>24 DEF UnstageCancel, CancelMonitor, VolumeState, MonitorStates
    <3>4. heap' \in [States -> VolumeState]
      BY <1>b, <3>2, <3>3
    <3> QED BY <2>24, <3>1, <3>2, <3>3, <3>4 DEF UnstageCancel, memory, disk, pods, StateInv, TypeOK
  <2>25. CASE UnstageDelete(c)
    <3>1. [call[c] EXCEPT !.pc = "unmount", !.vs = 0] \in CallRecord
      BY <1>a, <1>h DEF CallRecord, Steps
    <3>2. call' = [call EXCEPT ![c] = [@ EXCEPT !.pc = "unmount", !.vs = 0]]
      BY <1>a, <2>25 DEF UnstageDelete
    <3>3. call' \in [Calls -> CallRecord]
      BY <1>a, <3>1, <3>2
    <3>4. store' = [store EXCEPT ![call[c].path] = 0] /\ size' = size - 1
      BY <2>25 DEF UnstageDelete
    <3>5. store' \in [Paths -> 0..MaxStates]
      BY <1>c, <1>h, <3>4
    <3>6. size' \in Int
      BY <1>c, <3>4
    <3> QED BY <2>25, <3>1, <3>2, <3>3, <3>4, <3>5, <3>6 DEF UnstageDelete, memory, disk, pods, StateInv, TypeOK
  <2>26. CASE PublishFails(c)
    <3>1. call' \in [Calls -> CallRecord] /\ locks' \subseteq Paths
      BY <2>26, <2>b DEF PublishFails
    <3> QED BY <2>26, <3>1 DEF PublishFails, memory, disk, pods, StateInv, TypeOK
  <2>27. CASE UnpublishFails(c)
    <3>1. call' \in [Calls -> CallRecord] /\ locks' \subseteq Paths
      BY <2>27, <2>b DEF UnpublishFails
    <3> QED BY <2>27, <3>1 DEF UnpublishFails, memory, disk, pods, StateInv, TypeOK
  <2>28. CASE SharedFails(c)
    <3>1. call' \in [Calls -> CallRecord] /\ locks' \subseteq Paths
      BY <2>28, <2>b DEF SharedFails
    <3> QED BY <2>28, <3>1 DEF SharedFails, memory, disk, pods, StateInv, TypeOK
  <2>29. CASE StageFails(c)
    <3>1. call' \in [Calls -> CallRecord]
      BY <2>29, <2>a DEF StageFails, Steps
    <3> QED BY <2>29, <3>1 DEF StageFails, memory, disk, pods, StateInv, TypeOK
  <2>30. CASE StageMountFails(c)
    <3>1. call' \in [Calls -> CallRecord]
      BY <2>30, <2>a DEF StageMountFails, Steps
    <3>2. mnt' \in [Paths -> Devices]
      BY <1>e, <1>i, <2>30 DEF StageMountFails
    <3> QED BY <2>30, <3>1, <3>2 DEF StageMountFails, memory, disk, pods, StateInv, TypeOK
  <2>31. CASE CleanupFails(c)
    <3>1. call' \in [Calls -> CallRecord] /\ locks' \subseteq Paths
      BY <2>31, <2>b DEF CleanupFails
    <3> QED BY <2>31, <3>1 DEF CleanupFails, memory, disk, pods, StateInv, TypeOK
  <2> QED
    BY <1>2, <2>1, <2>2, <2>3, <2>4, <2>5, <2>6, <2>7, <2>8, <2>9, <2>10, <2>11,
       <2>12, <2>13, <2>14, <2>15, <2>16, <2>17, <2>18, <2>19, <2>20, <2>21, <2>22,
       <2>23, <2>24, <2>25, <2>26, <2>27, <2>28, <2>29, <2>30, <2>31
    DEF HandlerStep, HandlerFails
<1>3. ASSUME NEW c \in Calls, Reply(c) PROVE TypeOK'
  BY <1>f, <1>3 DEF Reply, memory, disk, pods, StateInv, TypeOK
<1>4. ASSUME NEW v \in States, MonitorResolves(v) PROVE TypeOK'
  <2>1. mnt[heap[v].path] \in Devices
    BY <1>e, <1>4 DEF MonitorResolves, StateInv, MonitorsHavePaths, Paths
  <2>2. heap' \in [States -> VolumeState]
    BY <1>b, <1>4, <2>1 DEF MonitorResolves, VolumeState, MonitorStates
  <2> QED BY <1>4, <2>2 DEF MonitorResolves, disk, pods, StateInv, TypeOK
<1>5. ASSUME NEW v \in States, MonitorStops(v) PROVE TypeOK'
  <2>1. heap' \in [States -> VolumeState] BY <1>b, <1>5 DEF MonitorStops, VolumeState, MonitorStates
  <2> QED BY <1>5, <2>1 DEF MonitorStops, disk, pods, StateInv, TypeOK
<1>6. ASSUME NEW s \in StagingPaths, MounterPodStarts(s) \/ MounterPodDies(s) \/ PodListerSyncs(s)
      PROVE  TypeOK'
  <2>1. mnt' \in [Paths -> Devices] /\ UNCHANGED <<call, memory, dirs, restarts>>
    BY <1>e, <1>6, PodStep
  <2>2. /\ pod' \in [StagingPaths -> 0..MaxPods] /\ npods' \in [StagingPaths -> 0..MaxPods]
        /\ seen' \in [StagingPaths -> 0..MaxPods]
    BY <1>6, ConstantsAssumption DEF MounterPodStarts, MounterPodDies, PodListerSyncs,
       StateInv, TypeOK
  <2> QED BY <2>1, <2>2 DEF memory, StateInv, TypeOK
<1>7. CASE DriverRestart
  <2>1. NewVolumeState(NoPath, 0) \in VolumeState
    BY <1>h DEF VolumeState, NewVolumeState, MonitorStates, Devices
  <2>2. call' \in [Calls -> CallRecord] /\ heap' \in [States -> VolumeState]
    BY <1>f, <1>7, <2>1 DEF DriverRestart
  <2>3. /\ store' \in [Paths -> 0..MaxStates] /\ registry' \in [Paths -> Collectors]
        /\ locks' \subseteq Paths /\ size' \in Int
    BY <1>h, <1>i, <1>7 DEF DriverRestart
  <2>4. restarts' \in 0..MaxRestarts
    BY <1>7, ConstantsAssumption DEF DriverRestart, StateInv, TypeOK
  <2> QED BY <1>7, <2>2, <2>3, <2>4 DEF DriverRestart, disk, pods, StateInv, TypeOK
<1> QED
  BY <1>1, <1>2, <1>3, <1>4, <1>5, <1>6, <1>7 DEF Next, Environment

-----------------------------------------------------------------------------
(***************************************************************************)
(* VolumeStates and monitors.                                              *)
(***************************************************************************)

OwnStates ==
  /\ StoredUnderOwnPath /\ HandlersHoldOwnState
  /\ MonitorsHavePaths /\ TargetMonitorsStoppable

\* Steps that neither store nor allocate a VolumeState: handlers drop the one
\* they hold or keep it, and a monitor is started only by a publish that holds
\* its VolumeState.
KeepsHolders ==
  \A c \in Calls : call'[c].vs # 0 =>
    /\ call'[c].vs = call[c].vs /\ InHandler(c)'
    /\ call'[c].op = call[c].op /\ call'[c].path = call[c].path

Publishing(v) ==
  \E c \in Calls : call[c].vs = v /\ call[c].op \in {"publish", "publishShared"}

StartsOnlyHeld ==
  \A v \in States :
    /\ heap'[v].path = heap[v].path
    /\ heap'[v].mon # "none" => heap[v].mon # "none" \/ Publishing(v)
    /\ Running(v)' => Running(v) \/ Publishing(v)

\* A publish holds a VolumeState that is in the store or belongs to a staging
\* path, so the monitor it starts can be stopped.
LEMMA QuietStep ==
  ASSUME StateInv, TypeOK', store' = store, KeepsHolders, StartsOnlyHeld
  PROVE  OwnStates'
<1>1. \A v \in States : Publishing(v) =>
        /\ heap[v].path \in Targets \cup StagingPaths
        /\ heap[v].path \in Targets => store[heap[v].path] = v
  BY ConstantsAssumption DEF Publishing, StateInv, HandlersHoldOwnState, OpsOnTheirPaths,
     States, Staging
<1>2. \A p \in Paths : store[p] # 0 => store[p] \in States
  BY ConstantsAssumption DEF StateInv, TypeOK, States
<1>3. \A c \in Calls : call[c].vs # 0 => call[c].vs \in States
  BY ConstantsAssumption DEF StateInv, TypeOK, CallRecord, States
<1>4. StoredUnderOwnPath'
  BY <1>2 DEF StateInv, StoredUnderOwnPath, StartsOnlyHeld
<1>5. HandlersHoldOwnState'
  BY <1>3 DEF StateInv, HandlersHoldOwnState, KeepsHolders, StartsOnlyHeld, Staging
<1>6. MonitorsHavePaths'
  BY <1>1 DEF StateInv, MonitorsHavePaths, StartsOnlyHeld
<1>7. TargetMonitorsStoppable'
  BY <1>1 DEF StateInv, TargetMonitorsStoppable, StartsOnlyHeld
<1> QED BY <1>4, <1>5, <1>6, <1>7 DEF OwnStates

\* Storing a fresh VolumeState under a path that has none.
LEMMA AllocatingStep ==
  ASSUME StateInv, TypeOK', NEW c \in Calls, StepsOf(c), NEW p \in Paths, NEW v \in States,
         NEW uid, Allocates(v), store[p] = 0,
         heap' = [heap EXCEPT ![v] = NewVolumeState(p, uid)],
         store' = [store EXCEPT ![p] = v], call'[c].vs = v,
         \/ call[c].op = "publish" /\ call[c].path = p
         \/ call[c].op = "publishShared" /\ Staging(c) = p
  PROVE  OwnStates'
<1>1. /\ \A q \in Paths : store[q] # v
      /\ \A d \in Calls : call[d].vs # v
      /\ ~Running(v) /\ v # 0
  BY ConstantsAssumption DEF Allocates, FreeStates, States
<1>2. /\ heap'[v].path = p /\ heap'[v].mon = "none"
      /\ \A w \in States : w # v => heap'[w] = heap[w]
  BY DEF StateInv, TypeOK, NewVolumeState
<1>3. /\ store'[p] = v
      /\ \A q \in Paths : q # p => store'[q] = store[q]
  BY DEF StateInv, TypeOK
<1>4. \A q \in Paths : store[q] # 0 => store[q] \in States
  BY ConstantsAssumption DEF StateInv, TypeOK, States
<1>5. \A d \in Calls : call[d].vs # 0 => call[d].vs \in States
  BY ConstantsAssumption DEF StateInv, TypeOK, CallRecord, States
<1>6. StoredUnderOwnPath'
  BY <1>1, <1>2, <1>3, <1>4 DEF StateInv, StoredUnderOwnPath
<1>7. InHandler(c)'
  BY <1>1 DEF StepsOf, InHandler
<1>8. HandlersHoldOwnState'
  <2> SUFFICES ASSUME NEW d \in Calls, call'[d].vs # 0
               PROVE  /\ InHandler(d)'
                      /\ \/ /\ call'[d].op = "publish"
                            /\ heap'[call'[d].vs].path = call'[d].path
                            /\ store'[call'[d].path] = call'[d].vs
                         \/ call'[d].op = "publishShared" /\ heap'[call'[d].vs].path = Staging(d)'
                         \/ call'[d].op = "unstage" /\ heap'[call'[d].vs].path = call'[d].path
    BY DEF HandlersHoldOwnState
  <2>1. CASE d = c BY <1>2, <1>3, <1>7, <2>1 DEF StepsOf, Staging
  <2>2. CASE d # c
    <3>1. call'[d] = call[d] BY <2>2 DEF StepsOf
    <3>2. /\ call[d].vs \in States /\ call[d].vs # v
          /\ heap'[call[d].vs] = heap[call[d].vs]
      BY <1>1, <1>2, <1>5, <3>1
    <3>3. CASE call[d].op = "publish"
      <4>1. InHandler(d) /\ call[d].path \in Paths /\ store[call[d].path] = call[d].vs
        BY <3>1, <3>3 DEF StateInv, HandlersHoldOwnState, OpsOnTheirPaths, Paths
      <4>2. store'[call[d].path] = call[d].vs
        BY <1>3, <3>1, <4>1
      <4> QED BY <3>1, <3>2, <3>3, <4>1, <4>2 DEF StateInv, HandlersHoldOwnState, InHandler
    <3>4. CASE call[d].op # "publish"
      BY <3>1, <3>2, <3>4 DEF StateInv, HandlersHoldOwnState, InHandler, Staging
    <3> QED BY <3>3, <3>4
  <2> QED BY <2>1, <2>2
<1>9. MonitorsHavePaths'
  BY <1>2 DEF StateInv, MonitorsHavePaths
<1>10. TargetMonitorsStoppable'
  <2> SUFFICES ASSUME NEW w \in States, Running(w)', heap'[w].path \in Targets
               PROVE  store'[heap'[w].path] = w
    BY DEF TargetMonitorsStoppable
  <2>1. w # v BY <1>2 DEF Running
  <2>2. Running(w) /\ heap'[w].path = heap[w].path BY <1>2, <2>1 DEF Running
  <2>3. store[heap[w].path] = w /\ w # 0 /\ heap[w].path \in Paths
    BY <2>2, ConstantsAssumption DEF StateInv, TargetMonitorsStoppable, States, Paths
  <2> QED BY <1>3, <2>2, <2>3
<1> QED BY <1>6, <1>8, <1>9, <1>10 DEF OwnStates

\* Taking a VolumeState out of the store: no other handler may rely on it, and
\* its monitor no longer runs if the path is a target.
LEMMA RemovingStep ==
  ASSUME StateInv, NEW p \in Paths, store' = [store EXCEPT ![p] = 0],
         \A v \in States : heap'[v].path = heap[v].path,
         \A v \in States : heap'[v].mon # "none" => heap[v].mon # "none",
         \A v \in States : Running(v)' => Running(v),
         \A v \in States : Running(v)' /\ heap[v].path = p => p \notin Targets,
         KeepsHolders,
         \A d \in Calls : InHandler(d)' /\ call[d].op = "publish" => call[d].path # p
  PROVE  OwnStates'
<1>1. store'[p] = 0 /\ \A q \in Paths : q # p => store'[q] = store[q]
  BY DEF StateInv, TypeOK
<1>2. \A q \in Paths : store[q] # 0 => store[q] \in States
  BY ConstantsAssumption DEF StateInv, TypeOK, States
<1>3. \A c \in Calls : call[c].vs # 0 => call[c].vs \in States
  BY ConstantsAssumption DEF StateInv, TypeOK, CallRecord, States
<1>4. StoredUnderOwnPath'
  BY <1>1, <1>2 DEF StateInv, StoredUnderOwnPath
<1>5. HandlersHoldOwnState'
  <2> SUFFICES ASSUME NEW d \in Calls, call'[d].vs # 0
               PROVE  /\ InHandler(d)'
                      /\ \/ /\ call'[d].op = "publish"
                            /\ heap'[call'[d].vs].path = call'[d].path
                            /\ store'[call'[d].path] = call'[d].vs
                         \/ call'[d].op = "publishShared" /\ heap'[call'[d].vs].path = Staging(d)'
                         \/ call'[d].op = "unstage" /\ heap'[call'[d].vs].path = call'[d].path
    BY DEF HandlersHoldOwnState
  <2>1. /\ call'[d].vs = call[d].vs /\ InHandler(d)' /\ InHandler(d)
        /\ call'[d].op = call[d].op /\ call'[d].path = call[d].path
        /\ call[d].vs \in States
    BY <1>3 DEF KeepsHolders, StateInv, HandlersHoldOwnState
  <2>2. heap'[call[d].vs].path = heap[call[d].vs].path BY <2>1
  <2>3. CASE call[d].op = "publish"
    <3>1. call[d].path # p /\ call[d].path \in Paths
      BY <2>1, <2>3 DEF StateInv, OpsOnTheirPaths, Paths
    <3>2. store'[call[d].path] = store[call[d].path] BY <1>1, <3>1
    <3> QED BY <2>1, <2>2, <2>3, <3>2 DEF StateInv, HandlersHoldOwnState
  <2>4. CASE call[d].op # "publish"
    BY <2>1, <2>2, <2>4 DEF StateInv, HandlersHoldOwnState, Staging
  <2> QED BY <2>3, <2>4
<1>6. MonitorsHavePaths'
  BY DEF StateInv, MonitorsHavePaths
<1>7. TargetMonitorsStoppable'
  <2> SUFFICES ASSUME NEW v \in States, Running(v)', heap'[v].path \in Targets
               PROVE  store'[heap'[v].path] = v
    BY DEF TargetMonitorsStoppable
  <2>1. Running(v) /\ heap'[v].path = heap[v].path /\ heap[v].path # p /\ heap[v].path \in Paths
    BY DEF Paths
  <2> QED BY <1>1, <2>1 DEF StateInv, TargetMonitorsStoppable
<1> QED BY <1>4, <1>5, <1>6, <1>7 DEF OwnStates

\* Every VolumeState stays where its handlers and its monitor expect it.
LEMMA OwnStatesStep ==
  ASSUME StateInv, Next
  PROVE  OwnStates'
<1>t. TypeOK' BY TypeStep
<1>a. /\ call \in [Calls -> CallRecord] /\ heap \in [States -> VolumeState]
      /\ store \in [Paths -> 0..MaxStates]
  BY DEF StateInv, TypeOK
<1>b. UNCHANGED heap => StartsOnlyHeld BY DEF StartsOnlyHeld, Running
<1>c. \A c \in Calls : StepsOf(c) /\ call'[c].vs \in {0, call[c].vs} => KeepsHolders
  BY DEF StepsOf, KeepsHolders, StateInv, HandlersHoldOwnState, InHandler
<1>d. \A p \in Paths : store[p] # 0 => store[p] \in States
  BY ConstantsAssumption DEF StateInv, TypeOK, States
<1>1. ASSUME NEW c \in Calls, Requests(c) PROVE OwnStates'
  <2>1. PICK op, p : StartOf(c, op, p) BY <1>1, RequestShape DEF StateInv
  <2>2. KeepsHolders
    BY <2>1 DEF StartOf, KeepsHolders, StateInv, HandlersHoldOwnState, InHandler
  <2> QED BY <1>t, <1>b, <2>1, <2>2, QuietStep DEF StartOf
<1>2. ASSUME NEW c \in Calls, HandlerStep(c) \/ HandlerFails(c) PROVE OwnStates'
  <2>a. StepsOf(c) BY <1>2, HandlerShape DEF StateInv
  <2>b. ASSUME store' = store, heap' = heap, call'[c].vs \in {0, call[c].vs}
        PROVE  OwnStates'
    BY <1>t, <1>b, <1>c, <2>a, <2>b, QuietStep
  <2>c. ASSUME NEW pc, Goto(c, pc) PROVE call'[c].vs = call[c].vs
    BY <1>a, <2>c DEF Goto, CallRecord
  <2>d. ASSUME NEW code, Return(c, code) PROVE call'[c].vs = 0
    BY <1>a, <2>d DEF Return, CallRecord
  <2>e. call[c].vs # 0 => call[c].vs \in States /\ InHandler(c)
    BY <1>a, ConstantsAssumption DEF CallRecord, States, StateInv, HandlersHoldOwnState
  <2>f. /\ call[c].op = "publish" => call[c].path \in Targets
        /\ call[c].op = "publishShared" => Staging(c) \in StagingPaths
        /\ call[c].op = "unpublish" => call[c].path \in Targets \cup SharedTargets
        /\ call[c].op \in {"stage", "unstage"} => call[c].path \in StagingPaths
    BY <2>a, ConstantsAssumption DEF StepsOf, StateInv, OpsOnTheirPaths, Staging
  <2>g. ASSUME NEW p \in Paths, store[p] # 0, store' = store, heap' = heap, call'[c].vs = store[p],
               \/ call[c].op \in {"publish", "unstage"} /\ call[c].path = p
               \/ call[c].op = "publishShared" /\ Staging(c) = p
        PROVE  OwnStates'
    <3>1. heap[store[p]].path = p BY <2>g DEF StateInv, StoredUnderOwnPath
    <3>2. HandlersHoldOwnState'
      BY <2>a, <2>g, <3>1 DEF StateInv, HandlersHoldOwnState, StepsOf, InHandler, Staging
    <3> QED BY <2>g, <3>2 DEF OwnStates, StateInv, StoredUnderOwnPath, MonitorsHavePaths,
               TargetMonitorsStoppable, Running
  <2>h. ASSUME store' = store, call'[c].vs \in {0, call[c].vs}, StartMonitor(call[c].vs),
               call[c].op \in {"publish", "publishShared"}
        PROVE  OwnStates'
    <3>1. \A v \in States : v # call[c].vs => heap'[v] = heap[v]
      BY <1>a, <2>h DEF StartMonitor
    <3>2. \A v \in States : heap'[v].path = heap[v].path
      BY <1>a, <2>h DEF StartMonitor, VolumeState
    <3>3. StartsOnlyHeld
      BY <2>h, <3>1, <3>2 DEF StartsOnlyHeld, Publishing, Running
    <3> QED BY <1>t, <1>c, <2>a, <2>h, <3>3, QuietStep
  <2>i. ASSUME NEW v \in States, CancelMonitor(v)
        PROVE  /\ ~Running(v)'
               /\ \A w \in States : /\ heap'[w].path = heap[w].path
                                    /\ heap'[w].mon # "none" => heap[w].mon # "none"
                                    /\ Running(w)' => Running(w)
    BY <1>a, <2>i DEF CancelMonitor, VolumeState, Running
  <2>1. CASE PublishLoadState(c)
    <3>1. call[c].op = "publish" /\ call[c].path \in Paths BY <2>1, <2>f DEF PublishLoadState, At, Paths
    <3>2. CASE call[c].path \in Dynamic
      BY <2>1, <2>b, <2>c, <3>2 DEF PublishLoadState
    <3>3. CASE call[c].path \notin Dynamic /\ store[call[c].path] # 0
      <4>1. call'[c].vs = store[call[c].path] /\ store' = store /\ heap' = heap
        BY <1>a, <2>1, <3>3 DEF PublishLoadState, CallRecord
      <4> QED BY <2>g, <3>1, <3>3, <4>1
    <3>4. CASE call[c].path \notin Dynamic /\ store[call[c].path] = 0
      <4>1. PICK v \in States :
              /\ Allocates(v) /\ heap' = [heap EXCEPT ![v] = NewVolumeState(call[c].path, 0)]
              /\ store' = [store EXCEPT ![call[c].path] = v]
              /\ call' = [call EXCEPT ![c].pc = "access", ![c].vs = v]
        BY <2>1, <3>4 DEF PublishLoadState
      <4>2. call'[c].vs = v BY <1>a, <4>1 DEF CallRecord
      <4> QED BY <1>t, <2>a, <3>1, <3>4, <4>1, <4>2, AllocatingStep
    <3> QED BY <3>2, <3>3, <3>4
  <2>2. CASE PublishCheckAccess(c)
    <3>1. \A v \in States : heap'[v].path = heap[v].path /\ heap'[v].mon = heap[v].mon
      BY <1>a, <2>2 DEF PublishCheckAccess, VolumeState
    <3>2. StartsOnlyHeld BY <3>1 DEF StartsOnlyHeld, Running
    <3>3. KeepsHolders BY <1>c, <2>2, <2>a, <2>c DEF PublishCheckAccess
    <3> QED BY <1>t, <2>2, <3>2, <3>3, QuietStep DEF PublishCheckAccess
  <2>3. CASE PublishRegisterMetrics(c)
    BY <2>3, <2>b, <2>c DEF PublishRegisterMetrics, memory
  <2>4. CASE PublishCheckMounted(c)
    BY <2>4, <2>b, <2>c DEF PublishCheckMounted, memory
  <2>5. CASE PublishNotNeeded(c)
    BY <2>5, <2>b, <2>d DEF PublishNotNeeded
  <2>6. CASE PublishMount(c)
    BY <2>6, <2>b, <2>c DEF PublishMount, memory
  <2>7. CASE PublishStartMonitor(c)
    <3>1. call'[c].vs = 0 /\ store' = store /\ call[c].op = "publish"
      BY <2>7, <2>d DEF PublishStartMonitor, At
    <3>2. CASE call[c].vs = 0 BY <2>7, <2>b, <3>1, <3>2 DEF PublishStartMonitor
    <3>3. CASE call[c].vs # 0 BY <2>7, <2>h, <3>1, <3>3 DEF PublishStartMonitor
    <3> QED BY <3>2, <3>3
  <2>8. CASE UnpublishUnregister(c)
    BY <2>8, <2>b, <2>c DEF UnpublishUnregister, memory
  <2>9. CASE UnpublishDeleteState(c)
    <3>1. /\ call[c].op = "unpublish" /\ call[c].path \in Paths
          /\ call'[c].vs = call[c].vs
      BY <2>9, <2>c, <2>f DEF UnpublishDeleteState, At, Paths
    <3>2. CASE store[call[c].path] = 0 BY <2>9, <2>b, <3>1, <3>2 DEF UnpublishDeleteState
    <3>3. CASE store[call[c].path] # 0
      <4>1. /\ CancelMonitor(store[call[c].path]) /\ store[call[c].path] \in States
            /\ store' = [store EXCEPT ![call[c].path] = 0]
        BY <1>d, <2>9, <3>1, <3>3 DEF UnpublishDeleteState
      <4>2. \A v \in States : Running(v)' /\ heap[v].path = call[c].path =>
              call[c].path \notin Targets
        BY <2>i, <4>1 DEF StateInv, TargetMonitorsStoppable
      <4>3. KeepsHolders BY <1>c, <2>a, <3>1
      <4>4. \A d \in Calls : InHandler(d)' /\ call[d].op = "publish" => call[d].path # call[c].path
        BY <2>a, <3>1 DEF StepsOf, InHandler, StateInv, LocksExclusive
      <4> QED BY <2>i, <3>1, <4>1, <4>2, <4>3, <4>4, RemovingStep
    <3> QED BY <3>2, <3>3
  <2>10. CASE UnpublishUnmount(c)
    BY <2>10, <2>b, <2>c DEF UnpublishUnmount, memory
  <2>11. CASE UnpublishCleanup(c)
    BY <2>11, <2>b, <2>d DEF UnpublishCleanup
  <2>12. CASE SharedGetPod(c)
    <3>1. call'[c].vs = call[c].vs BY <1>a, <2>12 DEF SharedGetPod, CallRecord
    <3> QED BY <2>12, <2>b, <3>1 DEF SharedGetPod, memory
  <2>13. CASE SharedCheckMounted(c)
    BY <2>13, <2>b, <2>c DEF SharedCheckMounted, memory
  <2>14. CASE SharedBind(c)
    BY <2>14, <2>b, <2>c DEF SharedBind, memory
  <2>15. CASE SharedLoadOrStore(c)
    <3>1. call[c].op = "publishShared" /\ Staging(c) \in Paths BY <2>15, <2>f DEF SharedLoadOrStore, At, Paths
    <3>2. CASE store[Staging(c)] # 0
      <4>1. call'[c].vs = store[Staging(c)] /\ store' = store /\ heap' = heap
        BY <1>a, <2>15, <3>2 DEF SharedLoadOrStore, CallRecord
      <4> QED BY <2>g, <3>1, <3>2, <4>1
    <3>3. CASE store[Staging(c)] = 0
      <4>1. PICK v \in States :
              /\ Allocates(v) /\ heap' = [heap EXCEPT ![v] = NewVolumeState(Staging(c), call[c].uid)]
              /\ store' = [store EXCEPT ![Staging(c)] = v]
              /\ call' = [call EXCEPT ![c].pc = "monitor", ![c].vs = v]
        BY <2>15, <3>3 DEF SharedLoadOrStore
      <4>2. call'[c].vs = v BY <1>a, <4>1 DEF CallRecord
      <4> QED BY <1>t, <2>a, <3>1, <3>3, <4>1, <4>2, AllocatingStep
    <3> QED BY <3>2, <3>3
  <2>16. CASE SharedStartMonitor(c)
    BY <2>16, <2>c, <2>h DEF SharedStartMonitor, At
  <2>17. CASE SharedRegisterMetrics(c)
    BY <2>17, <2>b, <2>d DEF SharedRegisterMetrics
  <2>18. CASE StageCheck(c)
    <3>1. call'[c].vs \in {0, call[c].vs} BY <1>a, <2>18, <2>d DEF StageCheck, CallRecord
    <3> QED BY <2>18, <2>b, <3>1 DEF StageCheck
  <2>19. CASE StageMount(c)
    BY <2>19, <2>b, <2>d DEF StageMount
  <2>20. CASE CleanupUnmount(c)
    BY <2>20, <2>b, <2>c DEF CleanupUnmount, memory
  <2>21. CASE CleanupRemoveDir(c)
    BY <2>21, <2>b, <2>d DEF CleanupRemoveDir
  <2>22. CASE UnstageLoad(c)
    <3>1. call[c].op = "unstage" /\ call[c].path \in Paths BY <2>22, <2>f DEF UnstageLoad, At, Paths
    <3>2. call'[c].vs = store[call[c].path] BY <1>a, <2>22 DEF UnstageLoad, CallRecord
    <3> QED BY <2>22, <2>b, <2>g, <3>1, <3>2 DEF UnstageLoad, memory
  <2>23. CASE UnstageUnregister(c)
    BY <2>23, <2>b, <2>c DEF UnstageUnregister, memory
  <2>24. CASE UnstageCancel(c)
    <3>1. KeepsHolders BY <1>c, <2>24, <2>a, <2>c DEF UnstageCancel
    <3>2. CASE call[c].vs \in States
      <4>1. StartsOnlyHeld BY <2>24, <2>i, <3>2 DEF UnstageCancel, StartsOnlyHeld
      <4> QED BY <1>t, <2>24, <3>1, <4>1, QuietStep DEF UnstageCancel
    <3>3. CASE call[c].vs \notin States
      <4>1. heap' = heap BY <1>a, <2>24, <3>3 DEF UnstageCancel, CancelMonitor
      <4> QED BY <1>b, <1>t, <2>24, <3>1, <4>1, QuietStep DEF UnstageCancel
    <3> QED BY <3>2, <3>3
  <2>25. CASE UnstageDelete(c)
    <3>1. /\ call[c].op = "unstage" /\ call[c].path \in StagingPaths /\ call[c].path \in Paths
          /\ call'[c].vs = 0
      BY <1>a, <2>25, <2>f DEF UnstageDelete, At, Paths, CallRecord
    <3>2. KeepsHolders BY <1>c, <2>a, <3>1
    <3>3. \A d \in Calls : InHandler(d)' /\ call[d].op = "publish" => call[d].path # call[c].path
      BY <2>a, <3>1 DEF StepsOf, InHandler, StateInv, LocksExclusive
    <3>4. /\ call[c].path \notin Targets
          /\ heap' = heap /\ store' = [store EXCEPT ![call[c].path] = 0]
      BY <2>25, <3>1, ConstantsAssumption DEF UnstageDelete
    <3>5. \A v \in States : Running(v)' => Running(v) BY <3>4 DEF Running
    <3> QED BY <3>1, <3>2, <3>3, <3>4, <3>5, RemovingStep
  <2>26. CASE PublishFails(c)
    BY <2>26, <2>b, <2>d DEF PublishFails
  <2>27. CASE UnpublishFails(c)
    BY <2>27, <2>b, <2>d DEF UnpublishFails
  <2>28. CASE SharedFails(c)
    BY <2>28, <2>b, <2>d DEF SharedFails
  <2>29. CASE StageFails(c)
    BY <2>29, <2>b, <2>c DEF StageFails, memory
  <2>30. CASE StageMountFails(c)
    BY <2>30, <2>b, <2>c DEF StageMountFails, memory
  <2>31. CASE CleanupFails(c)
    BY <2>31, <2>b, <2>d DEF CleanupFails
  <2> QED
    BY <1>2, <2>1, <2>2, <2>3, <2>4, <2>5, <2>6, <2>7, <2>8, <2>9, <2>10, <2>11,
       <2>12, <2>13, <2>14, <2>15, <2>16, <2>17, <2>18, <2>19, <2>20, <2>21, <2>22,
       <2>23, <2>24, <2>25, <2>26, <2>27, <2>28, <2>29, <2>30, <2>31
    DEF HandlerStep, HandlerFails
<1>3. ASSUME NEW c \in Calls, Reply(c) PROVE OwnStates'
  <2>1. /\ call'[c].vs = 0 /\ \A d \in Calls : d # c => call'[d] = call[d]
        /\ store' = store /\ heap' = heap
    BY <1>a, <1>3 DEF Reply, Idle, memory
  <2>2. KeepsHolders
    BY <2>1 DEF KeepsHolders, StateInv, HandlersHoldOwnState, InHandler
  <2> QED BY <1>b, <1>t, <2>1, <2>2, QuietStep
<1>4. UNCHANGED call => KeepsHolders
  BY DEF KeepsHolders, StateInv, HandlersHoldOwnState, InHandler
<1>5. ASSUME NEW v \in States, MonitorResolves(v) \/ MonitorStops(v) PROVE OwnStates'
  <2>1. \A w \in States : /\ heap'[w].path = heap[w].path
                          /\ heap'[w].mon # "none" => heap[w].mon # "none"
                          /\ Running(w)' => Running(w)
    BY <1>a, <1>5 DEF MonitorResolves, MonitorStops, VolumeState, Running
  <2>2. StartsOnlyHeld BY <2>1 DEF StartsOnlyHeld
  <2> QED BY <1>t, <1>4, <1>5, <2>2, QuietStep DEF MonitorResolves, MonitorStops
<1>6. ASSUME NEW s \in StagingPaths, MounterPodStarts(s) \/ MounterPodDies(s) \/ PodListerSyncs(s)
      PROVE  OwnStates'
  BY <1>b, <1>t, <1>4, <1>6, QuietStep
     DEF MounterPodStarts, MounterPodDies, PodListerSyncs, memory
<1>7. CASE DriverRestart
  <2>1. /\ \A c \in Calls : call'[c].vs = 0
        /\ \A p \in Paths : store'[p] = 0
        /\ \A v \in States : heap'[v].mon = "none"
    BY <1>7 DEF DriverRestart, Idle, NewVolumeState
  <2> QED BY <2>1 DEF OwnStates, StoredUnderOwnPath, HandlersHoldOwnState, MonitorsHavePaths,
             TargetMonitorsStoppable, Running
<1> QED
  BY <1>1, <1>2, <1>3, <1>5, <1>6, <1>7 DEF Next, Environment

\* The inductive invariant holds initially.
LEMMA InitStateInv == Init => StateInv
<1> SUFFICES ASSUME Init PROVE StateInv OBVIOUS
<1>1. Idle \in CallRecord
  BY ConstantsAssumption DEF Idle, CallRecord, Operations, Steps
<1>2. NewVolumeState(NoPath, 0) \in VolumeState
  BY ConstantsAssumption DEF VolumeState, NewVolumeState, MonitorStates, Devices
<1>3. 0 \in 0..MaxStates /\ 0 \in 0..MaxPods /\ 0 \in 0..MaxRestarts BY ConstantsAssumption
<1>4. NotMounted \in Devices /\ NoCollector \in Collectors BY DEF Devices, Collectors
<1>5. TypeOK BY <1>1, <1>2, <1>3, <1>4 DEF Init, TypeOK
<1>6. \A c \in Calls : ~InHandler(c) /\ call[c].vs = 0 BY DEF Init, Idle, InHandler
<1>7. \A v \in States : heap[v].mon = "none" BY DEF Init, NewVolumeState
<1>8. OpsOnTheirPaths /\ LocksExclusive
  BY <1>6 DEF Init, OpsOnTheirPaths, LocksExclusive
<1>9. StoredUnderOwnPath /\ HandlersHoldOwnState /\ MonitorsHavePaths /\ TargetMonitorsStoppable
  BY <1>6, <1>7 DEF Init, StoredUnderOwnPath, HandlersHoldOwnState, MonitorsHavePaths,
     TargetMonitorsStoppable, Running
<1> QED BY <1>5, <1>8, <1>9 DEF StateInv

\* Every step of the node server preserves the inductive invariant.
LEMMA StateInvStep == StateInv /\ [Next]_vars => StateInv'
<1> SUFFICES ASSUME StateInv, [Next]_vars PROVE StateInv' OBVIOUS
<1>1. CASE Next
  BY <1>1, TypeStep, LockingStep, OwnStatesStep DEF StateInv, OwnStates
<1>2. CASE UNCHANGED vars
  <2> USE <1>2 DEF vars, server, memory, disk, pods, StateInv
  <2>1. TypeOK' BY DEF TypeOK
  <2>2. OpsOnTheirPaths' /\ LocksExclusive' BY DEF OpsOnTheirPaths, LocksExclusive, InHandler
  <2>3. StoredUnderOwnPath' /\ HandlersHoldOwnState'
    BY DEF StoredUnderOwnPath, HandlersHoldOwnState, InHandler, Staging
  <2>4. MonitorsHavePaths' /\ TargetMonitorsStoppable'
    BY DEF MonitorsHavePaths, TargetMonitorsStoppable, Running
  <2> QED BY <2>1, <2>2, <2>3, <2>4
<1> QED BY <1>1, <1>2

\* The inductive invariant of the node server.
THEOREM StateInvariant == Spec => []StateInv
BY InitStateInv, StateInvStep, PTL DEF Spec

\* All variables keep their types.
THEOREM TypeCorrect == Spec => []TypeOK
BY StateInvariant, PTL DEF StateInv

\* Two handlers never work on the same path at the same time and no early
\* return leaks a lock, for any number of calls and paths.
THEOREM LockingCorrect == Spec => []LocksExclusive
BY StateInvariant, PTL DEF StateInv

\* Every running kernel-params monitor of a sidecar target can be cancelled by
\* the next NodeUnpublishVolume, whatever republishes and restarts came before.
THEOREM MonitorsStoppable == Spec => []TargetMonitorsStoppable
BY StateInvariant, PTL DEF StateInv

=============================================================================
