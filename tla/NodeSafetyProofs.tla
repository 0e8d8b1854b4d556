-------------------------- MODULE NodeSafetyProofs ---------------------------
(***************************************************************************)
(* What NodeUnpublishVolume leaves behind, which monitors may run, how     *)
(* many collectors there may be, and what the store counts: proofs on top  *)
(* of the inductive invariant of NodeServerProofs.                         *)
(***************************************************************************)
EXTENDS NodeServerProofs

\* What an unpublish has removed stays removed until it returns.
UnpublishProgress ==
  \A c \in Calls :
    call[c].op = "unpublish" =>
      /\ call[c].pc \in {"delete", "unmount", "rmdir"} => registry[call[c].path] = NoCollector
      /\ call[c].pc \in {"unmount", "rmdir"} =>
           /\ store[call[c].path] = 0
           /\ \A v \in States : heap[v].path = call[c].path => ~Running(v)
      /\ call[c].pc = "rmdir" => mnt[call[c].path] = NotMounted

\* A step of the handler of another path leaves a target alone.
Untouched(p) ==
  /\ registry'[p] = registry[p] /\ store'[p] = store[p] /\ mnt'[p] = mnt[p]
  /\ \A v \in States : heap'[v].path = p /\ Running(v)' => heap[v].path = p /\ Running(v)

\* Handlers keep to their own path and to the staging path it is published from.
LEMMA OthersUntouched ==
  ASSUME StateInv, NEW c \in Calls, HandlerStep(c) \/ HandlerFails(c),
         NEW p \in Targets \cup SharedTargets, p # call[c].path
  PROVE  Untouched(p)
<1>a. /\ call \in [Calls -> CallRecord] /\ heap \in [States -> VolumeState]
      /\ store \in [Paths -> 0..MaxStates] /\ mnt \in [Paths -> Devices]
      /\ registry \in [Paths -> Collectors] /\ p \in Paths
  BY DEF StateInv, TypeOK, Paths
<1>b. StepsOf(c) BY HandlerShape DEF StateInv
<1>c. /\ call[c].op = "publish" => call[c].path \in Targets
      /\ call[c].op = "publishShared" => Staging(c) \in StagingPaths
      /\ call[c].op = "unpublish" => call[c].path \in Targets \cup SharedTargets
      /\ call[c].op \in {"stage", "unstage"} => call[c].path \in StagingPaths
  BY <1>b, ConstantsAssumption DEF StepsOf, StateInv, OpsOnTheirPaths, Staging
<1>d. p \notin StagingPaths BY ConstantsAssumption
<1>e. UNCHANGED heap =>
        \A v \in States : heap'[v].path = p /\ Running(v)' => heap[v].path = p /\ Running(v)
  BY DEF Running
<1>f. ASSUME NEW w, CancelMonitor(w)
      PROVE  \A v \in States : heap'[v].path = p /\ Running(v)' => heap[v].path = p /\ Running(v)
  BY <1>a, <1>f DEF CancelMonitor, Running, VolumeState
<1>g. ASSUME StartMonitor(call[c].vs), call[c].op \in {"publish", "publishShared"}
      PROVE  \A v \in States : heap'[v].path = p /\ Running(v)' => heap[v].path = p /\ Running(v)
  <2>1. \A v \in States : heap'[v].path = heap[v].path BY <1>a, <1>g DEF StartMonitor, VolumeState
  <2>2. \A v \in States : v # call[c].vs => heap'[v] = heap[v] BY <1>a, <1>g DEF StartMonitor
  <2>3. call[c].vs \in States => heap[call[c].vs].path # p
    BY <1>c, <1>d, <1>g, ConstantsAssumption DEF StateInv, HandlersHoldOwnState, States
  <2> QED BY <2>1, <2>2, <2>3 DEF Running
<1>h. ASSUME NEW w \in States, NEW q, NEW uid, heap' = [heap EXCEPT ![w] = NewVolumeState(q, uid)]
      PROVE  \A v \in States : heap'[v].path = p /\ Running(v)' => heap[v].path = p /\ Running(v)
  BY <1>a, <1>h DEF NewVolumeState, Running
<1> USE DEF Untouched
<1>1. CASE PublishLoadState(c)
  <2>1. store'[p] = store[p] BY <1>a, <1>1 DEF PublishLoadState
  <2> QED BY <1>e, <1>h, <1>1, <2>1 DEF PublishLoadState, disk
<1>2. CASE PublishCheckAccess(c)
  <2>1. \A v \in States : heap'[v].path = heap[v].path /\ heap'[v].mon = heap[v].mon
    BY <1>a, <1>2 DEF PublishCheckAccess, VolumeState
  <2> QED BY <1>2, <2>1 DEF PublishCheckAccess, disk, Running
<1>3. CASE PublishRegisterMetrics(c)
  <2>1. <<0, call[c].path>> \in Collectors /\ call[c].path \in Paths
    BY <1>c, <1>3, ConstantsAssumption DEF PublishRegisterMetrics, At, Collectors, Paths
  <2>2. registry'[p] = registry[p] BY <1>a, <1>3, <2>1, RegisterEffect DEF PublishRegisterMetrics
  <2> QED BY <1>e, <1>3, <2>2 DEF PublishRegisterMetrics, disk
<1>4. CASE PublishCheckMounted(c) BY <1>a, <1>e, <1>4 DEF PublishCheckMounted, memory, disk
<1>5. CASE PublishNotNeeded(c) BY <1>a, <1>e, <1>5 DEF PublishNotNeeded, disk
<1>6. CASE PublishMount(c) BY <1>a, <1>e, <1>6 DEF PublishMount, memory
<1>7. CASE PublishStartMonitor(c)
  <2>1. \A v \in States : heap'[v].path = p /\ Running(v)' => heap[v].path = p /\ Running(v)
    BY <1>e, <1>g, <1>7 DEF PublishStartMonitor, At
  <2> QED BY <1>7, <2>1 DEF PublishStartMonitor, disk
<1>8. CASE UnpublishUnregister(c) BY <1>a, <1>e, <1>8 DEF UnpublishUnregister, UnregisterMetricsCollector, disk
<1>9. CASE UnpublishDeleteState(c)
  <2>1. store'[p] = store[p] BY <1>a, <1>9 DEF UnpublishDeleteState
  <2> QED BY <1>e, <1>f, <1>9, <2>1 DEF UnpublishDeleteState, disk
<1>10. CASE UnpublishUnmount(c) BY <1>a, <1>e, <1>10 DEF UnpublishUnmount, memory
<1>11. CASE UnpublishCleanup(c) BY <1>a, <1>e, <1>11 DEF UnpublishCleanup, disk
<1>12. CASE SharedGetPod(c) BY <1>a, <1>e, <1>12 DEF SharedGetPod, memory, disk
<1>13. CASE SharedCheckMounted(c) BY <1>a, <1>e, <1>13 DEF SharedCheckMounted, memory, disk
<1>14. CASE SharedBind(c) BY <1>a, <1>e, <1>14 DEF SharedBind, memory
<1>15. CASE SharedLoadOrStore(c)
  <2>1. store'[p] = store[p] BY <1>a, <1>c, <1>d, <1>15 DEF SharedLoadOrStore, At
  <2> QED BY <1>e, <1>h, <1>15, <2>1 DEF SharedLoadOrStore, disk
<1>16. CASE SharedStartMonitor(c)
  BY <1>g, <1>16 DEF SharedStartMonitor, At, disk
<1>17. CASE SharedRegisterMetrics(c)
  <2>1. <<call[c].uid, Staging(c)>> \in Collectors /\ Staging(c) \in Paths /\ Staging(c) # p
    BY <1>a, <1>c, <1>d, <1>17 DEF SharedRegisterMetrics, At, Collectors, Paths, CallRecord
  <2>2. registry'[p] = registry[p] BY <1>a, <1>17, <2>1, RegisterEffect DEF SharedRegisterMetrics
  <2> QED BY <1>e, <1>17, <2>2 DEF SharedRegisterMetrics, disk
<1>18. CASE StageCheck(c) BY <1>a, <1>e, <1>18 DEF StageCheck
<1>19. CASE StageMount(c) BY <1>a, <1>e, <1>19 DEF StageMount
<1>20. CASE CleanupUnmount(c) BY <1>a, <1>e, <1>20 DEF CleanupUnmount, memory
<1>21. CASE CleanupRemoveDir(c) BY <1>a, <1>e, <1>21 DEF CleanupRemoveDir
<1>22. CASE UnstageLoad(c) BY <1>a, <1>e, <1>22 DEF UnstageLoad, memory, disk
<1>23. CASE UnstageUnregister(c) BY <1>a, <1>e, <1>23 DEF UnstageUnregister, UnregisterMetricsCollector, disk
<1>24. CASE UnstageCancel(c)
  BY <1>f, <1>24 DEF UnstageCancel, disk
<1>25. CASE UnstageDelete(c)
  <2>1. store'[p] = store[p] BY <1>a, <1>25 DEF UnstageDelete
  <2> QED BY <1>e, <1>25, <2>1 DEF UnstageDelete, disk
<1>26. CASE PublishFails(c) BY <1>a, <1>e, <1>26 DEF PublishFails, disk
<1>27. CASE UnpublishFails(c) BY <1>a, <1>e, <1>27 DEF UnpublishFails, disk
<1>28. CASE SharedFails(c) BY <1>a, <1>e, <1>28 DEF SharedFails, disk
<1>29. CASE StageFails(c) BY <1>a, <1>e, <1>29 DEF StageFails, memory, disk
<1>30. CASE StageMountFails(c) BY <1>a, <1>e, <1>30 DEF StageMountFails, memory
<1>31. CASE CleanupFails(c) BY <1>a, <1>e, <1>31 DEF CleanupFails, disk
<1> QED
  BY <1>1, <1>2, <1>3, <1>4, <1>5, <1>6, <1>7, <1>8, <1>9, <1>10, <1>11, <1>12, <1>13,
     <1>14, <1>15, <1>16, <1>17, <1>18, <1>19, <1>20, <1>21, <1>22, <1>23, <1>24,
     <1>25, <1>26, <1>27, <1>28, <1>29, <1>30, <1>31
  DEF HandlerStep, HandlerFails

\* An unpublish finishes what it has begun: its own steps remove one thing after
\* the other, and the lock keeps the handlers of the same path away.
LEMMA UnpublishStep ==
  ASSUME StateInv, UnpublishProgress, Next
  PROVE  UnpublishProgress'
<1>a. /\ call \in [Calls -> CallRecord] /\ heap \in [States -> VolumeState]
      /\ store \in [Paths -> 0..MaxStates] /\ mnt \in [Paths -> Devices]
      /\ registry \in [Paths -> Collectors]
  BY DEF StateInv, TypeOK
<1> DEFINE Kept(d) ==
      /\ call'[d].pc \in {"delete", "unmount", "rmdir"} => registry'[call'[d].path] = NoCollector
      /\ call'[d].pc \in {"unmount", "rmdir"} =>
           /\ store'[call'[d].path] = 0
           /\ \A v \in States : heap'[v].path = call'[d].path => ~Running(v)'
      /\ call'[d].pc = "rmdir" => mnt'[call'[d].path] = NotMounted
<1> SUFFICES ASSUME NEW d \in Calls, call'[d].op = "unpublish",
                    call'[d].pc \in {"delete", "unmount", "rmdir"}
             PROVE  Kept(d)
  BY DEF UnpublishProgress
<1>b. ASSUME call'[d] = call[d], Untouched(call[d].path) PROVE Kept(d)
  BY <1>b DEF UnpublishProgress, Untouched
<1>1. ASSUME NEW c \in Calls, Requests(c) PROVE Kept(d)
  <2>1. PICK op, q : StartOf(c, op, q) BY <1>1, RequestShape DEF StateInv
  <2>2. d # c BY <2>1 DEF StartOf
  <2> QED BY <1>b, <2>1, <2>2 DEF StartOf, Untouched, Running
<1>2. ASSUME NEW c \in Calls, HandlerStep(c) \/ HandlerFails(c), c # d PROVE Kept(d)
  <2>1. StepsOf(c) BY <1>2, HandlerShape DEF StateInv
  <2>2. call'[d] = call[d] /\ InHandler(c) /\ InHandler(d)
    BY <1>2, <2>1 DEF StepsOf, InHandler
  <2>3. call[d].path # call[c].path
    BY <1>2, <2>2 DEF StateInv, LocksExclusive
  <2>4. call[d].path \in Targets \cup SharedTargets
    BY <2>2 DEF StateInv, OpsOnTheirPaths
  <2> QED BY <1>2, <1>b, <2>2, <2>3, <2>4, OthersUntouched
<1>3. ASSUME HandlerStep(d) \/ HandlerFails(d) PROVE Kept(d)
  <2>1. StepsOf(d) BY <1>3, HandlerShape DEF StateInv
  <2>2. call[d].op = "unpublish" /\ call'[d].path = call[d].path /\ call[d].path \in Paths
    BY <2>1 DEF StepsOf, StateInv, OpsOnTheirPaths, Paths
  <2>3. UnpublishUnregister(d) \/ UnpublishDeleteState(d) \/ UnpublishUnmount(d)
    <3>1. ~(UnpublishCleanup(d) \/ UnpublishFails(d))
      BY <1>a DEF UnpublishCleanup, UnpublishFails, Return, CallRecord
    <3> QED BY <1>3, <2>2, <3>1 DEF HandlerStep, HandlerFails, PublishLoadState,
      PublishCheckAccess, PublishRegisterMetrics, PublishCheckMounted, PublishNotNeeded,
      PublishMount, PublishStartMonitor, PublishFails, SharedGetPod, SharedCheckMounted,
      SharedBind, SharedLoadOrStore, SharedStartMonitor, SharedRegisterMetrics, SharedFails,
      StageCheck, StageMount, StageMountFails, StageFails, CleanupUnmount, CleanupRemoveDir,
      CleanupFails, UnstageLoad, UnstageUnregister, UnstageCancel, UnstageDelete, At
  <2>4. CASE UnpublishUnregister(d)
    <3>1. call'[d].pc = "delete" BY <1>a, <2>4 DEF UnpublishUnregister, Goto, CallRecord
    <3> QED BY <1>a, <2>2, <2>4, <3>1 DEF UnpublishUnregister, UnregisterMetricsCollector
  <2>5. CASE UnpublishDeleteState(d)
    <3>1. call'[d].pc = "unmount" /\ call[d].pc = "delete" /\ registry' = registry
      BY <1>a, <2>5 DEF UnpublishDeleteState, Goto, At, CallRecord
    <3>2. registry'[call'[d].path] = NoCollector
      BY <2>2, <3>1 DEF UnpublishProgress
    <3>3. store'[call[d].path] = 0 BY <1>a, <2>2, <2>5 DEF UnpublishDeleteState
    <3>4. ASSUME NEW v \in States, heap'[v].path = call[d].path PROVE ~Running(v)'
      <4>1. call[d].path \in Targets \cup SharedTargets
        BY <2>1, <2>2 DEF StepsOf, StateInv, OpsOnTheirPaths
      <4>2. /\ heap'[v].path = heap[v].path
            /\ Running(v)' => Running(v) /\ v # store[call[d].path]
        <5>1. CASE store[call[d].path] = 0
          BY <2>5, <5>1, ConstantsAssumption DEF UnpublishDeleteState, Running, States
        <5>2. CASE store[call[d].path] # 0
          BY <1>a, <2>5, <5>2 DEF UnpublishDeleteState, CancelMonitor, VolumeState, Running
        <5> QED BY <5>1, <5>2
      <4>3. Running(v) => heap[v].path \in Targets \cup StagingPaths
        BY DEF Running, StateInv, MonitorsHavePaths
      <4> QED BY <3>4, <4>1, <4>2, <4>3, ConstantsAssumption DEF StateInv, TargetMonitorsStoppable
    <3> QED BY <2>2, <3>1, <3>2, <3>3, <3>4
  <2>6. CASE UnpublishUnmount(d)
    <3>1. /\ call'[d].pc = "rmdir" /\ call[d].pc = "unmount"
          /\ registry' = registry /\ store' = store /\ heap' = heap
      BY <1>a, <2>6 DEF UnpublishUnmount, Goto, At, CallRecord, memory
    <3>2. mnt'[call[d].path] = NotMounted BY <1>a, <2>2, <2>6 DEF UnpublishUnmount
    <3> QED BY <2>2, <3>1, <3>2 DEF UnpublishProgress, Running
  <2> QED BY <2>3, <2>4, <2>5, <2>6
<1>4. ASSUME NEW c \in Calls, Reply(c) PROVE Kept(d)
  <2>1. d # c BY <1>a, <1>4 DEF Reply, Idle
  <2> QED BY <1>a, <1>4, <1>b, <2>1 DEF Reply, Untouched, Running, memory, disk
<1>5. ASSUME NEW v \in States, MonitorResolves(v) \/ MonitorStops(v) PROVE Kept(d)
  <2>1. \A w \in States : heap'[w].path = heap[w].path /\ (Running(w)' => Running(w))
    BY <1>a, <1>5 DEF MonitorResolves, MonitorStops, VolumeState, Running
  <2> QED BY <1>5, <1>b, <2>1 DEF MonitorResolves, MonitorStops, Untouched, disk
<1>6. ASSUME NEW s \in StagingPaths, MounterPodStarts(s) \/ MounterPodDies(s) \/ PodListerSyncs(s)
      PROVE  Kept(d)
  <2>1. UNCHANGED <<call, memory>> BY <1>a, <1>6, PodStep
  <2>2. call[d].path \in Targets \cup SharedTargets
    BY <2>1 DEF StateInv, OpsOnTheirPaths, InHandler
  <2>3. mnt'[call[d].path] = mnt[call[d].path] BY <1>a, <1>6, <2>2, PodStep
  <2> QED BY <1>b, <2>1, <2>3 DEF Untouched, Running, memory
<1>7. ~DriverRestart BY DEF DriverRestart, Idle
<1> QED BY <1>1, <1>2, <1>3, <1>4, <1>5, <1>6, <1>7 DEF Next, Environment

\* NodeUnpublishVolume reports success only when no mount, VolumeState,
\* collector or running monitor of the target is left, whatever other calls,
\* republishes and driver restarts interleave.
THEOREM UnpublishCorrect == Spec => []UnpublishLeavesNothing
<1>1. Init => UnpublishProgress BY DEF Init, Idle, UnpublishProgress
<1>2. StateInv /\ UnpublishProgress /\ [Next]_vars => UnpublishProgress'
  <2>1. UnpublishProgress /\ UNCHANGED vars => UnpublishProgress'
    BY DEF UnpublishProgress, vars, server, memory, disk, Running
  <2> QED BY <2>1, UnpublishStep
<1>3. UnpublishProgress => UnpublishLeavesNothing
  BY DEF UnpublishProgress, UnpublishLeavesNothing, At
<1> QED BY <1>1, <1>2, <1>3, StateInvariant, PTL DEF Spec

-----------------------------------------------------------------------------
(***************************************************************************)
(* Which volumes may be monitored.                                         *)
(***************************************************************************)

\* A publish that is past its access check has passed it, or need not.
PublishersChecked ==
  \A c \in Calls :
    /\ call[c].op = "publish" /\ call[c].pc \in {"register", "mounted", "mount", "monitor"}
    /\ ChecksAccess(c)
    => heap[call[c].vs].passed

\* A step keeps what is known of a VolumeState, or has just allocated it.
Keeps(v) ==
  /\ heap'[v].path = heap[v].path
  /\ heap[v].passed => heap'[v].passed
  /\ heap'[v].mon # "none" =>
       \/ heap[v].mon # "none"
       \/ \E c \in Calls : call[c].vs = v /\ At(c, "publish", "monitor")
       \/ \E c \in Calls : call[c].vs = v /\ At(c, "publishShared", "monitor")

Fresh(v) == heap'[v].mon = "none" /\ \A c \in Calls : call[c].vs # v

\* No step forgets a passed access check, and only the last step of a publish
\* starts a monitor.
LEMMA HeapStep ==
  ASSUME StateInv, Next, ~DriverRestart
  PROVE  \A v \in States : Keeps(v) \/ Fresh(v)
<1>a. heap \in [States -> VolumeState] BY DEF StateInv, TypeOK
<1>b. heap' = heap => \A v \in States : Keeps(v) BY DEF Keeps
<1>c. ASSUME NEW w \in States, NEW q, NEW uid, Allocates(w),
             heap' = [heap EXCEPT ![w] = NewVolumeState(q, uid)]
      PROVE  \A v \in States : Keeps(v) \/ Fresh(v)
  <2>1. Fresh(w) BY <1>a, <1>c DEF Fresh, NewVolumeState, Allocates, FreeStates
  <2>2. \A v \in States : v # w => heap'[v] = heap[v] BY <1>a, <1>c
  <2> QED BY <2>1, <2>2 DEF Keeps
<1>d. ASSUME NEW w, CancelMonitor(w) PROVE \A v \in States : Keeps(v)
  BY <1>a, <1>d DEF CancelMonitor, Keeps, VolumeState
<1>e. ASSUME NEW c \in Calls, At(c, "publish", "monitor") \/ At(c, "publishShared", "monitor"),
             StartMonitor(call[c].vs)
      PROVE  \A v \in States : Keeps(v)
  BY <1>a, <1>e DEF StartMonitor, Keeps, VolumeState
<1>1. ASSUME NEW c \in Calls, HandlerStep(c) \/ HandlerFails(c)
      PROVE  \A v \in States : Keeps(v) \/ Fresh(v)
  <2>1. \/ PublishLoadState(c) \/ PublishCheckAccess(c) \/ PublishStartMonitor(c)
        \/ UnpublishDeleteState(c) \/ SharedLoadOrStore(c) \/ SharedStartMonitor(c)
        \/ UnstageCancel(c) \/ heap' = heap
    BY <1>1 DEF HandlerStep, HandlerFails, memory,
      PublishRegisterMetrics, PublishCheckMounted, PublishNotNeeded, PublishMount, PublishFails,
      UnpublishUnregister, UnpublishUnmount, UnpublishCleanup, UnpublishFails,
      SharedGetPod, SharedCheckMounted, SharedBind, SharedRegisterMetrics, SharedFails,
      StageCheck, StageMount, StageMountFails, StageFails, CleanupUnmount, CleanupRemoveDir,
      CleanupFails, UnstageLoad, UnstageUnregister, UnstageDelete
  <2>2. CASE PublishLoadState(c) BY <1>b, <1>c, <2>2 DEF PublishLoadState
  <2>3. CASE PublishCheckAccess(c) BY <1>a, <2>3 DEF PublishCheckAccess, Keeps, VolumeState
  <2>4. CASE PublishStartMonitor(c) BY <1>b, <1>e, <2>4 DEF PublishStartMonitor
  <2>5. CASE UnpublishDeleteState(c) BY <1>b, <1>d, <2>5 DEF UnpublishDeleteState
  <2>6. CASE SharedLoadOrStore(c) BY <1>b, <1>c, <2>6 DEF SharedLoadOrStore
  <2>7. CASE SharedStartMonitor(c) BY <1>e, <2>7 DEF SharedStartMonitor
  <2>8. CASE UnstageCancel(c) BY <1>d, <2>8 DEF UnstageCancel
  <2> QED BY <1>b, <2>1, <2>2, <2>3, <2>4, <2>5, <2>6, <2>7, <2>8
<1>2. ASSUME NEW c \in Calls, Requests(c) PROVE heap' = heap
  BY <1>2, RequestShape DEF StateInv, StartOf
<1>3. ASSUME NEW c \in Calls, Reply(c) PROVE heap' = heap BY <1>3 DEF Reply, memory
<1>4. ASSUME NEW v \in States, MonitorResolves(v) \/ MonitorStops(v)
      PROVE  \A w \in States : Keeps(w)
  BY <1>a, <1>4 DEF MonitorResolves, MonitorStops, Keeps, VolumeState, Running
<1>5. ASSUME NEW q \in StagingPaths, MounterPodStarts(q) \/ MounterPodDies(q) \/ PodListerSyncs(q)
      PROVE  heap' = heap
  BY <1>5 DEF MounterPodStarts, MounterPodDies, PodListerSyncs, memory
<1> QED BY <1>b, <1>1, <1>2, <1>3, <1>4, <1>5 DEF Next, Environment

\* A publish gets past its access check only by that check.
LEMMA PublisherStep ==
  ASSUME StateInv, Next, NEW d \in Calls, call'[d].op = "publish", call'[d].vs # 0,
         call'[d].pc \in {"register", "mounted", "mount", "monitor"}
  PROVE  \/ PublishCheckAccess(d)
         \/ /\ call[d].op = "publish" /\ call[d].pc \in {"register", "mounted", "mount", "monitor"}
            /\ call'[d].vs = call[d].vs /\ call'[d].path = call[d].path
<1>a. call \in [Calls -> CallRecord] BY DEF StateInv, TypeOK
<1>1. ASSUME NEW c \in Calls, Requests(c) PROVE d # c
  BY <1>1, RequestShape DEF StateInv, StartOf
<1>2. ASSUME NEW c \in Calls, HandlerStep(c) \/ HandlerFails(c), c = d
      PROVE \/ PublishCheckAccess(d)
            \/ /\ call[d].op = "publish" /\ call[d].pc \in {"register", "mounted", "mount", "monitor"}
               /\ call'[d].vs = call[d].vs /\ call'[d].path = call[d].path
  <2>1. StepsOf(d) BY <1>2, HandlerShape DEF StateInv
  <2>2. call[d].op = "publish" BY <2>1 DEF StepsOf
  <2>3. \/ PublishLoadState(d) \/ PublishCheckAccess(d) \/ PublishRegisterMetrics(d)
        \/ PublishCheckMounted(d) \/ PublishMount(d)
        \/ PublishNotNeeded(d) \/ PublishStartMonitor(d) \/ PublishFails(d)
    BY <1>2, <2>2 DEF HandlerStep, HandlerFails, At,
      UnpublishUnregister, UnpublishDeleteState, UnpublishUnmount, UnpublishCleanup, UnpublishFails,
      SharedGetPod, SharedCheckMounted, SharedBind, SharedLoadOrStore, SharedStartMonitor,
      SharedRegisterMetrics, SharedFails,
      StageCheck, StageMount, StageMountFails, StageFails, CleanupUnmount, CleanupRemoveDir,
      CleanupFails, UnstageLoad, UnstageUnregister, UnstageCancel, UnstageDelete
  <2>4. ~PublishLoadState(d) BY <1>a DEF PublishLoadState, Goto, CallRecord
  <2>5. ~(PublishNotNeeded(d) \/ PublishStartMonitor(d) \/ PublishFails(d))
    BY <1>a DEF PublishNotNeeded, PublishStartMonitor, PublishFails, Return, CallRecord
  <2>6. ASSUME PublishRegisterMetrics(d) \/ PublishCheckMounted(d) \/ PublishMount(d)
        PROVE  /\ call[d].pc \in {"register", "mounted", "mount", "monitor"}
               /\ call'[d].vs = call[d].vs /\ call'[d].path = call[d].path
    BY <1>a, <2>6 DEF PublishRegisterMetrics, PublishCheckMounted, PublishMount, At, Goto, CallRecord
  <2> QED BY <2>2, <2>3, <2>4, <2>5, <2>6
<1>3. ASSUME NEW c \in Calls, Reply(c) PROVE d # c BY <1>a, <1>3 DEF Reply, Idle
<1>4. ~DriverRestart BY DEF DriverRestart, Idle
<1>5. ASSUME call'[d] = call[d]
      PROVE /\ call[d].op = "publish" /\ call[d].pc \in {"register", "mounted", "mount", "monitor"}
            /\ call'[d].vs = call[d].vs /\ call'[d].path = call[d].path
  BY <1>5
<1>6. ASSUME NEW c \in Calls, Requests(c) \/ HandlerStep(c) \/ HandlerFails(c) \/ Reply(c), c # d
      PROVE  call'[d] = call[d]
  BY <1>a, <1>6, RequestShape, HandlerShape DEF StateInv, StartOf, StepsOf, Reply
<1>7. Environment => call' = call
  BY <1>4 DEF Environment, MonitorResolves, MonitorStops, MounterPodStarts, MounterPodDies,
     PodListerSyncs
<1> QED BY <1>1, <1>2, <1>3, <1>5, <1>6, <1>7 DEF Next

\* Both facts about access checks are kept by every step.
LEMMA CheckedStep ==
  ASSUME StateInv, PublishersChecked, MonitoredVolumesChecked, Next
  PROVE  PublishersChecked' /\ MonitoredVolumesChecked'
<1>a. /\ call \in [Calls -> CallRecord] /\ heap \in [States -> VolumeState]
      /\ \A c \in Calls : call[c].vs # 0 => call[c].vs \in States
  BY ConstantsAssumption DEF StateInv, TypeOK, CallRecord, States
<1>1. CASE DriverRestart
  BY <1>1 DEF DriverRestart, Idle, NewVolumeState, PublishersChecked, MonitoredVolumesChecked
<1>2. CASE ~DriverRestart
  <2>1. \A v \in States : Keeps(v) \/ Fresh(v) BY <1>2, HeapStep
  <2>2. PublishersChecked'
    <3> SUFFICES ASSUME NEW d \in Calls, call'[d].op = "publish", call'[d].vs # 0,
                        call'[d].path \notin SkipCheck,
                        call'[d].pc \in {"register", "mounted", "mount", "monitor"}
                 PROVE  heap'[call'[d].vs].passed
      BY DEF PublishersChecked, ChecksAccess
    <3>1. CASE PublishCheckAccess(d)
      <4>1. call'[d].vs = call[d].vs /\ call'[d].path = call[d].path
        BY <1>a, <3>1 DEF PublishCheckAccess, Goto, CallRecord
      <4>2. ChecksAccess(d) /\ call[d].vs \in States BY <1>a, <4>1 DEF ChecksAccess
      <4> QED BY <1>a, <3>1, <4>1, <4>2 DEF PublishCheckAccess, VolumeState
    <3>2. CASE /\ call[d].op = "publish" /\ call[d].pc \in {"register", "mounted", "mount", "monitor"}
               /\ call'[d].vs = call[d].vs /\ call'[d].path = call[d].path
      BY <1>a, <2>1, <3>2 DEF PublishersChecked, ChecksAccess, Keeps, Fresh
    <3> QED BY <3>1, <3>2, PublisherStep
  <2>3. MonitoredVolumesChecked'
    <3> SUFFICES ASSUME NEW v \in States, heap'[v].mon # "none",
                        heap'[v].path \in Targets \ SkipCheck
                 PROVE  heap'[v].passed
      BY DEF MonitoredVolumesChecked
    <3>1. Keeps(v) BY <2>1 DEF Fresh
    <3>2. CASE heap[v].mon # "none" BY <3>1, <3>2 DEF Keeps, MonitoredVolumesChecked
    <3>3. ASSUME NEW c \in Calls, call[c].vs = v, At(c, "publish", "monitor")
          PROVE  heap'[v].passed
      <4>1. v # 0 BY DEF States
      <4>2. heap[v].path = call[c].path
        BY <3>3, <4>1 DEF At, StateInv, HandlersHoldOwnState
      <4> QED BY <3>1, <3>3, <4>1, <4>2 DEF Keeps, At, PublishersChecked, ChecksAccess
    <3>4. ASSUME NEW c \in Calls, call[c].vs = v, At(c, "publishShared", "monitor") PROVE FALSE
      <4>1. v # 0 BY DEF States
      <4>2. heap[v].path = Staging(c) /\ call[c].path \in SharedTargets
        BY <3>4, <4>1 DEF At, StateInv, HandlersHoldOwnState, OpsOnTheirPaths
      <4> QED BY <3>1, <4>2, ConstantsAssumption DEF Keeps, Staging
    <3> QED BY <3>1, <3>2, <3>3, <3>4 DEF Keeps
  <2> QED BY <2>2, <2>3
<1> QED BY <1>1, <1>2

\* No kernel-params monitor of a sidecar volume was started by a driver process
\* that has not seen the volume's bucket access check pass.
THEOREM MonitoringCorrect == Spec => []MonitoredVolumesChecked
<1>1. Init => PublishersChecked /\ MonitoredVolumesChecked
  BY DEF Init, Idle, NewVolumeState, PublishersChecked, MonitoredVolumesChecked
<1>2. StateInv /\ PublishersChecked /\ MonitoredVolumesChecked /\ [Next]_vars
        => (PublishersChecked /\ MonitoredVolumesChecked)'
  <2>1. PublishersChecked /\ MonitoredVolumesChecked /\ UNCHANGED vars
          => (PublishersChecked /\ MonitoredVolumesChecked)'
    BY DEF PublishersChecked, MonitoredVolumesChecked, ChecksAccess, vars, server, memory
  <2> QED BY <2>1, CheckedStep
<1> QED BY <1>1, <1>2, StateInvariant, PTL DEF Spec

-----------------------------------------------------------------------------
(***************************************************************************)
(* The collector limit.                                                    *)
(***************************************************************************)

\* RegisterMetricsCollector never takes a registry over its limit.
LEMMA RegisterWithinLimit ==
  ASSUME NEW reg \in [Paths -> Collectors], NEW p \in Paths, NEW id \in Collectors,
         MaxCollectors >= 0, Cardinality(Registered(reg)) <= MaxCollectors
  PROVE  Cardinality(Registered(RegisterMetricsCollector(reg, MaxCollectors, p, id)))
           <= MaxCollectors
<1> DEFINE dropped == UnregisterMetricsCollector(reg, p)
<1> DEFINE added == [dropped EXCEPT ![p] = id]
<1>1. /\ dropped \in [Paths -> Collectors] /\ added \in [Paths -> Collectors]
      /\ Registered(dropped) \subseteq Registered(reg)
      /\ Registered(added) \subseteq Registered(dropped) \cup {p}
  BY DEF UnregisterMetricsCollector, Registered, Collectors
<1>2. /\ IsFiniteSet(Registered(reg)) /\ IsFiniteSet(Registered(dropped))
      /\ IsFiniteSet(Registered(dropped) \cup {p})
  <2>1. \A f \in [Paths -> Collectors] : Registered(f) \subseteq Paths BY DEF Registered
  <2>2. IsFiniteSet(Registered(reg)) /\ IsFiniteSet(Registered(dropped))
    BY <1>1, <2>1, FS_Subset, ConstantsAssumption
  <2> QED BY <2>2, FS_AddElement
<1>3. Cardinality(Registered(dropped)) <= Cardinality(Registered(reg))
  BY <1>1, <1>2, FS_Subset
<1>4. Cardinality(Registered(added)) <= Cardinality(Registered(dropped)) + 1
  <2>1. Cardinality(Registered(added)) <= Cardinality(Registered(dropped) \cup {p})
    BY <1>1, <1>2, FS_Subset
  <2>2. Cardinality(Registered(dropped) \cup {p}) \in
          {Cardinality(Registered(dropped)), Cardinality(Registered(dropped)) + 1}
    BY <1>2, FS_AddElement
  <2>3. Cardinality(Registered(dropped)) \in Nat /\ Cardinality(Registered(added)) \in Nat
    BY <1>1, <1>2, FS_CardinalityType, FS_Subset
  <2> QED BY <2>1, <2>2, <2>3
<1>5. /\ Cardinality(Registered(reg)) \in Nat /\ Cardinality(Registered(dropped)) \in Nat
      /\ Cardinality(Registered(added)) \in Nat
  BY <1>1, <1>2, FS_CardinalityType, FS_Subset
<1>6. RegisterMetricsCollector(reg, MaxCollectors, p, id) \in {reg, dropped, added}
  BY DEF RegisterMetricsCollector
<1>7. ASSUME RegisterMetricsCollector(reg, MaxCollectors, p, id) = added,
             added # dropped, added # reg
      PROVE  Cardinality(Registered(dropped)) < MaxCollectors
  <2>1. MaxCollectors # 0 /\ ~(MaxCollectors > 0 /\ Cardinality(Registered(dropped)) >= MaxCollectors)
    BY <1>7 DEF RegisterMetricsCollector
  <2> QED BY <1>5, <2>1, ConstantsAssumption
<1> HIDE DEF dropped, added
<1> QED BY <1>3, <1>4, <1>5, <1>6, <1>7, ConstantsAssumption

\* The number of metrics collectors never exceeds the limit of the node.
THEOREM CollectorsBounded == Spec => []CollectorLimit
<1>1. Init => CollectorLimit
  <2> SUFFICES ASSUME Init, MaxCollectors >= 0
               PROVE  Cardinality(Registered(registry)) <= MaxCollectors
    BY DEF CollectorLimit
  <2>1. Registered(registry) = {} BY DEF Init, Registered
  <2> QED BY <2>1, FS_EmptySet, ConstantsAssumption
<1>2. StateInv /\ CollectorLimit /\ [Next]_vars => CollectorLimit'
  <2> SUFFICES ASSUME StateInv, CollectorLimit, [Next]_vars, MaxCollectors >= 0
               PROVE  Cardinality(Registered(registry')) <= MaxCollectors
    BY DEF CollectorLimit
  <2>a. registry \in [Paths -> Collectors] /\ Cardinality(Registered(registry)) <= MaxCollectors
    BY DEF StateInv, TypeOK, CollectorLimit
  <2>b. \/ registry' = registry
        \/ \E p \in Paths : registry' = UnregisterMetricsCollector(registry, p)
        \/ \E p \in Paths, id \in Collectors :
             registry' = RegisterMetricsCollector(registry, MaxCollectors, p, id)
        \/ registry' = [p \in Paths |-> NoCollector]
    <3>1. ASSUME NEW c \in Calls, PublishRegisterMetrics(c)
          PROVE  call[c].path \in Paths /\ <<0, call[c].path>> \in Collectors
      BY <3>1, ConstantsAssumption DEF PublishRegisterMetrics, At, InHandler, StateInv,
         OpsOnTheirPaths, Paths, Collectors
    <3>2. ASSUME NEW c \in Calls, SharedRegisterMetrics(c)
          PROVE  Staging(c) \in Paths /\ <<call[c].uid, Staging(c)>> \in Collectors
      <4>1. Staging(c) \in Paths
        BY <3>2, ConstantsAssumption DEF SharedRegisterMetrics, At, InHandler, StateInv,
           OpsOnTheirPaths, Paths, Staging
      <4>2. call[c].uid \in 0..MaxPods BY DEF StateInv, TypeOK, CallRecord
      <4> QED BY <4>1, <4>2 DEF Collectors
    <3>3. ASSUME NEW c \in Calls, HandlerStep(c) \/ HandlerFails(c)
          PROVE  \/ PublishRegisterMetrics(c) \/ SharedRegisterMetrics(c)
                 \/ UnpublishUnregister(c) \/ UnstageUnregister(c) \/ registry' = registry
      BY <3>3 DEF HandlerStep, HandlerFails, memory,
        PublishLoadState, PublishCheckAccess, PublishCheckMounted, PublishNotNeeded, PublishMount,
        PublishStartMonitor, PublishFails, UnpublishDeleteState, UnpublishUnmount, UnpublishCleanup,
        UnpublishFails, SharedGetPod, SharedCheckMounted, SharedBind, SharedLoadOrStore,
        SharedStartMonitor, SharedFails, StageCheck, StageMount, StageMountFails, StageFails,
        CleanupUnmount, CleanupRemoveDir, CleanupFails, UnstageLoad, UnstageCancel, UnstageDelete
    <3>4. ASSUME NEW c \in Calls, UnpublishUnregister(c) \/ UnstageUnregister(c)
          PROVE  /\ call[c].path \in Paths
                 /\ registry' = UnregisterMetricsCollector(registry, call[c].path)
      BY <3>4 DEF UnpublishUnregister, UnstageUnregister, At, InHandler, StateInv,
         OpsOnTheirPaths, Paths
    <3>5. ASSUME NEW c \in Calls, Requests(c) \/ Reply(c) PROVE registry' = registry
      BY <3>5, RequestShape DEF StateInv, StartOf, Reply, memory
    <3>6. Environment => registry' = registry \/ registry' = [p \in Paths |-> NoCollector]
      BY DEF Environment, MonitorResolves, MonitorStops, MounterPodStarts, MounterPodDies,
         PodListerSyncs, DriverRestart, memory
    <3>7. CASE Next
      BY <3>1, <3>2, <3>3, <3>4, <3>5, <3>6, <3>7 DEF Next, PublishRegisterMetrics,
         SharedRegisterMetrics
    <3> QED BY <3>7 DEF vars, server, memory
  <2>1. ASSUME NEW p \in Paths, registry' = UnregisterMetricsCollector(registry, p)
        PROVE  Cardinality(Registered(registry')) <= MaxCollectors
    <3>1. Registered(registry') \subseteq Registered(registry)
      BY <2>a, <2>1 DEF Registered, UnregisterMetricsCollector
    <3>2. Registered(registry) \subseteq Paths BY <2>a DEF Registered
    <3>3. IsFiniteSet(Registered(registry)) BY <3>2, FS_Subset, ConstantsAssumption
    <3>4. /\ Cardinality(Registered(registry')) <= Cardinality(Registered(registry))
          /\ IsFiniteSet(Registered(registry'))
      BY <3>1, <3>3, FS_Subset
    <3>5. Cardinality(Registered(registry)) \in Nat /\ Cardinality(Registered(registry')) \in Nat
      BY <3>3, <3>4, FS_CardinalityType
    <3> QED BY <2>a, <3>4, <3>5, ConstantsAssumption
  <2>2. ASSUME registry' = [p \in Paths |-> NoCollector]
        PROVE  Cardinality(Registered(registry')) <= MaxCollectors
    <3>1. Registered(registry') = {} BY <2>2 DEF Registered
    <3> QED BY <3>1, FS_EmptySet, ConstantsAssumption
  <2> QED BY <2>a, <2>b, <2>1, <2>2, RegisterWithinLimit
<1> QED BY <1>1, <1>2, StateInvariant, PTL DEF Spec

-----------------------------------------------------------------------------
(***************************************************************************)
(* The counter of the store.                                               *)
(***************************************************************************)

Stored(f) == {p \in Paths : f[p] # 0}

\* What NodeUnstageVolume has loaded is still in the store when it deletes it.
UnstageHolds ==
  \A c \in Calls :
    call[c].op = "unstage" /\ call[c].pc \in {"unregister", "cancel", "delete"}
      => store[call[c].path] # 0

\* The ways a step changes the store and its counter.
CountedStep ==
  \/ store' = store /\ size' = size
  \/ /\ \E p \in Paths, v \in States : store[p] = 0 /\ store' = [store EXCEPT ![p] = v]
     /\ size' = size + 1
  \/ /\ \E p \in Paths : store[p] # 0 /\ store' = [store EXCEPT ![p] = 0]
     /\ size' = size - 1
  \/ store' = [p \in Paths |-> 0] /\ size' = 0

\* Four steps of the handlers write the store and its counter.
LEMMA StoreWriters ==
  ASSUME NEW c \in Calls, HandlerStep(c) \/ HandlerFails(c)
  PROVE  \/ PublishLoadState(c) \/ SharedLoadOrStore(c)
         \/ UnpublishDeleteState(c) \/ UnstageDelete(c)
         \/ UNCHANGED <<store, size>>
<1>1. CASE \/ PublishCheckAccess(c) \/ PublishRegisterMetrics(c) \/ PublishCheckMounted(c)
           \/ PublishNotNeeded(c) \/ PublishMount(c) \/ PublishStartMonitor(c)
           \/ UnpublishUnregister(c) \/ UnpublishUnmount(c) \/ UnpublishCleanup(c)
  BY <1>1 DEF PublishCheckAccess, PublishRegisterMetrics, PublishCheckMounted,
     PublishNotNeeded, PublishMount, PublishStartMonitor, UnpublishUnregister,
     UnpublishUnmount, UnpublishCleanup, memory
<1>2. CASE \/ SharedGetPod(c) \/ SharedCheckMounted(c) \/ SharedBind(c)
           \/ SharedStartMonitor(c) \/ SharedRegisterMetrics(c)
           \/ StageCheck(c) \/ StageMount(c) \/ CleanupUnmount(c) \/ CleanupRemoveDir(c)
           \/ UnstageLoad(c) \/ UnstageUnregister(c) \/ UnstageCancel(c)
  BY <1>2 DEF SharedGetPod, SharedCheckMounted, SharedBind, SharedStartMonitor,
     SharedRegisterMetrics, StageCheck, StageMount, CleanupUnmount, CleanupRemoveDir,
     UnstageLoad, UnstageUnregister, UnstageCancel, memory
<1>3. CASE HandlerFails(c)
  BY <1>3 DEF HandlerFails, PublishFails, UnpublishFails, SharedFails, StageFails,
     StageMountFails, CleanupFails, memory
<1> QED BY <1>1, <1>2, <1>3 DEF HandlerStep

\* Load followed by Store or Delete is counted once, because the lock of the
\* path, or the atomic LoadOrStore, leaves no room for another call in between.
LEMMA StepsCounted ==
  ASSUME StateInv, UnstageHolds, Next
  PROVE  CountedStep
<1>1. ASSUME NEW c \in Calls, Requests(c) \/ Reply(c) PROVE CountedStep
  BY <1>1, RequestShape DEF StateInv, StartOf, Reply, memory, CountedStep
<1>2. ASSUME NEW c \in Calls, HandlerStep(c) \/ HandlerFails(c) PROVE CountedStep
  <2>a. InHandler(c) BY <1>2, HandlerShape DEF StateInv, StepsOf
  <2>b. /\ call[c].path \in Paths
        /\ call[c].op = "publishShared" => Staging(c) \in Paths
    BY <2>a, ConstantsAssumption DEF StateInv, OpsOnTheirPaths, Staging, Paths
  <2>1. CASE PublishLoadState(c)
    BY <2>1, <2>b DEF PublishLoadState, CountedStep
  <2>2. CASE SharedLoadOrStore(c)
    BY <2>2, <2>b DEF SharedLoadOrStore, At, CountedStep
  <2>3. CASE UnpublishDeleteState(c)
    BY <2>3, <2>b DEF UnpublishDeleteState, CountedStep
  <2>4. CASE UnstageDelete(c)
    BY <2>4, <2>b DEF UnstageDelete, At, UnstageHolds, CountedStep
  <2>5. CASE UNCHANGED <<store, size>> BY <2>5 DEF CountedStep
  <2> QED BY <1>2, <2>1, <2>2, <2>3, <2>4, <2>5, StoreWriters
<1>3. Environment => CountedStep
  BY DEF Environment, MonitorResolves, MonitorStops, MounterPodStarts, MounterPodDies,
     PodListerSyncs, DriverRestart, memory, CountedStep
<1> QED BY <1>1, <1>2, <1>3 DEF Next

\* Only an unstage of the path itself removes a staging path from the store.
LEMMA UnstageHoldsStep ==
  ASSUME StateInv, UnstageHolds, Next
  PROVE  UnstageHolds'
<1>a. /\ call \in [Calls -> CallRecord] /\ store \in [Paths -> 0..MaxStates]
      /\ 0 \notin States
  BY DEF StateInv, TypeOK, States
<1>1. ASSUME NEW c \in Calls, Requests(c) PROVE UnstageHolds'
  <2>1. /\ store' = store /\ \A d \in Calls : d # c => call'[d] = call[d]
        /\ call'[c].op = "unstage" => call'[c].pc \in {"load", "done"}
    <3>1. store' = store /\ \A d \in Calls : d # c => call'[d] = call[d]
      BY <1>1, RequestShape DEF StateInv, StartOf
    <3>2. call'[c].op = "unstage" => call'[c].pc \in {"load", "done"}
      <4>1. ASSUME NEW op, NEW p, NEW first, Begin(c, op, p, first)
            PROVE  call'[c].op = op /\ call'[c].pc \in {first, "done"}
        BY <1>a, <4>1 DEF Begin, Idle
      <4> QED BY <1>1, <4>1 DEF Requests, NodePublishVolume, NodePublishVolumeForSharedMount,
                 NodeUnpublishVolume, NodeStageVolume, NodeUnstageVolume
    <3> QED BY <3>1, <3>2
  <2> QED BY <2>1 DEF UnstageHolds
<1>2. ASSUME NEW c \in Calls, Reply(c) PROVE UnstageHolds'
  BY <1>2, <1>a DEF Reply, Idle, memory, UnstageHolds
<1>3. ASSUME NEW c \in Calls, HandlerStep(c) \/ HandlerFails(c) PROVE UnstageHolds'
  <2>a. StepsOf(c) BY <1>3, HandlerShape DEF StateInv
  <2>b. ASSUME NEW d \in Calls, call[d].op = "unstage",
               call[d].pc \in {"unregister", "cancel", "delete"}
        PROVE  store'[call[d].path] # 0 \/ d = c
    <3>1. /\ call[d].path \in StagingPaths /\ call[d].path \in Paths
          /\ store[call[d].path] # 0
      BY <2>b DEF StateInv, OpsOnTheirPaths, InHandler, UnstageHolds, Paths
    <3>2. d # c => call[d].path # call[c].path
      BY <2>a, <2>b DEF StateInv, LocksExclusive, StepsOf, InHandler
    <3>3. CASE PublishLoadState(c) \/ SharedLoadOrStore(c)
      <4>1. \/ store' = store
            \/ \E p, v : v \in States /\ store[p] = 0 /\ store' = [store EXCEPT ![p] = v]
        BY <3>3 DEF PublishLoadState, SharedLoadOrStore
      <4> QED BY <1>a, <3>1, <4>1
    <3>4. CASE UnpublishDeleteState(c)
      <4>1. call[c].path # call[d].path
        BY <2>a, <3>1, <3>4, ConstantsAssumption DEF UnpublishDeleteState, At, StateInv,
           OpsOnTheirPaths, StepsOf
      <4> QED BY <1>a, <3>1, <3>4, <4>1 DEF UnpublishDeleteState
    <3>5. CASE UnstageDelete(c)
      BY <1>a, <3>1, <3>2, <3>5 DEF UnstageDelete
    <3> QED BY <1>3, <3>1, <3>3, <3>4, <3>5, StoreWriters
  <2>c. call'[c].op = "unstage" /\ call'[c].pc \in {"unregister", "cancel", "delete"}
          => store'[call'[c].path] # 0
    <3>1. call'[c].op = call[c].op /\ call'[c].path = call[c].path BY <2>a DEF StepsOf
    <3>2. CASE call[c].op # "unstage" BY <3>1, <3>2
    <3>3. CASE call[c].op = "unstage"
      <4>1. \/ UnstageLoad(c) \/ UnstageUnregister(c) \/ UnstageCancel(c) \/ UnstageDelete(c)
            \/ CleanupUnmount(c) \/ CleanupRemoveDir(c) \/ CleanupFails(c)
        BY <1>3, <3>3 DEF HandlerStep, HandlerFails, At, PublishLoadState, SharedLoadOrStore,
          PublishCheckAccess, PublishRegisterMetrics, PublishCheckMounted, PublishNotNeeded,
          PublishMount, PublishStartMonitor, PublishFails, UnpublishUnregister,
          UnpublishDeleteState, UnpublishUnmount, UnpublishCleanup, UnpublishFails, SharedGetPod,
          SharedCheckMounted, SharedBind, SharedStartMonitor, SharedRegisterMetrics, SharedFails,
          StageCheck, StageMount, StageMountFails, StageFails
      <4>2. CASE UnstageLoad(c)
        BY <1>a, <3>1, <4>2 DEF UnstageLoad, memory
      <4>3. CASE UnstageUnregister(c) \/ UnstageCancel(c)
        BY <3>1, <3>3, <4>3 DEF UnstageUnregister, UnstageCancel, At, UnstageHolds
      <4>4. CASE UnstageDelete(c)
        BY <1>a, <4>4 DEF UnstageDelete
      <4>5. CASE CleanupUnmount(c) \/ CleanupRemoveDir(c) \/ CleanupFails(c)
        <5>1. Goto(c, "rmdir") \/ (\E code : Return(c, code))
          BY <4>5 DEF CleanupUnmount, CleanupRemoveDir, CleanupFails
        <5>2. Goto(c, "rmdir") => call'[c].pc = "rmdir" BY <1>a DEF Goto, CallRecord
        <5>3. ASSUME NEW code, Return(c, code) PROVE call'[c].pc = "done"
          BY <1>a, <5>3 DEF Return, CallRecord
        <5> QED BY <5>1, <5>2, <5>3
      <4> QED BY <4>1, <4>2, <4>3, <4>4, <4>5
    <3> QED BY <3>2, <3>3
  <2> QED BY <2>a, <2>b, <2>c DEF UnstageHolds, StepsOf
<1>4. ASSUME Environment PROVE UnstageHolds'
  <2>1. UNCHANGED <<call, store>> \/ DriverRestart
    BY <1>4 DEF Environment, MonitorResolves, MonitorStops, MounterPodStarts, MounterPodDies,
       PodListerSyncs, memory
  <2>2. CASE UNCHANGED <<call, store>> BY <2>2 DEF UnstageHolds
  <2>3. CASE DriverRestart BY <2>3 DEF DriverRestart, Idle, UnstageHolds
  <2> QED BY <2>1, <2>2, <2>3
<1> QED BY <1>1, <1>2, <1>3, <1>4 DEF Next

\* VolumeStateStore.size always is the number of entries of the store, although
\* Load, Store and Delete are separate steps of concurrent handlers.
THEOREM SizeCorrect == Spec => []SizeIsCount
<1> DEFINE Counted == UnstageHolds /\ SizeIsCount
<1>1. Init => Counted
  <2> SUFFICES ASSUME Init PROVE Counted OBVIOUS
  <2>1. Stored(store) = {} BY DEF Init, Stored
  <2>2. SizeIsCount BY <2>1, FS_EmptySet DEF Init, SizeIsCount, Stored
  <2> QED BY <2>2 DEF Init, Idle, UnstageHolds
<1>2. StateInv /\ Counted /\ [Next]_vars => Counted'
  <2> SUFFICES ASSUME StateInv, Counted, [Next]_vars PROVE Counted' OBVIOUS
  <2>1. CASE UNCHANGED vars
    BY <2>1 DEF vars, server, memory, UnstageHolds, SizeIsCount
  <2>2. CASE Next
    <3>1. CountedStep BY <2>2, StepsCounted
    <3>2. store \in [Paths -> 0..MaxStates] /\ 0 \notin States
      BY DEF StateInv, TypeOK, States
    <3>3. /\ IsFiniteSet(Stored(store)) /\ Cardinality(Stored(store)) \in Nat
          /\ size = Cardinality(Stored(store))
      <4>1. Stored(store) \subseteq Paths BY DEF Stored
      <4>2. IsFiniteSet(Stored(store)) BY <4>1, FS_Subset, ConstantsAssumption
      <4> QED BY <4>2, FS_CardinalityType DEF SizeIsCount, Stored
    <3>a. size' = Cardinality(Stored(store')) => SizeIsCount' BY DEF SizeIsCount, Stored
    <3>4. ASSUME store' = store, size' = size PROVE SizeIsCount'
      <4>1. Stored(store') = Stored(store) BY <3>4
      <4>2. size' = Cardinality(Stored(store')) BY <3>3, <3>4, <4>1
      <4> QED BY <3>a, <4>2
    <3>5. ASSUME NEW p \in Paths, NEW v \in States, store[p] = 0,
                 store' = [store EXCEPT ![p] = v], size' = size + 1
          PROVE  SizeIsCount'
      <4>1. Stored(store') = Stored(store) \cup {p} /\ p \notin Stored(store)
        BY <3>2, <3>5 DEF Stored
      <4>2. Cardinality(Stored(store')) = Cardinality(Stored(store)) + 1
        BY <3>3, <4>1, FS_AddElement
      <4> QED BY <3>3, <3>5, <4>2 DEF SizeIsCount, Stored
    <3>6. ASSUME NEW p \in Paths, store[p] # 0,
                 store' = [store EXCEPT ![p] = 0], size' = size - 1
          PROVE  SizeIsCount'
      <4>1. Stored(store') = Stored(store) \ {p} /\ p \in Stored(store)
        BY <3>2, <3>6 DEF Stored
      <4>2. Cardinality(Stored(store')) = Cardinality(Stored(store)) - 1
        BY <3>3, <4>1, FS_RemoveElement
      <4> QED BY <3>3, <3>6, <4>2 DEF SizeIsCount, Stored
    <3>7. ASSUME store' = [p \in Paths |-> 0], size' = 0 PROVE SizeIsCount'
      <4>1. Stored(store') = {} BY <3>7 DEF Stored
      <4>2. size' = Cardinality(Stored(store')) BY <3>7, <4>1, FS_EmptySet
      <4> QED BY <3>a, <4>2
    <3>8. SizeIsCount' BY <3>1, <3>4, <3>5, <3>6, <3>7 DEF CountedStep
    <3> QED BY <2>2, <3>8, UnstageHoldsStep
  <2> QED BY <2>1, <2>2
<1> QED BY <1>1, <1>2, StateInvariant, PTL DEF Spec

=============================================================================
