------------------------- MODULE StagedMountProofs --------------------------
(***************************************************************************)
(* The host's max_pages_limit survives any number of volumes staged at the *)
(* same time, whatever becomes of their Mount calls.                       *)
(***************************************************************************)
EXTENDS StagedMount, TLAPS

Saved(v) == handler[v].saved

Phases == {"idle", "limit", "mount", "rpc", "cleanup", "remove"}

\* A handler has a limit to restore only while it holds fuseMaxMaxPagesMu and its
\* mount is under way; the limit to restore is the host's, and so is the current
\* one when there is none to restore.
LimitInv ==
  /\ handler \in [Volumes -> [pc : Phases, saved : Nat]]
  /\ limit \in Nat
  /\ \A v \in Volumes : Saved(v) # 0 => limitMu = v /\ handler[v].pc \in {"mount", "rpc"}
  /\ ~leaked => \A v \in Volumes : Saved(v) \in {0, HostLimit}
  /\ ~leaked /\ (\A v \in Volumes : Saved(v) = 0) => limit = HostLimit

-----------------------------------------------------------------------------

\* A handler without a limit to restore goes on and leaves the limit alone.
LEMMA HandlerMoves ==
  ASSUME LimitInv, NEW v \in Volumes, NEW pc \in Phases, Goto(v, pc), Saved(v) = 0,
         UNCHANGED host
  PROVE  LimitInv'
<1>1. handler' \in [Volumes -> [pc : Phases, saved : Nat]] BY DEF LimitInv, Goto
<1>2. \A u \in Volumes : Saved(u)' = Saved(u) /\ (u # v => handler'[u] = handler[u])
  BY DEF LimitInv, Goto, Saved
<1> QED BY <1>1, <1>2 DEF LimitInv, host, Saved

\* MountUsingElevatedFuseMaxPagesLimit raises the limit from the host's own,
\* because nobody else has raised it while the mutex is free.
LEMMA RaiseKeeps ==
  ASSUME LimitInv, NEW v \in Volumes, RaiseLimit(v)
  PROVE  LimitInv'
<1>1. \A u \in Volumes : Saved(u) = 0
  BY StagedMountAssumption DEF LimitInv, RaiseLimit
<1>2. ~leaked => limit = HostLimit BY <1>1 DEF LimitInv
<1>3. CASE /\ limit < Target[v] /\ limit' = Target[v]
           /\ handler' = [handler EXCEPT ![v] = [pc |-> "mount", saved |-> limit]]
  <2>1. handler' \in [Volumes -> [pc : Phases, saved : Nat]] BY <1>3 DEF LimitInv, Phases
  <2>2. handler'[v] = [pc |-> "mount", saved |-> limit] BY <1>3 DEF LimitInv
  <2>3. \A u \in Volumes : u # v => handler'[u] = handler[u] BY <1>3 DEF LimitInv
  <2>4. limit' \in Nat /\ limitMu' = v /\ leaked' = leaked
    BY <1>3, StagedMountAssumption DEF RaiseLimit
  <2>5. Saved(v)' = limit /\ \A u \in Volumes : u # v => Saved(u)' = 0
    BY <1>1, <2>2, <2>3 DEF Saved
  <2>6. ~leaked => Saved(v)' = HostLimit /\ HostLimit # 0
    BY <1>2, <2>5, StagedMountAssumption
  <2> QED BY <2>1, <2>2, <2>4, <2>5, <2>6 DEF LimitInv
<1>4. CASE UNCHANGED limit /\ Goto(v, "mount")
  <2>1. handler' \in [Volumes -> [pc : Phases, saved : Nat]] BY <1>4 DEF LimitInv, Goto, Phases
  <2>2. \A u \in Volumes : Saved(u)' = 0 BY <1>1, <1>4 DEF LimitInv, Goto, Saved
  <2> QED BY <1>2, <1>4, <2>1, <2>2 DEF LimitInv, RaiseLimit
<1> QED BY <1>3, <1>4 DEF RaiseLimit

\* The deferred restore and unlock put the host's limit back, unless the write
\* fails.
LEMMA ReturnKeeps ==
  ASSUME LimitInv, NEW v \in Volumes, NEW ok \in BOOLEAN, StageReturn(v, ok)
  PROVE  LimitInv'
<1>1. handler' \in [Volumes -> [pc : Phases, saved : Nat]]
  BY DEF LimitInv, StageReturn, Goto, Phases
<1>2. Saved(v)' = 0 /\ \A u \in Volumes : u # v => handler'[u] = handler[u]
  BY DEF LimitInv, StageReturn, Goto, Saved
<1>3. \A u \in Volumes : u # v => Saved(u)' = Saved(u) BY <1>2 DEF Saved
<1>4. \A u \in Volumes : Saved(u) # 0 /\ u # v => limitMu' = u
  BY DEF LimitInv, StageReturn, RestoreLimit, UnlockLimit
<1>5. \A u \in Volumes :
        Saved(u)' # 0 => limitMu' = u /\ handler'[u].pc \in {"mount", "rpc"}
  BY <1>2, <1>3, <1>4 DEF LimitInv
<1>6. CASE limit' = (IF Saved(v) # 0 THEN Saved(v) ELSE limit) /\ leaked' = leaked
  <2>1. limit' \in Nat BY <1>6 DEF LimitInv, Saved
  <2>2. ASSUME ~leaked, \A u \in Volumes : Saved(u)' = 0 PROVE limit' = HostLimit
    BY <1>3, <1>6, <2>2 DEF LimitInv
  <2> QED BY <1>1, <1>2, <1>3, <1>5, <1>6, <2>1, <2>2 DEF LimitInv
<1>7. CASE leaked' = TRUE /\ limit' = limit
  BY <1>1, <1>5, <1>7 DEF LimitInv
<1> QED BY <1>6, <1>7 DEF StageReturn, RestoreLimit, Saved

\* Every step keeps the invariant.
LEMMA LimitStep == LimitInv /\ [Next]_vars => LimitInv'
<1> SUFFICES ASSUME LimitInv, [Next]_vars PROVE LimitInv' OBVIOUS
<1>a. ASSUME UNCHANGED <<handler, host>> PROVE LimitInv'
  BY <1>a DEF LimitInv, host, Saved
<1>1. ASSUME NEW v \in Volumes, Kubelet(v) PROVE LimitInv'
  <2>1. CASE StageAlreadyMounted(v) BY <1>a, <2>1 DEF StageAlreadyMounted
  <2>2. Kubelet(v) => Saved(v) = 0
    BY DEF Kubelet, StageAlreadyMounted, StagePrepare, StageFails, NodeUnstageVolume, At, LimitInv
  <2>3. CASE StagePrepare(v) \/ StageFails(v) \/ NodeUnstageVolume(v)
    <3>1. PICK pc \in Phases : Goto(v, pc)
      BY <2>3 DEF StagePrepare, StageFails, NodeUnstageVolume, Phases
    <3> QED BY <1>1, <2>2, <2>3, <3>1, HandlerMoves
            DEF StagePrepare, StageFails, NodeUnstageVolume
  <2> QED BY <1>1, <2>1, <2>3 DEF Kubelet
<1>2. ASSUME NEW v \in Volumes, RaiseLimit(v) PROVE LimitInv' BY <1>2, RaiseKeeps
<1>3. ASSUME NEW v \in Volumes, SendMount(v) PROVE LimitInv'
  <2>1. handler' \in [Volumes -> [pc : Phases, saved : Nat]] BY <1>3 DEF LimitInv, SendMount, Phases
  <2>2. /\ \A u \in Volumes : Saved(u)' = Saved(u)
        /\ handler'[v].pc = "rpc" /\ \A u \in Volumes : u # v => handler'[u] = handler[u]
    BY <1>3 DEF LimitInv, SendMount, Saved
  <2> QED BY <1>3, <2>1, <2>2 DEF LimitInv, SendMount, host
<1>4. ASSUME NEW v \in Volumes, MountFails(v) \/ MountAnswered(v) \/ MountTimesOut(v)
      PROVE  LimitInv'
  BY <1>4, ReturnKeeps DEF MountFails, MountAnswered, MountTimesOut
<1>5. ASSUME NEW v \in Volumes, CleanupUnmount(v) \/ CleanupMountPoint(v) PROVE LimitInv'
  <2>1. Saved(v) = 0 BY <1>5 DEF CleanupUnmount, CleanupMountPoint, At, LimitInv
  <2>2. PICK pc \in Phases : Goto(v, pc)
    BY <1>5 DEF CleanupUnmount, CleanupMountPoint, Return, Phases
  <2> QED BY <1>5, <2>1, <2>2, HandlerMoves DEF CleanupUnmount, CleanupMountPoint
<1>6. ASSUME NEW v \in Volumes, NEW a, ServerStep(v, a) \/ GcsfuseStep(v, a) PROVE LimitInv'
  BY <1>6, <1>a DEF ServerStep, GcsfuseStep, PathMounted, PathNotMounted, forceKillCmd,
     GcsfuseMounts, GcsfuseExits
<1>7. ASSUME NEW v \in Volumes, MounterPodStops(v) PROVE LimitInv'
  BY <1>7, <1>a DEF MounterPodStops
<1>8. CASE DriverRestart
  <2>1. /\ handler' \in [Volumes -> [pc : Phases, saved : Nat]]
        /\ \A u \in Volumes : Saved(u)' = 0
    BY <1>8 DEF DriverRestart, Idle, Saved, Phases
  <2>2. /\ limit' = limit
        /\ ~leaked' => ~leaked /\ \A u \in Volumes : Saved(u) = 0
    BY <1>8 DEF DriverRestart, Saved
  <2> QED BY <2>1, <2>2 DEF LimitInv
<1>9. CASE UNCHANGED vars BY <1>a, <1>9 DEF vars
<1> QED BY <1>1, <1>2, <1>3, <1>4, <1>5, <1>6, <1>7, <1>8, <1>9 DEF Next, HandlerStep

\* The host's max_pages_limit is its own again whenever no stage holds the mutex
\* of MountUsingElevatedFuseMaxPagesLimit, for any volumes, limits and attempts:
\* success, failure, timeout or a dead server, as long as no restoring write
\* fails and the driver does not die in between.
THEOREM LimitAlwaysRestored == Spec => []LimitRestored
<1>1. Init => LimitInv
  BY StagedMountAssumption DEF Init, Idle, LimitInv, Saved, Phases
<1>2. LimitInv => LimitRestored
  <2>1. LimitInv /\ limitMu = NoVolume => \A v \in Volumes : Saved(v) = 0
    BY StagedMountAssumption DEF LimitInv
  <2> QED BY <2>1 DEF LimitInv, LimitRestored
<1> QED BY <1>1, <1>2, LimitStep, PTL DEF Spec
=============================================================================
