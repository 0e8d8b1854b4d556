---------------------------- MODULE StagedMount -----------------------------
(***************************************************************************)
(* Staging a shared mount: NodeStageVolume and NodeUnstageVolume of the    *)
(* driver (pkg/csi_driver/node.go), the Mount call they send to the server *)
(* in the mounter Pod (pkg/sidecar_mounter/mounter_server.go, MountToNode  *)
(* of sidecar_mounter.go), the gcsfuse processes that the server starts,   *)
(* and the host's FUSE max_pages_limit that the driver raises around the   *)
(* call (pkg/util/kernel_params_monitoring.go).  Kubelet retries a call    *)
(* that failed; a call that times out leaves the server at work.           *)
(***************************************************************************)
EXTENDS Naturals, Sequences

CONSTANTS
  Volumes,       \* volumes, each with its staging path and mounter Pod
  Target,        \* the limit a volume is mounted with; 0: the limit is left alone
  HostLimit,     \* max_pages_limit of the host
  NoVolume,
  MaxAttempts,   \* bound: Mount calls of each volume
  MaxFaults      \* bound: deaths of the driver and limits that cannot be restored

ASSUME StagedMountAssumption ==
  /\ Target \in [Volumes -> Nat] /\ HostLimit \in Nat \ {0}
  /\ NoVolume \notin Volumes
  /\ MaxAttempts \in [Volumes -> Nat] /\ MaxFaults \in Nat

VARIABLES
  handler,   \* the handler that holds the volume lock of the staging path
  staged,    \* NodeStageVolume was answered with success
  dir,       \* the staging path exists
  mounts,    \* what is mounted on it, the newest mount last
  gcsfuse,   \* per volume, the gcsfuse processes with their Mount calls
  pod,       \* the mounter Pod has not been told to stop
  limit,     \* max_pages_limit
  limitMu,   \* the handler that holds fuseMaxMaxPagesMu
  leaked,    \* the limit was not restored: a write failed, or the driver died
  faults

path   == <<dir, mounts>>
host   == <<limit, limitMu, leaked>>
vars   == <<handler, staged, path, gcsfuse, pod, host, faults>>

Idle == [pc |-> "idle", saved |-> 0]

Init ==
  /\ handler = [v \in Volumes |-> Idle]
  /\ staged = [v \in Volumes |-> FALSE]
  /\ dir = [v \in Volumes |-> FALSE] /\ mounts = [v \in Volumes |-> <<>>]
  /\ gcsfuse = [v \in Volumes |-> <<>>] /\ pod = [v \in Volumes |-> TRUE]
  /\ limit = HostLimit /\ limitMu = NoVolume /\ leaked = FALSE
  /\ faults = 0

At(v, pc) == handler[v].pc = pc
Goto(v, pc) == handler' = [handler EXCEPT ![v] = [pc |-> pc, saved |-> 0]]
Return(v) == Goto(v, "idle")

Mounted(v) == mounts[v] # <<>>
Mounting(v, a) == \E i \in DOMAIN mounts[v] : mounts[v][i] = a
Pop(v) == mounts' = [mounts EXCEPT ![v] = SubSeq(@, 1, Len(@) - 1)]

\* A step that only this bound allows: the driver dies, or the limit cannot be
\* written back.
Fault == faults < MaxFaults /\ faults' = faults + 1

-----------------------------------------------------------------------------
(***************************************************************************)
(* The driver.  The lock of the staging path refuses a second call while a *)
(* handler is at work.                                                     *)
(***************************************************************************)

\* NodeStageVolume: a path that is mounted is staged, whoever mounted it.
StageAlreadyMounted(v) ==
  /\ At(v, "idle") /\ ~staged[v] /\ Mounted(v)
  /\ staged' = [staged EXCEPT ![v] = TRUE]
  /\ UNCHANGED <<handler, path, gcsfuse, pod, host, faults>>

\* NodeStageVolume makes the path and waits for the mounter Pod's server.
StagePrepare(v) ==
  /\ At(v, "idle") /\ ~staged[v] /\ ~Mounted(v)
  /\ dir' = [dir EXCEPT ![v] = TRUE]
  /\ Goto(v, IF Target[v] > 0 THEN "limit" ELSE "mount")
  /\ UNCHANGED <<staged, mounts, gcsfuse, pod, host, faults>>

\* Any error up to there, before or after the path is made.
StageFails(v) ==
  /\ At(v, "idle") /\ ~staged[v]
  /\ dir' = dir \/ (~Mounted(v) /\ dir' = [dir EXCEPT ![v] = TRUE])
  /\ Goto(v, "cleanup")
  /\ UNCHANGED <<staged, mounts, gcsfuse, pod, host, faults>>

NodeUnstageVolume(v) ==
  /\ At(v, "idle") /\ (staged[v] \/ dir[v])
  /\ staged' = [staged EXCEPT ![v] = FALSE]
  /\ Goto(v, "cleanup")
  /\ UNCHANGED <<path, gcsfuse, pod, host, faults>>

\* MountUsingElevatedFuseMaxPagesLimit: one handler at a time, without a deadline.
\* The limit is raised, unless it is high enough or cannot be read or written.
RaiseLimit(v) ==
  /\ At(v, "limit") /\ limitMu = NoVolume
  /\ limitMu' = v
  /\ \/ /\ limit < Target[v]
        /\ limit' = Target[v]
        /\ handler' = [handler EXCEPT ![v] = [pc |-> "mount", saved |-> limit]]
     \/ UNCHANGED limit /\ Goto(v, "mount")
  /\ UNCHANGED <<staged, path, gcsfuse, pod, leaked, faults>>

\* mountToNode: the server starts a gcsfuse for the call.
SendMount(v) ==
  /\ At(v, "mount") /\ pod[v] /\ Len(gcsfuse[v]) < MaxAttempts[v]
  /\ gcsfuse' = [gcsfuse EXCEPT ![v] =
       Append(@, [state |-> "starting", rpc |-> "polling", cut |-> FALSE, term |-> FALSE])]
  /\ handler' = [handler EXCEPT ![v].pc = "rpc"]
  /\ UNCHANGED <<staged, path, pod, host, faults>>

UnlockLimit(v) == limitMu' = IF limitMu = v THEN NoVolume ELSE limitMu

\* Mutant: the limit is restored after a successful mount only.
RestoreOnSuccess(v, ok) ==
  /\ limit' = IF ok /\ handler[v].saved # 0 THEN handler[v].saved ELSE limit
  /\ UNCHANGED <<leaked, faults>>
  /\ UnlockLimit(v)

\* Mutant: a limit that was never read is restored.
RestoreUnread(v, ok) ==
  /\ limit' = IF limitMu = v THEN handler[v].saved ELSE limit
  /\ UNCHANGED <<leaked, faults>>
  /\ UnlockLimit(v)

\* The deferred restore, which may fail, and the deferred unlock.
RestoreLimit(v, ok) ==
  /\ \/ /\ limit' = IF handler[v].saved # 0 THEN handler[v].saved ELSE limit
        /\ UNCHANGED <<leaked, faults>>
     \/ handler[v].saved # 0 /\ leaked' = TRUE /\ Fault /\ UNCHANGED limit
  /\ UnlockLimit(v)

\* The mount is over: the handler replies, or cleans the path up.
StageReturn(v, ok) ==
  /\ RestoreLimit(v, ok)
  /\ Goto(v, IF ok THEN "idle" ELSE "cleanup")
  /\ staged' = [staged EXCEPT ![v] = ok]

\* The server is not reached, or fails before gcsfuse runs.
MountFails(v) ==
  /\ At(v, "mount")
  /\ StageReturn(v, FALSE)
  /\ UNCHANGED <<path, gcsfuse, pod>>

MountAnswered(v) ==
  LET rpc == gcsfuse[v][Len(gcsfuse[v])].rpc
  IN  /\ At(v, "rpc") /\ rpc # "polling"
      /\ StageReturn(v, rpc = "ok")
      /\ UNCHANGED <<path, gcsfuse, pod>>

\* The context of a Mount call ends, which matters to a server that still polls.
Cut(g) == [g EXCEPT !.cut = g.rpc = "polling"]

\* Mutant: the call does not have kubelet's context, and fails with its Pod only.
MountHasNoDeadline(v) ==
  /\ At(v, "rpc") /\ ~pod[v]
  /\ StageReturn(v, FALSE)
  /\ gcsfuse' = [gcsfuse EXCEPT ![v][Len(gcsfuse[v])] = Cut(@)]
  /\ UNCHANGED <<path, pod>>

\* Kubelet's deadline: the call fails here, whatever the server answers, and the
\* server sees its context end.
MountTimesOut(v) ==
  /\ At(v, "rpc")
  /\ StageReturn(v, FALSE)
  /\ gcsfuse' = [gcsfuse EXCEPT ![v][Len(gcsfuse[v])] = Cut(@)]
  /\ UNCHANGED <<path, pod>>

\* cleanupStagingPath: an unmount that fails leaves the rest undone.
CleanupUnmount(v) ==
  /\ At(v, "cleanup")
  /\ \/ ~Mounted(v) /\ Goto(v, "remove") /\ UNCHANGED mounts
     \/ Mounted(v) /\ Goto(v, "remove") /\ Pop(v)
     \/ Mounted(v) /\ Return(v) /\ UNCHANGED mounts
  /\ UNCHANGED <<staged, dir, gcsfuse, pod, host, faults>>

\* CleanupMountPoint unmounts what is there once more, and removes the path
\* unless something is still mounted on it.
CleanupMountPoint(v) ==
  /\ At(v, "remove")
  /\ Return(v)
  /\ \/ /\ Len(mounts[v]) <= 1
        /\ dir' = [dir EXCEPT ![v] = FALSE] /\ mounts' = [mounts EXCEPT ![v] = <<>>]
     \/ Len(mounts[v]) > 1 /\ Pop(v) /\ UNCHANGED dir
     \/ UNCHANGED path
  /\ UNCHANGED <<staged, gcsfuse, pod, host, faults>>

-----------------------------------------------------------------------------
(***************************************************************************)
(* The server in the mounter Pod (MountToNode), and gcsfuse (external).    *)
(***************************************************************************)

\* Mutant: success is never set, so that the deferred processCancel terminates
\* gcsfuse when the Mount call returns.
PathMountedUnset(v, a) ==
  /\ gcsfuse[v][a].rpc = "polling" /\ Mounted(v)
  /\ gcsfuse' = [gcsfuse EXCEPT ![v][a].rpc = "ok", ![v][a].cut = FALSE, ![v][a].term = TRUE]
  /\ UNCHANGED <<handler, staged, path, pod, host, faults>>

\* WaitForPathMounted sees the path mounted, by this gcsfuse or another.
PathMounted(v, a) ==
  /\ gcsfuse[v][a].rpc = "polling" /\ Mounted(v)
  /\ gcsfuse' = [gcsfuse EXCEPT ![v][a].rpc = "ok", ![v][a].cut = FALSE]
  /\ UNCHANGED <<handler, staged, path, pod, host, faults>>

\* Mutant: gcsfuse is not told to stop.
PathNotMountedUncancelled(v, a) ==
  /\ gcsfuse[v][a].rpc = "polling" /\ (gcsfuse[v][a].cut \/ gcsfuse[v][a].state = "exited")
  /\ gcsfuse' = [gcsfuse EXCEPT ![v][a].rpc = "failed", ![v][a].cut = FALSE]
  /\ UNCHANGED <<handler, staged, path, pod, host, faults>>

\* The call is over, or gcsfuse has exited: processCancel sends SIGTERM.
PathNotMounted(v, a) ==
  /\ gcsfuse[v][a].rpc = "polling" /\ (gcsfuse[v][a].cut \/ gcsfuse[v][a].state = "exited")
  /\ gcsfuse' = [gcsfuse EXCEPT ![v][a].rpc = "failed", ![v][a].cut = FALSE,
                                 ![v][a].term = gcsfuse[v][a].state # "exited"]
  /\ UNCHANGED <<handler, staged, path, pod, host, faults>>

Exit(v, a) == gcsfuse' = [gcsfuse EXCEPT ![v][a].state = "exited", ![v][a].term = FALSE]

\* forceKillCmd, which runs once the Mount call is over, after the grace period:
\* the mount is left behind.
forceKillCmd(v, a) ==
  /\ gcsfuse[v][a].term /\ gcsfuse[v][a].rpc # "polling"
  /\ Exit(v, a)
  /\ UNCHANGED <<handler, staged, path, pod, host, faults>>

GcsfuseMounts(v, a) ==
  /\ gcsfuse[v][a].state = "starting" /\ dir[v]
  /\ gcsfuse' = [gcsfuse EXCEPT ![v][a].state = "serving"]
  /\ mounts' = [mounts EXCEPT ![v] = Append(@, a)]
  /\ UNCHANGED <<handler, staged, dir, pod, host, faults>>

\* gcsfuse fails, crashes, is unmounted or obeys SIGTERM, when it unmounts its
\* mount point, which takes the newest mount away.
GcsfuseExits(v, a) ==
  /\ gcsfuse[v][a].state # "exited"
  /\ Exit(v, a)
  /\ \/ UNCHANGED mounts
     \/ Mounting(v, a) /\ gcsfuse[v][a].term /\ Pop(v)
  /\ UNCHANGED <<handler, staged, dir, pod, host, faults>>

\* runNodeMounter is told to stop: every gcsfuse gets SIGTERM, and GracefulStop
\* takes no new call but leaves the pending ones to poll.  Before there is a
\* gcsfuse, this is a server that is not reached.
MounterPodStops(v) ==
  /\ pod[v] /\ gcsfuse[v] # <<>>
  /\ pod' = [pod EXCEPT ![v] = FALSE]
  /\ gcsfuse' = [gcsfuse EXCEPT ![v] =
       [a \in DOMAIN @ |-> [@[a] EXCEPT !.term = gcsfuse[v][a].state # "exited"]]]
  /\ UNCHANGED <<handler, staged, path, host, faults>>

DriverRestart ==
  /\ Fault
  /\ handler' = [v \in Volumes |-> Idle]
  /\ gcsfuse' = [v \in Volumes |-> [a \in DOMAIN gcsfuse[v] |-> Cut(gcsfuse[v][a])]]
  /\ limitMu' = NoVolume
  /\ leaked' = (leaked \/ \E v \in Volumes : handler[v].saved # 0)
  /\ UNCHANGED <<staged, path, pod, limit>>

-----------------------------------------------------------------------------

Kubelet(v) ==
  StageAlreadyMounted(v) \/ StagePrepare(v) \/ StageFails(v) \/ NodeUnstageVolume(v)

HandlerStep(v) ==
  \/ SendMount(v) \/ MountFails(v) \/ MountAnswered(v) \/ MountTimesOut(v)
  \/ CleanupUnmount(v) \/ CleanupMountPoint(v)

ServerStep(v, a) == PathNotMounted(v, a) \/ forceKillCmd(v, a)

GcsfuseStep(v, a) == PathMounted(v, a) \/ GcsfuseMounts(v, a) \/ GcsfuseExits(v, a)

Next ==
  \/ \E v \in Volumes :
       \/ Kubelet(v) \/ RaiseLimit(v) \/ HandlerStep(v)
       \/ \E a \in DOMAIN gcsfuse[v] : ServerStep(v, a) \/ GcsfuseStep(v, a)
       \/ MounterPodStops(v)
  \/ DriverRestart

Spec == Init /\ [][Next]_vars

\* Handlers run on and the Mount call has kubelet's deadline; sync.Mutex does not
\* starve a waiter; the server's goroutines and its timer run.
Fairness ==
  \A v \in Volumes :
    /\ WF_vars(HandlerStep(v)) /\ SF_vars(RaiseLimit(v))
    /\ \A a \in 1..MaxAttempts[v] : WF_vars(a \in DOMAIN gcsfuse[v] /\ ServerStep(v, a))

FairSpec == Spec /\ Fairness

-----------------------------------------------------------------------------

Attempt == [state : {"starting", "serving", "exited"}, rpc : {"polling", "ok", "failed"},
            cut : BOOLEAN, term : BOOLEAN]

\* Types of all variables.
TypeOK ==
  LET Limits == {HostLimit} \cup {Target[v] : v \in {u \in Volumes : Target[u] > 0}}
  IN  /\ handler \in [Volumes -> [pc : {"idle", "limit", "mount", "rpc", "cleanup", "remove"},
                                  saved : Limits \cup {0}]]
      /\ staged \in [Volumes -> BOOLEAN] /\ dir \in [Volumes -> BOOLEAN]
      /\ pod \in [Volumes -> BOOLEAN]
      /\ \A v \in Volumes :
           /\ gcsfuse[v] \in Seq(Attempt) /\ Len(gcsfuse[v]) <= MaxAttempts[v]
           /\ mounts[v] \in Seq(DOMAIN gcsfuse[v])
      /\ limit \in Limits /\ limitMu \in Volumes \cup {NoVolume} /\ leaked \in BOOLEAN
      /\ faults \in 0..MaxFaults

\* MountUsingElevatedFuseMaxPagesLimit "restores the original limit": whatever
\* becomes of the Mount calls of concurrent stages, the limit of the host is its
\* own again when no stage holds the mutex.
LimitRestored == limitMu = NoVolume /\ ~leaked => limit = HostLimit

\* The gcsfuse of a stage that was answered with success outlives the call, as
\* its context is the server's: it serves the path, and nobody told it to stop,
\* unless a Mount call of the volume failed, gcsfuse crashed or its Pod stops.
StagedIsServed ==
  \A v \in Volumes :
    staged[v] /\ pod[v] =>
      \E a \in DOMAIN gcsfuse[v] :
        LET g == gcsfuse[v][a]
        IN  \/ Mounting(v, a) /\ ~g.term
            \/ g.cut \/ g.rpc = "failed"

\* A handler returns although it may wait for the mutex while another volume's
\* Mount call is pending, and although it has no deadline for that.
HandlerReturns == \A v \in Volumes : []<>At(v, "idle")

\* "Kill the gcsfuse process if the path has not been mounted within a timeout"
\* (sidecar_mounter.go:260): a gcsfuse whose Mount call failed ends, even when it
\* ignores SIGTERM, or mounts the path late.
FailedGcsfuseEnds ==
  \A v \in Volumes : \A a \in 1..MaxAttempts[v] :
    LET lingers == a \in DOMAIN gcsfuse[v] /\ gcsfuse[v][a].rpc = "failed"
                                           /\ gcsfuse[v][a].state # "exited"
    IN  []<>~lingers
=============================================================================
