---------------------------- MODULE NodeKubelet -----------------------------
(***************************************************************************)
(* The node server driven by a kubelet that keeps the CSI contract: it     *)
(* stages before it publishes, unpublishes every target it ever tried to   *)
(* publish before it unstages, has one operation per volume in flight      *)
(* (unpublishes of different targets may overlap), and republishes wanted  *)
(* targets periodically (requiresRepublish).  It gives up on a call that   *)
(* takes too long; the handler goes on.  The kubelet is external code.     *)
(***************************************************************************)
EXTENDS NodeServer

CONSTANTS MaxKubeletRestarts  \* bound: restarts of the kubelet

Shared(p) == p \in SharedTargets
Volume(p) == IF Shared(p) THEN StagingOf[p] ELSE p
TargetsOf(s) == {t \in SharedTargets : StagingOf[t] = s}

\* No pending operation of the kubelet conflicts with a new one.
Free(op, p) ==
  \A c \in waits :
    Volume(call[c].path) = Volume(p) =>
      op = "unpublish" /\ call[c].op = "unpublish" /\ call[c].path # p

Issues(c, op, p) == c \notin waits /\ Free(op, p) /\ waits' = waits \cup {c}

PodAdded(t) ==
  /\ t \notin want /\ want' = want \cup {t}
  /\ UNCHANGED <<server, used, staged, waits, krestarts>>

PodDeleted(t) ==
  /\ t \in want /\ want' = want \ {t}
  /\ UNCHANGED <<server, used, staged, waits, krestarts>>

KPublish(c, t) ==
  /\ t \in want /\ Issues(c, "publish", t)
  /\ used' = used \cup {t}
  /\ \/ ~Shared(t) /\ NodePublishVolume(c, t)
     \/ /\ Shared(t) /\ staged[Volume(t)] = "yes"
        /\ NodePublishVolumeForSharedMount(c, t)
  /\ UNCHANGED <<want, staged, krestarts>>

KUnpublish(c, t) ==
  /\ t \in used \ want /\ Issues(c, "unpublish", t)
  /\ NodeUnpublishVolume(c, t)
  /\ UNCHANGED <<want, used, staged, krestarts>>

KStage(c, s) ==
  /\ TargetsOf(s) \cap want # {} /\ staged[s] # "yes" /\ Issues(c, "stage", s)
  /\ NodeStageVolume(c, s)
  /\ staged' = [staged EXCEPT ![s] = "maybe"]
  /\ UNCHANGED <<want, used, krestarts>>

KUnstage(c, s) ==
  /\ TargetsOf(s) \cap (want \cup used) = {} /\ staged[s] # "no"
  /\ Issues(c, "unstage", s)
  /\ NodeUnstageVolume(c, s)
  /\ staged' = [staged EXCEPT ![s] = "maybe"]
  /\ UNCHANGED <<want, used, krestarts>>

\* A failed stage that the kubelet heard of counts as not staged.
KReply(c) ==
  LET p == call[c].path
      answered(op, code) == c \in waits /\ call[c].op = op /\ call[c].code = code
  IN  /\ Reply(c)
      /\ waits' = waits \ {c}
      /\ used' = IF answered("unpublish", "OK") THEN used \ {p} ELSE used
      /\ staged' = IF answered("stage", "OK") THEN [staged EXCEPT ![p] = "yes"]
                   ELSE IF answered("stage", "Error") \/ answered("unstage", "OK")
                   THEN [staged EXCEPT ![p] = "no"] ELSE staged
      /\ UNCHANGED <<want, krestarts>>

KTimeout(c) ==
  /\ c \in waits /\ InHandler(c)
  /\ waits' = waits \ {c}
  /\ UNCHANGED <<server, want, used, staged, krestarts>>

\* After a restart the kubelet finds its volumes on disk and tries them again.
KubeletRestart ==
  /\ krestarts < MaxKubeletRestarts /\ krestarts' = krestarts + 1
  /\ waits' = {}
  /\ staged' = [s \in StagingPaths |-> IF staged[s] = "yes" THEN "maybe" ELSE staged[s]]
  /\ UNCHANGED <<server, want, used>>

\* The connections of a driver that restarts are closed.
KDriverRestart ==
  /\ DriverRestart
  /\ waits' = {}
  /\ UNCHANGED <<want, used, staged, krestarts>>

KNext ==
  \/ \E t \in Targets \cup SharedTargets : PodAdded(t) \/ PodDeleted(t)
  \/ \E c \in Calls, t \in Targets \cup SharedTargets : KPublish(c, t) \/ KUnpublish(c, t)
  \/ \E c \in Calls, s \in StagingPaths : KStage(c, s) \/ KUnstage(c, s)
  \/ \E c \in Calls : KReply(c) \/ KTimeout(c)
  \/ \E c \in Calls : HandlerStep(c) \/ HandlerFails(c)
  \/ \E v \in States : MonitorResolves(v) \/ MonitorStops(v)
  \/ \E s \in StagingPaths : MounterPodStarts(s) \/ MounterPodDies(s) \/ PodListerSyncs(s)
  \/ KubeletRestart \/ KDriverRestart

KSpec == Init /\ [][KNext]_vars

\* Handlers run on and answer, the kubelet republishes wanted targets, and from
\* some time on nothing that a publish needs fails.
KFairness ==
  /\ \A c \in Calls : /\ WF_vars(HandlerStep(c))
                      /\ WF_vars(KReply(c))
  /\ \A t \in Targets : SF_vars(\E c \in Calls : KPublish(c, t))
  /\ <>[][\A c \in Calls : ~PublishFails(c) /\ ~PublishNotNeeded(c)]_vars

FairKSpec == KSpec /\ KFairness
-----------------------------------------------------------------------------

\* Every running monitor of a staging path can still be cancelled by
\* NodeUnstageVolume, although publishers start it under the lock of their
\* target and NodeUnstageVolume cancels it under the lock of the staging path.
StagingMonitorsStoppable ==
  \A v \in States :
    Running(v) /\ heap[v].path \in StagingPaths => store[heap[v].path] = v

\* When NodeUnstageVolume is about to report success, the process keeps no
\* state, collector or monitor of the staging path and no target is mounted.
UnstageLeavesNothing ==
  \A c \in Calls :
    At(c, "unstage", "rmdir") =>
      LET s == call[c].path
      IN  /\ store[s] = 0 /\ registry[s] = NoCollector /\ mnt[s] = NotMounted
          /\ \A v \in States : heap[v].path = s => ~Running(v)
          /\ \A t \in TargetsOf(s) : mnt[t] = NotMounted

\* NodePublishVolumeForSharedMount checks that its staging path is mounted and
\* binds it later.  In between only the end of the mounter Pod can take that mount
\* away: no unstage and no cleanup of a failed stage is let in, which would make
\* the workload write to the disk of the node.
CheckedMountStays ==
  [][\A s \in StagingPaths :
       mnt[s] # NotMounted /\ mnt'[s] = NotMounted /\ pod'[s] = pod[s] =>
         ~\E c \in Calls : At(c, "publishShared", "bind") /\ Staging(c) = s]_vars

\* A wanted target gets its monitor, and gets it back after a driver restart
\* has lost it: NodePublishVolume is repeated and restarts the monitor of an
\* existing mount.
MonitorEventuallyStarted ==
  \A t \in Targets \ Dynamic :
    t \in want ~> t \notin want \/ (store[t] # 0 /\ heap[store[t]].mon # "none")
=============================================================================
