------------------------ MODULE MounterPodController ------------------------
(***************************************************************************)
(* The controller service for one shared-mount volume on one node:         *)
(* ControllerPublishVolume creates the mounter Pod in the namespace of the *)
(* PVC and waits until it is scheduled, ControllerUnpublishVolume deletes  *)
(* it and waits until it is gone (pkg/csi_driver/controller.go and         *)
(* shared_mount.go).  Both read Pods from an informer cache that trails    *)
(* the API server and write to the API server.  The attacher that calls    *)
(* them, the API server, the scheduler and the kubelet are external.       *)
(***************************************************************************)
EXTENDS Naturals, Sequences, FiniteSets

CONSTANTS
  Calls,       \* handler goroutines that may run at the same time
  Namespaces,  \* namespaces with a PVC whose PV has this volume handle
  NoNamespace,
  MaxEvictions,\* bound: mounter Pods deleted by others than the controller
  MaxLag       \* bound: watch events the informer has not applied yet

ASSUME ConstantsAssumption ==
  /\ NoNamespace \notin Namespaces
  /\ MaxEvictions \in Nat /\ MaxLag \in Nat \ {0}

VARIABLES
  call,    \* the controller calls being handled
  locked,  \* VolumeLocks holds nodeID/volumeID
  api,     \* the mounter Pod of each namespace in the API server
  cache,   \* the same as the informer shows it
  watch,   \* events on their way from the one to the other
  va,      \* the VolumeAttachment of the volume and the node
  waits,   \* calls the attacher still waits for
  evicted, \* mounter Pods deleted by others so far
  calm     \* the environment has settled

kube     == <<api, cache, watch>>
attacher == <<va, waits>>
env      == <<evicted, calm>>
vars     == <<call, locked, kube, attacher, env>>

\* A Pod that is marked for deletion before it is scheduled is gone at once.
PodStates == {"none", "pending", "scheduled", "deleting"}

Idle == [op |-> "none", pc |-> "idle", ns |-> NoNamespace, ctx |-> TRUE, code |-> "OK"]

NoVA == [phase |-> "none", ns |-> NoNamespace]

Init ==
  /\ call = [c \in Calls |-> Idle]
  /\ locked = FALSE
  /\ api = [n \in Namespaces |-> "none"] /\ cache = api /\ watch = << >>
  /\ va = NoVA /\ waits = {} /\ evicted = 0 /\ calm = FALSE

At(c, op, pc) == call[c].op = op /\ call[c].pc = pc

Goto(c, pc) == call' = [call EXCEPT ![c].pc = pc]

\* Mutant: the lock is released on success only.
ReturnKeepsLock(c, code) ==
  /\ call' = [call EXCEPT ![c] = [Idle EXCEPT !.op = call[c].op, !.pc = "done", !.code = code]]
  /\ locked' = (code # "OK")

\* The handler returns and the deferred Release runs.
Return(c, code) ==
  /\ call' = [call EXCEPT ![c] = [Idle EXCEPT !.op = call[c].op, !.pc = "done", !.code = code]]
  /\ locked' = FALSE

\* TryAcquire at the start of both handlers.
Begin(c, op, ns, first) ==
  /\ call[c].pc = "idle"
  /\ call' = [call EXCEPT ![c] = [Idle EXCEPT !.op = op, !.ns = ns,
                !.pc = IF locked THEN "done" ELSE first,
                !.code = IF locked THEN "Aborted" ELSE "OK"]]
  /\ locked' = TRUE
  /\ UNCHANGED kube

\* A write to the API server, and the event that announces it.
Write(n, s) ==
  /\ Len(watch) < MaxLag
  /\ api' = [api EXCEPT ![n] = s]
  /\ watch' = Append(watch, [ns |-> n, pod |-> s])
  /\ UNCHANGED cache

\* What the API server does with a Pod it is asked to delete.
MarkDeleted(n) ==
  \/ api[n] = "pending" /\ Write(n, "none")
  \/ api[n] = "scheduled" /\ Write(n, "deleting")
  \/ api[n] = "deleting" /\ UNCHANGED kube
-----------------------------------------------------------------------------
(***************************************************************************)
(* ControllerPublishVolume.                                                *)
(***************************************************************************)

ControllerPublishVolume(c, ns) == Begin(c, "publish", ns, "get")

\* createMounterPod asks the informer first.
CreateMounterPodGet(c) ==
  /\ At(c, "publish", "get")
  /\ \/ cache[call[c].ns] = "none" /\ Goto(c, "create") /\ UNCHANGED locked
     \/ cache[call[c].ns] = "deleting" /\ Return(c, "Aborted")
     \/ cache[call[c].ns] \in {"pending", "scheduled"} /\ Goto(c, "wait") /\ UNCHANGED locked
  /\ UNCHANGED <<kube, attacher, env>>

\* AlreadyExists counts as created.
CreateMounterPod(c) ==
  /\ At(c, "publish", "create")
  /\ \/ api[call[c].ns] = "none" /\ Write(call[c].ns, "pending")
     \/ api[call[c].ns] # "none" /\ UNCHANGED kube
  /\ Goto(c, "wait")
  /\ UNCHANGED <<locked, attacher, env>>

\* A request that fails may have created the Pod all the same.
CreateMounterPodFails(c) ==
  /\ At(c, "publish", "create")
  /\ \/ api[call[c].ns] = "none" /\ Write(call[c].ns, "pending")
     \/ UNCHANGED kube
  /\ Return(c, "Internal")
  /\ UNCHANGED <<attacher, env>>

\* checkIfScheduled: NodeName is set, and stays set while the Pod terminates.
WaitForMounterPodScheduled(c) ==
  /\ At(c, "publish", "wait")
  /\ cache[call[c].ns] \in {"scheduled", "deleting"}
  /\ Return(c, "OK")
  /\ UNCHANGED <<kube, attacher, env>>

\* The PV, PVC, PodTemplate, ConfigMap or StorageClass lookups fail.
PublishFails(c) ==
  /\ At(c, "publish", "get")
  /\ Return(c, "Internal")
  /\ UNCHANGED <<kube, attacher, env>>
-----------------------------------------------------------------------------
(***************************************************************************)
(* ControllerUnpublishVolume.                                              *)
(***************************************************************************)

ControllerUnpublishVolume(c) == Begin(c, "unpublish", NoNamespace, "list")

\* GetMounterPodsByName looks in every namespace.
ListMounterPods(c) ==
  LET pods == {n \in Namespaces : cache[n] # "none"}
  IN  /\ At(c, "unpublish", "list")
      /\ \/ pods = {} /\ Return(c, "OK")
         \/ Cardinality(pods) > 1 /\ Return(c, "Internal")
         \/ /\ Cardinality(pods) = 1
            /\ call' = [call EXCEPT ![c].pc = "delete", ![c].ns = CHOOSE n \in pods : TRUE]
            /\ UNCHANGED locked
      /\ UNCHANGED <<kube, attacher, env>>

DeleteMounterPod(c) ==
  /\ At(c, "unpublish", "delete")
  /\ \/ api[call[c].ns] = "none" /\ Return(c, "OK") /\ UNCHANGED kube
     \/ MarkDeleted(call[c].ns) /\ Goto(c, "gone") /\ UNCHANGED locked
  /\ UNCHANGED <<attacher, env>>

DeleteMounterPodFails(c) ==
  /\ At(c, "unpublish", "delete")
  /\ MarkDeleted(call[c].ns) \/ UNCHANGED kube
  /\ Return(c, "Internal")
  /\ UNCHANGED <<attacher, env>>

\* Mutant: a Pod marked for deletion counts as gone.
WaitForMounterPodMarked(c) ==
  /\ At(c, "unpublish", "gone")
  /\ cache[call[c].ns] \in {"none", "deleting"}
  /\ Return(c, "OK")
  /\ UNCHANGED <<kube, attacher, env>>

\* The poll of deleteMounterPod.
WaitForMounterPodGone(c) ==
  /\ At(c, "unpublish", "gone")
  /\ cache[call[c].ns] = "none"
  /\ Return(c, "OK")
  /\ UNCHANGED <<kube, attacher, env>>

\* Mutant: the error of the context is returned as it is.
PollTimesOutUnmapped(c) ==
  /\ call[c].pc \in {"wait", "gone"} /\ ~call[c].ctx
  /\ Return(c, "Unknown")
  /\ UNCHANGED <<kube, attacher, env>>

\* ctx.Done() in either poll.
PollTimesOut(c) ==
  /\ call[c].pc \in {"wait", "gone"} /\ ~call[c].ctx
  /\ Return(c, "DeadlineExceeded")
  /\ UNCHANGED <<kube, attacher, env>>
-----------------------------------------------------------------------------
(***************************************************************************)
(* The attacher, the API server, the scheduler and the kubelet.            *)
(***************************************************************************)

Attach(n) ==
  /\ va.phase = "none" /\ va' = [phase |-> "attaching", ns |-> n]
  /\ UNCHANGED <<call, locked, kube, waits, env>>

Detach ==
  /\ va.phase \in {"attaching", "attached"} /\ va' = [va EXCEPT !.phase = "detaching"]
  /\ UNCHANGED <<call, locked, kube, waits, env>>

\* One call per VolumeAttachment at a time, again and again until it succeeds.
AttacherCalls(c) ==
  /\ waits = {} /\ waits' = {c}
  /\ \/ va.phase = "attaching" /\ ControllerPublishVolume(c, va.ns)
     \/ va.phase = "detaching" /\ ControllerUnpublishVolume(c)
  /\ UNCHANGED <<va, env>>

AttacherGivesUp(c) ==
  /\ c \in waits /\ call[c].pc # "done"
  /\ waits' = {}
  /\ call' = [call EXCEPT ![c].ctx = FALSE]
  /\ UNCHANGED <<locked, kube, va, env>>

Answer(c) ==
  LET answered(op) == c \in waits /\ call[c].op = op /\ call[c].code = "OK"
  IN  /\ call[c].pc = "done"
      /\ call' = [call EXCEPT ![c] = Idle]
      /\ waits' = waits \ {c}
      /\ va' = IF answered("publish") /\ va.phase = "attaching"
               THEN [va EXCEPT !.phase = "attached"]
               ELSE IF answered("unpublish") THEN NoVA ELSE va
      /\ UNCHANGED <<locked, kube, env>>

Schedule(n) ==
  /\ api[n] = "pending" /\ Write(n, "scheduled")
  /\ UNCHANGED <<call, locked, attacher, env>>

\* The webhook denies evictions of mounter Pods; a user, the taint manager or the
\* Pod garbage collector may still delete one.
Evict(n) ==
  /\ evicted < MaxEvictions /\ evicted' = evicted + 1
  /\ api[n] \in {"pending", "scheduled"} /\ MarkDeleted(n)
  /\ UNCHANGED <<call, locked, attacher, calm>>

Terminate(n) ==
  /\ api[n] = "deleting" /\ Write(n, "none")
  /\ UNCHANGED <<call, locked, attacher, env>>

InformerSync ==
  /\ watch # << >>
  /\ cache' = [cache EXCEPT ![Head(watch).ns] = Head(watch).pod]
  /\ watch' = Tail(watch)
  /\ UNCHANGED <<call, locked, api, attacher, env>>

\* A new process waits until its informers have synced.
ControllerRestart ==
  /\ call' = [c \in Calls |-> Idle] /\ locked' = FALSE
  /\ cache' = api /\ watch' = << >> /\ waits' = {}
  /\ UNCHANGED <<api, va, env>>

HandlerStep(c) ==
  \/ CreateMounterPodGet(c) \/ CreateMounterPod(c) \/ WaitForMounterPodScheduled(c)
  \/ ListMounterPods(c) \/ DeleteMounterPod(c) \/ WaitForMounterPodGone(c)
  \/ PollTimesOut(c)

HandlerFails(c) ==
  CreateMounterPodFails(c) \/ PublishFails(c) \/ DeleteMounterPodFails(c)

\* A publish that polls for a Pod which is not there.
PollsForNothing(c) ==
  At(c, "publish", "wait") /\ api[call[c].ns] = "none" /\ watch = << >>

\* Faults come to an end; only stuck calls are given up after that.
Settle == ~calm /\ calm' = TRUE /\ UNCHANGED <<call, locked, kube, attacher, evicted>>

Faults ==
  \/ \E c \in Calls : HandlerFails(c) \/ AttacherGivesUp(c)
  \/ \E n \in Namespaces : Evict(n)
  \/ ControllerRestart

Steps ==
  \/ \E n \in Namespaces : Attach(n) \/ Schedule(n) \/ Terminate(n)
  \/ \E c \in Calls : \/ AttacherCalls(c) \/ Answer(c) \/ HandlerStep(c)
                      \/ PollsForNothing(c) /\ AttacherGivesUp(c)
  \/ Detach \/ InformerSync

Next == Steps \/ (~calm /\ Faults) \/ Settle

Spec == Init /\ [][Next]_vars

\* Everybody goes on, the attacher retries and gives up on a stuck call, and the
\* faults come to an end.
Fairness ==
  /\ \A c \in Calls : /\ WF_vars(HandlerStep(c) \/ Answer(c))
                      /\ WF_vars(PollsForNothing(c) /\ AttacherGivesUp(c))
  /\ WF_vars(\E c \in Calls : AttacherCalls(c))
  /\ \A n \in Namespaces : WF_vars(Schedule(n) \/ Terminate(n))
  /\ WF_vars(InformerSync) /\ WF_vars(Settle)

FairSpec == Spec /\ Fairness
-----------------------------------------------------------------------------

\* The types of the variables.
TypeOK ==
  /\ call \in [Calls -> [op : {"none", "publish", "unpublish"},
                         pc : {"idle", "get", "create", "wait", "list", "delete", "gone", "done"},
                         ns : Namespaces \cup {NoNamespace}, ctx : BOOLEAN,
                         code : {"OK", "Aborted", "Internal", "DeadlineExceeded"}]]
  /\ locked \in BOOLEAN
  /\ api \in [Namespaces -> PodStates] /\ cache \in [Namespaces -> PodStates]
  /\ watch \in Seq([ns : Namespaces, pod : PodStates]) /\ Len(watch) <= MaxLag
  /\ va \in [phase : {"none", "attaching", "attached", "detaching"},
             ns : Namespaces \cup {NoNamespace}]
  /\ waits \subseteq Calls /\ evicted \in 0..MaxEvictions /\ calm \in BOOLEAN

\* "deleteMounterPod returns only after mounter pod has terminated and deleted
\* from the API server" (shared_mount.go:330), although it polls a cache that
\* trails the API server: unless others have deleted mounter Pods too, a step that
\* ends deleteMounterPod with success leaves no Pod where it deleted one.
DeleteReturnsAfterTermination ==
  [][\A c \in Calls :
       /\ call[c].pc \in {"delete", "gone"} /\ call'[c].pc = "done" /\ call'[c].code = "OK"
       /\ evicted = 0
       => api'[call[c].ns] = "none"]_vars

\* Retried calls, stale reads, deleted Pods and restarts never make the volume
\* impossible to attach: an attachment that stays wanted succeeds.
AttachSucceeds == []<>(va.phase # "attaching")

TwoMounterPods == Cardinality({n \in Namespaces : api[n] # "none"}) > 1

\* ControllerUnpublishVolume gets stuck only on a volume and node with mounter
\* Pods in two namespaces: any other detachment succeeds.
DetachSucceeds == []<>(va.phase # "detaching" \/ TwoMounterPods)
=============================================================================
