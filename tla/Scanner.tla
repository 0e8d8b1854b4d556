------------------------------ MODULE Scanner -------------------------------
(***************************************************************************)
(* The bucket scanner of the GCSFuse profiles (pkg/profiles/scanner.go): a *)
(* single worker that takes PVs and Pods from a work queue.  syncPV scans  *)
(* the bucket of a PV, patches the PV and records the scan in trackedPVs;  *)
(* syncPod removes the scheduling gate of a Pod once its PVs are scanned.  *)
(* Event handlers run in other goroutines, behind an informer cache that   *)
(* trails the API server.  A restart (or a change of the leader) loses the *)
(* queue and trackedPVs.  The Pod informer is taken to be up to date,      *)
(* Anywhere Cache is off, and the label that checkPVRelevance puts on a PV *)
(* for the node driver is left out.                                        *)
(***************************************************************************)
EXTENDS Integers, Sequences, FiniteSets, Functions

CONSTANTS
  PVs,
  Pods,
  Claims,        \* which PVs may be behind the PVCs of the Pods
  Override,      \* PVs created with the "override" annotations
  Specs,         \* what each PV may be created with
  LateSC,        \* the StorageClass may be created after the PVs
  NoKey,
  MaxPVChanges,  \* bound: creations and deletions of PVs
  MaxLag,        \* bound: PV watch events the informer has not applied yet
  MaxRestarts    \* bound: restarts of the controller

ASSUME ConstantsAssumption ==
  /\ Claims \subseteq [Pods -> SUBSET PVs] /\ Override \subseteq PVs
  /\ Specs \in [PVs -> SUBSET {"valid", "plain", "scan", "period"}]
  /\ LateSC \in BOOLEAN /\ NoKey \notin PVs \cup Pods
  /\ MaxPVChanges \in Nat /\ MaxLag \in Nat \ {0} /\ MaxRestarts \in Nat

VARIABLES
  api,       \* PVs in the API server
  lives,     \* PVs of each name so far
  stream,    \* their versions on the way to the informer
  cache,     \* PVs as the lister shows them
  events,    \* AddPV and DeletePV notifications not handled yet
  sc,        \* the profile's StorageClass exists
  pods,      \* "none", "gated" or "ungated"
  volumes,   \* the PVs behind the PVCs of each Pod
  queue,     \* keys in the work queue
  work,      \* what the worker is doing
  tracked,   \* trackedPVs: the last scan of a PV, "none" if not in the map
  restarts

kube    == <<api, lives, stream, cache, events>>
cluster == <<sc, pods, volumes>>
memory  == <<queue, work, tracked>>
env     == <<restarts>>
vars    == <<kube, cluster, memory, env>>

\* A PV: which one of its name (0: there is none), the scan result stamped on it,
\* "old" once the resync period has passed, and what its user specified: "plain" is
\* a StorageClass without a profile, "scan" an invalid setting of the scan (its
\* time-out, the use of metrics), "period" an invalid resync period.
Stamps == {"none", "fresh", "old"}
NoPV   == [life |-> 0, stamp |-> "none", spec |-> "valid"]

Resting == [key |-> NoKey, pc |-> "idle", todo |-> {}, relevant |-> {}, wait |-> FALSE,
            time |-> "none", spec |-> "valid"]

Init ==
  /\ api = [p \in PVs |-> NoPV] /\ cache = api
  /\ lives = [p \in PVs |-> 0]
  /\ stream = [p \in PVs |-> << >>]
  /\ events = << >>
  /\ sc = ~LateSC
  /\ pods = [q \in Pods |-> "none"] /\ volumes \in Claims
  /\ queue = {} /\ work = Resting
  /\ tracked = [p \in PVs |-> "none"]
  /\ restarts = 0

Write(p, pv) ==
  /\ Len(stream[p]) < MaxLag
  /\ api' = [api EXCEPT ![p] = pv]
  /\ stream' = [stream EXCEPT ![p] = Append(@, pv)]
  /\ UNCHANGED <<cache, events>>
-----------------------------------------------------------------------------
(***************************************************************************)
(* processNextWorkItem.                                                    *)
(***************************************************************************)

NextWorkItem(k) ==
  /\ work.pc = "idle" /\ k \in queue
  /\ queue' = queue \ {k}
  /\ work' = [Resting EXCEPT !.key = k, !.pc = IF k \in PVs THEN "get" ELSE "pod",
                             !.todo = IF k \in Pods THEN volumes[k] ELSE {}]
  /\ UNCHANGED <<kube, cluster, tracked, env>>

\* Mutant: the item is dropped instead of being queued again.
RequeueDropped == work' = Resting /\ UNCHANGED queue

\* The item is done; it is dropped after an InvalidArgument error; or it goes back
\* to the queue with AddRateLimited.
Forget  == work' = Resting /\ UNCHANGED queue
Drop    == work' = Resting /\ UNCHANGED queue
Requeue == work' = Resting /\ queue' = queue \cup {work.key}

Continue(pc) == work' = [work EXCEPT !.pc = pc] /\ UNCHANGED queue

\* calculateLastScanTime: the map first, then the annotation (which is then
\* entered in the map).
LastScan(p) == IF tracked[p] # "none" THEN tracked[p] ELSE cache[p].stamp

\* Mutant: a time found in the annotation is not entered in the map.
TrackLastScanForgotten(p) == UNCHANGED tracked

TrackLastScan(p) == tracked' = [tracked EXCEPT ![p] = LastScan(p)]

\* A last scan is known, but the resync period that goes with it is invalid.  The
\* period of a PV in override mode is only looked at to enter the annotation.
InvalidPeriod(p) ==
  /\ cache[p].spec = "period" /\ LastScan(p) # "none"
  /\ p \in Override => tracked[p] = "none"

\* getStorageClass and checkPVRelevance: the class exists and has a profile.
Relevant(p) == cache[p].life # 0 /\ sc /\ cache[p].spec # "plain"

\* checkPVRelevance looks the last scan up unless the PV is in override mode.
CheckRelevance(p) ==
  IF p \in Override THEN UNCHANGED tracked ELSE TrackLastScan(p)
-----------------------------------------------------------------------------
(***************************************************************************)
(* syncPV.                                                                 *)
(***************************************************************************)

SyncPVNotFound ==
  /\ work.pc = "get" /\ cache[work.key].life = 0
  /\ Forget
  /\ UNCHANGED <<kube, cluster, tracked, env>>

SyncPVNotRelevant ==
  /\ work.pc = "get" /\ cache[work.key].life # 0 /\ ~Relevant(work.key)
  /\ Forget
  /\ UNCHANGED <<kube, cluster, tracked, env>>

\* Override: stamp the user's values.  Otherwise scan unless the last scan is
\* younger than the resync period.
SyncPV ==
  LET p == work.key
  IN  /\ work.pc = "get" /\ Relevant(p)
      /\ \/ /\ p \in Override
            /\ work' = [work EXCEPT !.pc = "patch", !.spec = cache[p].spec]
            /\ UNCHANGED queue
         \/ /\ p \notin Override /\ ~InvalidPeriod(p) /\ LastScan(p) = "fresh"
            /\ Forget
         \/ /\ p \notin Override /\ ~InvalidPeriod(p) /\ LastScan(p) # "fresh"
            /\ cache[p].spec # "scan"
            /\ work' = [work EXCEPT !.pc = "scan", !.spec = cache[p].spec]
            /\ UNCHANGED queue
      /\ CheckRelevance(p)
      /\ UNCHANGED <<kube, cluster, env>>

\* InvalidArgument: the resync period, or a setting that the scan needs.
SyncPVInvalid ==
  LET p == work.key
  IN  /\ work.pc = "get" /\ Relevant(p) /\ p \notin Override
      /\ \/ InvalidPeriod(p) /\ UNCHANGED tracked
         \/ cache[p].spec = "scan" /\ LastScan(p) # "fresh" /\ TrackLastScan(p)
      /\ Drop
      /\ UNCHANGED <<kube, cluster, env>>

\* A scan that times out counts, with partial results.
ScanBucket ==
  /\ work.pc = "scan" /\ Continue("patch")
  /\ UNCHANGED <<kube, cluster, tracked, env>>

\* patchPVAnnotations patches by name; NotFound is not an error.
PatchPVAnnotations ==
  /\ work.pc = "patch"
  /\ \/ api[work.key].life = 0 /\ UNCHANGED <<api, stream, cache, events>>
     \/ api[work.key].life # 0 /\ Write(work.key, [api[work.key] EXCEPT !.stamp = "fresh"])
  /\ work' = [work EXCEPT !.pc = "record", !.time = "fresh"]
  /\ UNCHANGED <<lives, cluster, queue, tracked, env>>

\* The PV is patched by now; an invalid resync period keeps it out of the map.
UpdateLastSuccessfulScanInMemory ==
  /\ work.pc = "record"
  /\ \/ /\ work.spec # "period"
        /\ tracked' = [tracked EXCEPT ![work.key] = work.time]
        /\ Forget
     \/ work.spec = "period" /\ Drop /\ UNCHANGED tracked
  /\ UNCHANGED <<kube, cluster, env>>

\* A lookup, the scan or the patch fails, for another reason than what the user
\* specified; after the last volume syncPod looks nothing up, so that a failure is
\* never a step of SyncPodRequeues.
SyncFails ==
  /\ \/ work.pc \in {"get", "scan", "patch", "pod", "ungate"}
     \/ work.pc = "volumes" /\ work.todo # {}
  /\ Requeue
  /\ UNCHANGED <<kube, cluster, tracked, env>>
-----------------------------------------------------------------------------
(***************************************************************************)
(* syncPod.                                                                *)
(***************************************************************************)

SyncPodGet ==
  /\ work.pc = "pod"
  /\ IF pods[work.key] = "none" THEN Forget ELSE Continue("volumes")
  /\ UNCHANGED <<kube, cluster, tracked, env>>

\* Mutant: a volume that is not scanned yet does not hold the Pod back.
SyncPodVolumeUnscanned(p) ==
  LET checked == [work EXCEPT !.todo = @ \ {p}]
  IN  /\ work.pc = "volumes" /\ p \in work.todo
      /\ work' = IF cache[p].life = 0 THEN [checked EXCEPT !.wait = TRUE]
                 ELSE [checked EXCEPT !.relevant = @ \cup {p}]
      /\ UNCHANGED <<kube, cluster, queue, tracked, env>>

SyncPodVolume(p) ==
  LET unscanned == LastScan(p) = "none"
      checked   == [work EXCEPT !.todo = @ \ {p}]
  IN  /\ work.pc = "volumes" /\ p \in work.todo
      /\ \/ /\ cache[p].life = 0
            /\ work' = [checked EXCEPT !.wait = TRUE]
            /\ UNCHANGED tracked
         \/ /\ cache[p].life # 0 /\ ~Relevant(p)
            /\ work' = checked
            /\ UNCHANGED tracked
         \/ /\ Relevant(p) /\ ~InvalidPeriod(p)
            /\ work' = [checked EXCEPT !.wait = @ \/ unscanned,
                                       !.relevant = @ \cup {p}]
            /\ TrackLastScan(p)
      /\ UNCHANGED <<kube, cluster, queue, env>>

\* InvalidArgument of a PV drops the Pod, too.
SyncPodInvalid ==
  /\ work.pc = "volumes" /\ \E p \in work.todo : Relevant(p) /\ InvalidPeriod(p)
  /\ Drop
  /\ UNCHANGED <<kube, cluster, tracked, env>>

SyncPodRequeues ==
  /\ work.pc = "volumes" /\ work.todo = {} /\ work.wait
  /\ Requeue
  /\ UNCHANGED <<kube, cluster, tracked, env>>

SyncPodDone ==
  /\ work.pc = "volumes" /\ work.todo = {} /\ ~work.wait
  /\ Continue("ungate")
  /\ UNCHANGED <<kube, cluster, tracked, env>>

RemoveSchedulingGate ==
  /\ work.pc = "ungate"
  /\ pods' = [pods EXCEPT ![work.key] = IF @ = "gated" THEN "ungated" ELSE @]
  /\ Forget
  /\ UNCHANGED <<kube, sc, volumes, tracked, env>>
-----------------------------------------------------------------------------
(***************************************************************************)
(* Event handlers, the periodic enqueuer and the environment.              *)
(***************************************************************************)

\* The informer applies the next version; only additions and deletions notify.
InformerSync(p) ==
  /\ stream[p] # << >>
  /\ LET new  == Head(stream[p])
         note == IF cache[p].life = 0 THEN << [kind |-> "AddPV", pv |-> p] >>
                 ELSE IF new.life = 0 THEN << [kind |-> "DeletePV", pv |-> p] >>
                 ELSE << >>
     IN  /\ cache' = [cache EXCEPT ![p] = new]
         /\ events' = events \o note
  /\ stream' = [stream EXCEPT ![p] = Tail(@)]
  /\ UNCHANGED <<api, lives, cluster, memory, env>>

\* Mutant: the object is queued instead of its key.
AddPVObject ==
  /\ events # << >> /\ Head(events).kind = "AddPV" /\ events' = Tail(events)
  /\ queue' = queue \cup {NoKey}
  /\ UNCHANGED <<api, lives, stream, cache, cluster, work, tracked, env>>

AddPV ==
  /\ events # << >> /\ Head(events).kind = "AddPV" /\ events' = Tail(events)
  /\ queue' = queue \cup {Head(events).pv}
  /\ UNCHANGED <<api, lives, stream, cache, cluster, work, tracked, env>>

\* queue.Forget resets the back-off; a key in the queue stays there.
DeletePV ==
  /\ events # << >> /\ Head(events).kind = "DeletePV" /\ events' = Tail(events)
  /\ tracked' = [tracked EXCEPT ![Head(events).pv] = "none"]
  /\ UNCHANGED <<api, lives, stream, cache, cluster, queue, work, env>>

EnqueueTrackedPVs ==
  /\ queue' = queue \cup {p \in PVs : tracked[p] = "old"}
  /\ queue' # queue
  /\ UNCHANGED <<kube, cluster, work, tracked, env>>

\* Each PV that was created has been deleted, but for those that exist.
PVChanges == 2 * FoldFunction(+, 0, lives) - Cardinality({p \in PVs : api[p].life # 0})

\* PVs that no Pod claims are left out.  The webhook refuses scan annotations
\* without override mode.
UserCreatesPV(p) ==
  /\ \E q \in Pods : p \in volumes[q]
  /\ api[p].life = 0 /\ PVChanges < MaxPVChanges
  /\ lives' = [lives EXCEPT ![p] = @ + 1]
  /\ \E spec \in Specs[p] :
       Write(p, [life |-> lives[p] + 1, stamp |-> "none", spec |-> spec])
  /\ UNCHANGED <<cluster, memory, env>>

UserDeletesPV(p) ==
  /\ api[p].life # 0 /\ PVChanges < MaxPVChanges
  /\ Write(p, NoPV)
  /\ UNCHANGED <<lives, cluster, memory, env>>

\* AddPod is called for the Pods that the webhook has gated: the class of one of
\* their volumes exists and has a profile (mutatingwebhook.go:542-552).
UserCreatesPod(q) ==
  /\ sc /\ \E p \in volumes[q] : "plain" \notin Specs[p]
  /\ pods[q] = "none" /\ pods' = [pods EXCEPT ![q] = "gated"]
  /\ queue' = queue \cup {q}
  /\ UNCHANGED <<kube, sc, volumes, work, tracked, env>>

UserDeletesPod(q) ==
  /\ pods[q] # "none" /\ pods' = [pods EXCEPT ![q] = "none"]
  /\ UNCHANGED <<kube, sc, volumes, memory, env>>

UserCreatesStorageClass ==
  /\ ~sc /\ sc' = TRUE
  /\ UNCHANGED <<kube, pods, volumes, memory, env>>

\* The resync period of a scan passes.
ResyncPeriodPasses(p) ==
  LET Age(s) == IF s = "fresh" THEN "old" ELSE s
  IN  /\ "fresh" \in {api[p].stamp, tracked[p]}
      /\ api' = [api EXCEPT ![p].stamp = Age(@)]
      /\ cache' = [cache EXCEPT ![p].stamp = Age(@)]
      /\ stream' = [stream EXCEPT ![p] = [i \in DOMAIN @ |-> [@[i] EXCEPT !.stamp = Age(@)]]]
      /\ tracked' = [tracked EXCEPT ![p] = Age(@)]
      /\ work' = IF work.key = p THEN [work EXCEPT !.time = Age(@)] ELSE work
      /\ UNCHANGED <<lives, events, cluster, queue, env>>

\* A new process lists everything: AddPV and AddPod for each object there is.
Restart ==
  /\ restarts < MaxRestarts /\ restarts' = restarts + 1
  /\ cache' = api /\ stream' = [p \in PVs |-> << >>] /\ events' = << >>
  /\ tracked' = [p \in PVs |-> "none"] /\ work' = Resting
  /\ queue' = {p \in PVs : api[p].life # 0} \cup {q \in Pods : pods[q] # "none"}
  /\ UNCHANGED <<api, lives, cluster>>

WorkerStep ==
  \/ SyncPVNotFound \/ SyncPVNotRelevant \/ SyncPV \/ SyncPVInvalid
  \/ ScanBucket \/ PatchPVAnnotations \/ UpdateLastSuccessfulScanInMemory
  \/ \E p \in PVs : SyncPodVolume(p)
  \/ SyncPodGet \/ SyncPodInvalid \/ SyncPodRequeues \/ SyncPodDone \/ RemoveSchedulingGate

User ==
  \/ \E p \in PVs : UserCreatesPV(p) \/ UserDeletesPV(p)
  \/ \E q \in Pods : UserCreatesPod(q) \/ UserDeletesPod(q)
  \/ UserCreatesStorageClass

Next ==
  \/ \E k \in PVs \cup Pods : NextWorkItem(k)
  \/ WorkerStep
  \/ SyncFails
  \/ \E p \in PVs : InformerSync(p) \/ ResyncPeriodPasses(p)
  \/ AddPV \/ DeletePV \/ EnqueueTrackedPVs
  \/ User \/ Restart

Spec == Init /\ [][Next]_vars

\* The worker and the handlers run on; the queue is first in, first out, so a
\* key is not passed over for ever; lookups, scans and patches of valid PVs do not
\* fail for ever.
Fairness ==
  /\ WF_vars(WorkerStep) /\ WF_vars(AddPV) /\ WF_vars(DeletePV) /\ WF_vars(EnqueueTrackedPVs)
  /\ \A p \in PVs : WF_vars(InformerSync(p))
  /\ \A k \in PVs \cup Pods : SF_vars(NextWorkItem(k))
  /\ <>[][~SyncFails]_vars

FairSpec == Spec /\ Fairness
-----------------------------------------------------------------------------

\* The types of the variables.
TypeOK ==
  LET PV == [life : 0..MaxPVChanges, stamp : Stamps,
             spec : {"valid", "plain", "scan", "period"}]
  IN  /\ api \in [PVs -> PV] /\ cache \in [PVs -> PV]
      /\ lives \in [PVs -> 0..MaxPVChanges]
      /\ stream \in [PVs -> Seq(PV)] /\ \A p \in PVs : Len(stream[p]) <= MaxLag
      /\ events \in Seq([kind : {"AddPV", "DeletePV"}, pv : PVs])
      /\ sc \in BOOLEAN /\ pods \in [Pods -> {"none", "gated", "ungated"}]
      /\ volumes \in Claims
      /\ queue \subseteq PVs \cup Pods
      /\ work \in [key : PVs \cup Pods \cup {NoKey},
                   pc : {"idle", "get", "scan", "patch", "record", "pod", "volumes", "ungate"},
                   todo : SUBSET PVs, relevant : SUBSET PVs, wait : BOOLEAN, time : Stamps,
                   spec : {"valid", "scan", "period"}]
      /\ tracked \in [PVs -> Stamps]
      /\ restarts \in 0..MaxRestarts

\* "If all relevant PVs have been scanned and no other reason to requeue, remove
\* the scheduling gate" (scanner.go:720): a Pod loses its gate only when every
\* PV that syncPod found relevant carries a scan result, or is gone, or took the
\* name of an earlier PV, whose scan trackedPVs may still have.
ScannedBeforeUngated ==
  [][\A q \in Pods :
       pods[q] = "gated" /\ pods'[q] = "ungated" =>
         \A p \in work.relevant : api[p].life = 1 => api[p].stamp # "none"]_vars

\* A scan result that is older than the resync period is replaced, although the
\* periodic enqueuer only looks at trackedPVs and restarts lose that map.  PVs
\* with invalid settings are left alone, and in override mode nothing is scanned.
RescannedWhenOld ==
  \A p \in PVs \ Override : []<>~(api[p].stamp = "old" /\ api[p].spec = "valid")

\* "This eventually results in the PV being scanned by syncPV, and the Pod's
\* scheduling gate being removed by syncPod" (scanner.go:621-622): a gated Pod
\* whose PVs all exist, with settings that parse, does not stay gated.
GateEventuallyRemoved ==
  \A q \in Pods :
    []<>~(pods[q] = "gated" /\ \A p \in volumes[q] : api[p].life # 0 /\ api[p].spec \in {"valid", "plain"})

\* The same for PVs that are created after their StorageClass, as checkPVRelevance
\* (scanner.go) needs the class when the PV is first seen: neither a restart, nor
\* a stale informer, nor scans that fail, nor an earlier PV of the name with settings
\* that kept it from being scanned leave the Pod gated for ever.  An invalid resync
\* period drops the Pod itself from the queue (scanner.go:606) and is left out.
GateRemoved ==
  [](\A p \in PVs : api[p].life # 0 => sc /\ api[p].spec # "period")
    => GateEventuallyRemoved
=============================================================================
