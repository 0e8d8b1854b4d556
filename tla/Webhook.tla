------------------------------ MODULE Webhook -------------------------------
(***************************************************************************)
(* The admission of Pods by the sidecar injector (pkg/webhook): Handle     *)
(* classifies the volumes of a new Pod through the PVC, PV, StorageClass   *)
(* and PodTemplate listers, and injects the gcsfuse sidecar, the metadata  *)
(* prefetch sidecar, their volumes and the scheduling gate of the bucket   *)
(* scan.  An admitted Pod may be created again from its own, mutated spec  *)
(* (a copied manifest), when the listers may show something else.          *)
(*                                                                         *)
(* Wording, security contexts other than the user ID, environment          *)
(* variables, mount paths, probes and resources are left out, but for      *)
(* resource annotations that do not parse.                                 *)
(***************************************************************************)
EXTENDS Naturals, SequencesExt

CONSTANTS
  Submissions,   \* Pods as users submit them
  Views,         \* what the listers may show: claim -> PVC, PV, class, template
  Configs,       \* flags of the webhook and versions in the cluster
  MaxAdmissions  \* bound: admissions of a Pod and its copies

VARIABLES
  config,
  submitted,     \* the Pod as the user submitted it
  view,
  pod,
  pc,            \* "submitted", "admitted" or "refused"
  resp,          \* "", "allowed", "patched", "400" or "500"
  admissions

vars == <<config, submitted, view, pod, pc, resp, admissions>>

GcsFuseSidecarName          == "gke-gcsfuse-sidecar"
MetadataPrefetchSidecarName == "gke-gcsfuse-metadata-prefetch"
IstioSidecarName            == "istio-proxy"

Init ==
  /\ config \in Configs /\ view \in Views
  /\ submitted \in Submissions /\ pod = submitted
  /\ pc = "submitted" /\ resp = "" /\ admissions = 1

-----------------------------------------------------------------------------
VolumeNames(volumes) == {v.name : v \in ToSet(volumes)}
EmptyDir(n)  == [name |-> n, kind |-> "emptyDir", prefetch |-> "unset", dynamic |-> FALSE]
Projected(n) == [name |-> n, kind |-> "projected", prefetch |-> "unset", dynamic |-> FALSE]

\* isGcsFuseCSIVolume: an ephemeral volume, or a claim whose PVC and bound PV
\* are both in the listers' caches.  The name of a claim's volume is the claim.
FromPV(v) ==
  /\ v.kind = "claim" /\ view[v.name].pvc \in {"found", "deleted"}
  /\ view[v.name].pv = "gcsfuse"

isGcsFuseCSIVolume(v) == v.kind = "ephemeral" \/ FromPV(v)

SharedNodeMount(v) == config.sharedNodeMount /\ FromPV(v) /\ view[v.name].shared

ServiceAccount(name) == IF name = "" THEN "default" ELSE name

TemplateMatches(template) ==
  /\ template.fsGroup = pod.fsGroup                                         \* ValidateFSGroup
  /\ ServiceAccount(template.account) = ServiceAccount(pod.account)         \* ValidateServiceAccountName

\* One round of Handle's loop over the volumes.  "deleted" is a PVC that goes
\* away between the two times the loop looks it up.
Classify(v) ==
  LET t == view[v.name].template IN
  CASE v.kind = "claim" /\ view[v.name].pvc = "error"          -> "500"
    [] ~SharedNodeMount(v) /\ isGcsFuseCSIVolume(v)            -> "standard"
    [] SharedNodeMount(v) /\ view[v.name].pvc = "deleted"      -> "400"
    [] SharedNodeMount(v) /\ view[v.name].pvc = "found"
         /\ t.state = "notFound"                               -> "shared"
    [] SharedNodeMount(v) /\ view[v.name].pvc = "found"
         /\ t.state = "error"                                  -> "500"
    [] SharedNodeMount(v) /\ view[v.name].pvc = "found"
         /\ t.state = "unnamed"                                -> "400"
    [] SharedNodeMount(v) /\ view[v.name].pvc = "found"
         /\ t.state = "found"                                  ->
            IF TemplateMatches(t) THEN "shared" ELSE "400"
    [] OTHER                                                   -> "other"

Classes == {Classify(v) : v \in ToSet(pod.volumes)}

FirstError ==
  Classify(pod.volumes[SelectInSeq(pod.volumes, LAMBDA v : Classify(v) \in {"400", "500"})])

\* profileStorageClass and IsGCSFuseProfilesEnabled: errors count as no profile.
ProfileClass(v) ==
  v.kind = "claim" /\ view[v.name].pvc = "found" /\ view[v.name].class = "profile"

IsGCSFuseProfilesEnabled(p) == \E v \in ToSet(p.volumes) : ProfileClass(v)

-----------------------------------------------------------------------------
\* sidecarContainerPresent looks at the first container of that name.
sidecarContainerPresent(name, containers, mounts) ==
  LET i == SelectInSeq(containers, LAMBDA c : c.name = name)
  IN i # 0 /\ containers[i].nobody /\ mounts \subseteq containers[i].mounts

VolumesInjected(p, volumes) ==
  \A n \in volumes : \E v \in ToSet(p.volumes) : v.name = n /\ v.kind = "emptyDir"

ValidateContainersOnly(name, p, volumes) ==
  [injected |-> sidecarContainerPresent(name, p.containers, volumes) /\ VolumesInjected(p, volumes),
   native   |-> FALSE]

validatePodHasSidecarContainerInjected(name, p, volumes) ==
  LET native == sidecarContainerPresent(name, p.initContainers, volumes)
      found  == /\ native \/ sidecarContainerPresent(name, p.containers, volumes)
                /\ VolumesInjected(p, volumes)
  IN [injected |-> found, native |-> found /\ native]

ValidatePodHasSidecarContainerInjected(p) ==
  validatePodHasSidecarContainerInjected(GcsFuseSidecarName, p, {"tmp"})

supportsNativeSidecar ==
  /\ config.serverVersion # "old"
  /\ IF config.nodeVersions = {} THEN config.serverVersion = "new"
                                 ELSE config.nodeVersions = {"new"}

injectAsNativeSidecar(p) == supportsNativeSidecar /\ p.nativeAnnotation # "false"

-----------------------------------------------------------------------------
Without(containers, name) ==
  LET i == SelectInSeq(containers, LAMBDA c : c.name = name)
  IN IF i = 0 THEN containers ELSE SubSeq(containers, 1, i - 1) \o SubSeq(containers, i + 1, Len(containers))

Images(p, name) == {c.image : c \in {d \in ToSet(p.containers \o p.initContainers) : d.name = name}}

DeleteFromContainersOnly(p, name) == [p EXCEPT !.containers = Without(@, name)]

\* ExtractImageAndDeleteContainer, without the image.
DeleteContainer(p, name) ==
  [p EXCEPT !.containers = Without(@, name), !.initContainers = Without(@, name)]

\* The image of an init container wins over that of a container.
UserImage(p, name, default) ==
  LET list == p.containers \o p.initContainers
      i == SelectLastInSeq(list, LAMBDA c : c.name = name)
  IN IF i = 0 THEN default ELSE list[i].image

IndexZero(containers, name) == 0

getInjectIndexAfterContainer(containers, name) ==
  SelectInSeq(containers, LAMBDA c : c.name = name)

Insert(containers, c, index) ==
  SubSeq(containers, 1, index) \o <<c>> \o SubSeq(containers, index + 1, Len(containers))

injectSidecarContainer(p, c, native, after) ==
  LET q == DeleteContainer(p, c.name)
      list == IF native THEN q.initContainers ELSE q.containers
      new == Insert(list, c, getInjectIndexAfterContainer(list, after))
  IN IF native THEN [q EXCEPT !.initContainers = new] ELSE [q EXCEPT !.containers = new]

GetSidecarContainerSpec(p) ==
  [name   |-> GcsFuseSidecarName,
   image  |-> UserImage(p, GcsFuseSidecarName, "default"), nobody |-> TRUE,
   mounts |-> {"tmp", "buffer", "cache"}
                \cup (IF p.hostNetwork /\ config.injectSAVolume THEN {"sa-token"} ELSE {})
                \cup (IF p.credential # "none" THEN {"wi-config"} ELSE {})
                \cup (IF p.credential = "file" THEN {"wi-token"} ELSE {})
                \cup p.additionalMounts]

PrefetchWanted(v) ==
  LET attribute == IF v.kind = "ephemeral" THEN v.prefetch ELSE view[v.name].prefetch
      dynamic   == IF v.kind = "ephemeral" THEN v.dynamic ELSE view[v.name].dynamic
  IN /\ isGcsFuseCSIVolume(v) /\ ~dynamic
     /\ v.kind = "claim" => view[v.name].pvc = "found"
     /\ \/ attribute = "true"
        \/ attribute = "unset" /\ config.profiles /\ ProfileClass(v) /\ view[v.name].classPrefetch

GetMetadataPrefetchSidecarContainerSpec(p) ==
  [name |-> MetadataPrefetchSidecarName,
   image |-> UserImage(p, MetadataPrefetchSidecarName, "default"), nobody |-> TRUE,
   mounts |-> {v.name : v \in {w \in ToSet(p.volumes) : PrefetchWanted(w)}}]

-----------------------------------------------------------------------------
\* appendWorkloadCredentialConfigurationVolumes
AppendMissing(p, n, volume) ==
  IF n \in VolumeNames(p.volumes) THEN p ELSE [p EXCEPT !.volumes = Append(@, volume)]

AppendCredentials(p) ==
  LET q == IF p.credential = "file" THEN AppendMissing(p, "wi-token", Projected("wi-token")) ELSE p
  IN IF p.credential = "none" THEN q ELSE AppendMissing(q, "wi-config", Projected("wi-config"))

AppendSATokenVolume(p) ==
  IF p.hostNetwork /\ config.injectSAVolume
  THEN [p EXCEPT !.volumes = Append(@, Projected("sa-token"))] ELSE p

GetSidecarContainerVolumeSpec(volumes) ==
  <<EmptyDir("tmp")>> \o SelectSeq(<<EmptyDir("buffer"), EmptyDir("cache")>>,
                                   LAMBDA v : v.name \notin VolumeNames(volumes))

InjectPrefetch(p, native) ==
  LET c == GetMetadataPrefetchSidecarContainerSpec(p)
  IN IF validatePodHasSidecarContainerInjected(MetadataPrefetchSidecarName, p, {}).injected THEN p
     ELSE IF c.mounts = {} THEN DeleteContainer(p, c.name)
     ELSE injectSidecarContainer(p, c, native, GcsFuseSidecarName)

AddMounts(containers) ==
  [i \in DOMAIN containers |->
     IF containers[i].name = GcsFuseSidecarName
     THEN [containers[i] EXCEPT !.mounts = @ \cup {"ephemeral-cache", "ram-cache"}]
     ELSE containers[i]]

LabelAndGate(p, cacheCreatedByUser) ==
  [p EXCEPT !.managed = TRUE, !.gated = TRUE, !.cacheByUser = @ \/ cacheCreatedByUser]

ModifyPodSpecForGCSFuseProfiles(p, cacheCreatedByUser) ==
  LET q == AppendMissing(AppendMissing(LabelAndGate(p, cacheCreatedByUser),
                                       "ephemeral-cache", EmptyDir("ephemeral-cache")),
                         "ram-cache", EmptyDir("ram-cache"))
  IN [q EXCEPT !.initContainers = AddMounts(@), !.containers = AddMounts(@)]

\* As if asked after the cache volume is added.
CacheAlwaysCreated(p) == TRUE

CacheCreatedByUser(p) == "cache" \in VolumeNames(p.volumes)

\* Handle from the credentials on, when nothing fails.
Injected(p) ==
  LET native   == injectAsNativeSidecar(p)
      creds    == AppendCredentials(p)
      sidecar  == injectSidecarContainer(creds, GetSidecarContainerSpec(creds), native,
                                         IstioSidecarName)
      token    == AppendSATokenVolume(sidecar)
      volumes  == [token EXCEPT !.volumes = GetSidecarContainerVolumeSpec(@) \o @]
      prefetch == InjectPrefetch(volumes, native)
  IN IF config.profiles /\ IsGCSFuseProfilesEnabled(prefetch)
     THEN ModifyPodSpecForGCSFuseProfiles(prefetch, CacheCreatedByUser(token))
     ELSE prefetch

\* What makes it fail: the ConfigMap, a token file on the host network, an
\* additional mount, a resource annotation that does not parse, an image of the
\* user.  The prefetch sidecar is prepared even if no volume wants it.
SidecarRefused(p) ==
  \/ p.credential = "invalid"
  \/ p.hostNetwork /\ p.credential = "file"
  \/ ~p.mountsWellFormed
  \/ ~(p.additionalMounts \subseteq VolumeNames(AppendCredentials(p).volumes))
  \/ GcsFuseSidecarName \in p.badResources
  \/ "invalid" \in Images(p, GcsFuseSidecarName)

PrefetchRefused(p) ==
  /\ \/ MetadataPrefetchSidecarName \in p.badResources
     \/ "invalid" \in Images(p, MetadataPrefetchSidecarName)
  /\ ~validatePodHasSidecarContainerInjected(MetadataPrefetchSidecarName, p, {}).injected

-----------------------------------------------------------------------------
Refuse(c) == pc' = "refused" /\ resp' = c /\ UNCHANGED <<config, submitted, view, pod, admissions>>
Allow     == pc' = "admitted" /\ resp' = "allowed" /\ UNCHANGED <<config, submitted, view, pod, admissions>>
Patch(p)  == pc' = "admitted" /\ resp' = "patched" /\ pod' = p
             /\ UNCHANGED <<config, submitted, view, admissions>>

NoError  == pc = "submitted" /\ Classes \cap {"400", "500"} = {}
Sidecar  == NoError /\ "shared" \notin Classes       \* no shared node mount
Enabled  == Sidecar /\ pod.enableAnnotation = "true"
ToInject == Enabled /\ ~ValidatePodHasSidecarContainerInjected(pod).injected

VolumeRefused == pc = "submitted" /\ Classes \cap {"400", "500"} # {} /\ Refuse(FirstError)
MixedRefused  == NoError /\ {"shared", "standard"} \subseteq Classes /\ Refuse("400")

HandleSharedNodeMount ==
  /\ NoError /\ "shared" \in Classes /\ "standard" \notin Classes
  /\ IF config.profiles /\ IsGCSFuseProfilesEnabled(pod)
     THEN Patch(LabelAndGate(pod, FALSE)) ELSE Allow

NotEnabled        == Sidecar /\ pod.enableAnnotation \in {"unset", "false"} /\ Allow
AnnotationRefused == Sidecar /\ pod.enableAnnotation = "invalid" /\ Refuse("400")
AlreadyInjected   == Enabled /\ ValidatePodHasSidecarContainerInjected(pod).injected /\ Allow
InjectRefused ==
  ToInject /\ (SidecarRefused(pod) \/ PrefetchRefused(pod)) /\ Refuse("400")

\* The node lister fails, or the metadata server does not know the project.
InjectFails ==
  /\ ToInject
  /\ \/ config.serverVersion # "old"
     \/ pod.hostNetwork /\ config.injectSAVolume /\ ~SidecarRefused(pod)
  /\ Refuse("500")

Inject ==
  ToInject /\ ~SidecarRefused(pod) /\ ~PrefetchRefused(pod) /\ Patch(Injected(pod))

\* The admitted Pod, whose gate the scanner may have removed, is created again
\* under another name from its own spec; the listers may have moved on.
Recreate ==
  /\ pc = "admitted" /\ admissions < MaxAdmissions
  /\ pc' = "submitted" /\ resp' = "" /\ admissions' = admissions + 1
  /\ view' \in Views
  /\ \E g \in {pod.gated, FALSE} : pod' = [pod EXCEPT !.gated = g]
  /\ UNCHANGED <<config, submitted>>

Next ==
  \/ VolumeRefused \/ MixedRefused \/ HandleSharedNodeMount
  \/ NotEnabled \/ AnnotationRefused \/ AlreadyInjected
  \/ InjectRefused \/ InjectFails \/ Inject
  \/ Recreate

Spec == Init /\ [][Next]_vars

-----------------------------------------------------------------------------
AllContainers(p) == p.initContainers \o p.containers
Position(name, list) == SelectInSeq(list, LAMBDA c : c.name = name)
Ours == {GcsFuseSidecarName, MetadataPrefetchSidecarName}
Sidecars(p) == SelectSeq(AllContainers(p), LAMBDA c : c.name = GcsFuseSidecarName)

\* The first admission ended in an injection.
FreshlyInjected ==
  /\ resp = "patched" /\ admissions = 1 /\ Sidecars(pod) # <<>>

\* A Pod that leaves Handle with a sidecar is one NodePublishVolume accepts: a
\* single sidecar, in the list that injectAsNativeSidecar chose, which
\* ValidatePodHasSidecarContainerInjected recognises.
InjectedPodAccepted ==
  FreshlyInjected =>
    /\ ValidatePodHasSidecarContainerInjected(pod)
         = [injected |-> TRUE, native |-> injectAsNativeSidecar(submitted)]
    /\ Len(Sidecars(pod)) = 1

\* Containers start in the order of their lists: the gcsfuse sidecar comes
\* after istio-proxy, the prefetch sidecar after the gcsfuse sidecar (unless
\* it came with the Pod, complete), and the user's own containers keep their
\* order (containerIndexOrderMap, insert).
StartOrderKept ==
  FreshlyInjected =>
    LET Kept(list) == SelectSeq(list, LAMBDA c : c.name \notin Ours)
        own == validatePodHasSidecarContainerInjected(MetadataPrefetchSidecarName, submitted, {})
    IN /\ Kept(pod.initContainers) = Kept(submitted.initContainers)
       /\ Kept(pod.containers) = Kept(submitted.containers)
       /\ \A list \in {pod.initContainers, pod.containers} :
            /\ Position(GcsFuseSidecarName, list) # 0 =>
                 Position(IstioSidecarName, list) < Position(GcsFuseSidecarName, list)
            /\ Position(MetadataPrefetchSidecarName, list) # 0 /\ ~own.injected =>
                 Position(GcsFuseSidecarName, list) \in 1 .. Position(MetadataPrefetchSidecarName, list)

\* A Pod that Handle patches and that uses a profile waits for the bucket scan
\* behind the gate, and its label says that the cache volume is the user's
\* own exactly if the user submitted one: the recommender relies on it.
ProfilePodGated ==
  resp = "patched" /\ admissions = 1 /\ config.profiles /\ IsGCSFuseProfilesEnabled(pod) =>
    /\ pod.gated /\ pod.managed
    /\ Sidecars(pod) # <<>> =>
         pod.cacheByUser = (submitted.cacheByUser \/ "cache" \in VolumeNames(submitted.volumes))

\* Injection happens once: when a Pod that has our sidecar is admitted again,
\* whatever the listers show by then, no container, mount or volume changes.
InjectedOnce ==
  [][(\E c \in ToSet(Sidecars(pod)) : c.nobody /\ "tmp" \in c.mounts) =>
       /\ pod'.containers = pod.containers /\ pod'.initContainers = pod.initContainers
       /\ pod'.volumes = pod.volumes]_vars
=============================================================================
