----------------------------- MODULE MCWebhook ------------------------------
(***************************************************************************)
(* Pods, lister views and clusters for the webhook: containers, volumes    *)
(* and annotations are varied in turn, each with every view and every      *)
(* configuration.                                                          *)
(***************************************************************************)
EXTENDS Webhook

C(name, image, nobody) ==
  [name |-> name, image |-> image, nobody |-> nobody, mounts |-> {}]
App   == C("app", "default", FALSE)
Istio == C(IstioSidecarName, "default", FALSE)
Own(image) == C(GcsFuseSidecarName, image, FALSE)
OwnPrefetch(image, nobody) == C(MetadataPrefetchSidecarName, image, nobody)

Claim(n) == [name |-> n, kind |-> "claim", prefetch |-> "unset", dynamic |-> FALSE]
Ephemeral(prefetch, dynamic) ==
  [name |-> "inline", kind |-> "ephemeral", prefetch |-> prefetch, dynamic |-> dynamic]

Plain ==
  [volumes |-> <<Claim("c1")>>, containers |-> <<App>>, initContainers |-> <<>>,
   enableAnnotation |-> "true", nativeAnnotation |-> "unset", credential |-> "none",
   additionalMounts |-> {}, mountsWellFormed |-> TRUE, badResources |-> {},
   hostNetwork |-> FALSE, fsGroup |-> "", account |-> "",
   gated |-> FALSE, managed |-> FALSE, cacheByUser |-> FALSE]

ByContainers ==
  {[Plain EXCEPT !.containers = c, !.initContainers = i, !.volumes = v, !.nativeAnnotation = n] :
     c \in {<<App>>, <<Istio, App>>, <<App, Own("old")>>, <<OwnPrefetch("new", FALSE), App>>,
            <<App, Istio, Own("invalid")>>},
     i \in {<<>>, <<App, Istio, App>>, <<Own("new"), Istio>>, <<OwnPrefetch("invalid", TRUE)>>,
            <<OwnPrefetch("invalid", FALSE)>>},
     v \in {<<Claim("c1")>>, <<Ephemeral("true", FALSE)>>},
     n \in {"unset", "false", "invalid"}}

ByVolumes ==
  {[Plain EXCEPT !.volumes = v \o w, !.hostNetwork = h, !.credential = c,
                 !.additionalMounts = m] :
     v \in {<<>>, <<Claim("c1"), Claim("c2")>>, <<Claim("c2"), Ephemeral("true", TRUE)>>},
     w \in {<<>>, <<EmptyDir("cache")>>, <<EmptyDir("ram-cache"), EmptyDir("buffer")>>,
            <<Projected("wi-token"), EmptyDir("ephemeral-cache")>>},
     h \in BOOLEAN, c \in {"none", "file", "executable", "invalid"},
     m \in {{}, {"wi-config"}, {"cache"}}}

ByAnnotations ==
  {[Plain EXCEPT !.volumes = v, !.enableAnnotation = e, !.fsGroup = g, !.account = a,
                 !.mountsWellFormed = m, !.badResources = b] :
     v \in {<<Claim("c1")>>, <<Claim("c2"), Claim("c1")>>},
     e \in {"unset", "true", "false", "invalid"}, g \in {"", "1000"}, a \in {"", "default", "ksa"},
     m \in BOOLEAN, b \in {{}, {GcsFuseSidecarName}, {MetadataPrefetchSidecarName}}}

AllSubmissions == ByContainers \cup ByVolumes \cup ByAnnotations

Template(state, fsGroup, account) == [state |-> state, fsGroup |-> fsGroup, account |-> account]
Object ==
  [pvc |-> "found", pv |-> "gcsfuse", shared |-> FALSE, template |-> Template("unnamed", "", ""),
   class |-> "plain", prefetch |-> "unset", dynamic |-> FALSE, classPrefetch |-> FALSE]
Shared == [Object EXCEPT !.shared = TRUE, !.template = Template("found", "", "ksa")]

First ==
  {Object, [Object EXCEPT !.pvc = "notFound"],
   [Object EXCEPT !.class = "profile", !.classPrefetch = TRUE],
   [Shared EXCEPT !.class = "profile", !.template = Template("found", "1000", "default")]}
Second ==
  {Object, Shared, [Object EXCEPT !.pvc = "error"], [Object EXCEPT !.pv = "other", !.class = "profile"],
   [Shared EXCEPT !.pvc = "deleted"], [Shared EXCEPT !.template = Template("notFound", "", "")],
   [Shared EXCEPT !.template = Template("error", "", "")],
   [Shared EXCEPT !.template = Template("unnamed", "", "")],
   [Object EXCEPT !.prefetch = "true"]}
AllViews == {[c1 |-> o, c2 |-> p] : o \in First, p \in Second}

\* The old cluster has no native sidecars; in the mixed one a node is old.
Cluster(server, nodes, on) ==
  [sharedNodeMount |-> on, profiles |-> on, injectSAVolume |-> on, serverVersion |-> server,
   nodeVersions |-> nodes]
AllConfigs ==
  {Cluster("new", {"new"}, TRUE), Cluster("new", {"old", "new"}, TRUE), Cluster("old", {"old"}, TRUE),
   Cluster("unset", {}, FALSE)}
=============================================================================
