-------------------------- MODULE VolumeLifecycle ---------------------------
(***************************************************************************)
(* What the node driver promises about a sidecar-mode volume, without      *)
(* handlers, locks or objects: what the process keeps for a target path    *)
(* comes and goes one thing at a time, a kernel-params monitor runs only   *)
(* for a target that is mounted and that the driver knows, the metrics     *)
(* collector goes before the driver forgets the target, forgetting it ends *)
(* its monitor, and only then the target is unmounted.  A restart loses    *)
(* everything but the mounts.                                              *)
(***************************************************************************)

CONSTANT Targets

VARIABLES
  mounted,     \* targets with a mount
  known,       \* targets the driver keeps a VolumeState for
  monitored,   \* targets with a running kernel-params monitor
  collected    \* targets with a metrics collector

vars == <<mounted, known, monitored, collected>>

Init == mounted = {} /\ known = {} /\ monitored = {} /\ collected = {}

Learn(t) ==
  /\ t \notin known /\ known' = known \cup {t}
  /\ UNCHANGED <<mounted, monitored, collected>>

Collect(t) ==
  /\ t \notin collected /\ collected' = collected \cup {t}
  /\ UNCHANGED <<mounted, known, monitored>>

Mount(t) ==
  /\ t \notin mounted /\ mounted' = mounted \cup {t}
  /\ UNCHANGED <<known, monitored, collected>>

Monitor(t) ==
  /\ t \in mounted \cap known /\ monitored' = monitored \cup {t}
  /\ UNCHANGED <<mounted, known, collected>>

\* The monitor gives up.
MonitorEnds(t) ==
  /\ t \in monitored /\ monitored' = monitored \ {t}
  /\ UNCHANGED <<mounted, known, collected>>

StopCollecting(t) ==
  /\ t \in collected /\ collected' = collected \ {t}
  /\ UNCHANGED <<mounted, known, monitored>>

Forget(t) ==
  /\ t \in known \ collected
  /\ known' = known \ {t} /\ monitored' = monitored \ {t}
  /\ UNCHANGED <<mounted, collected>>

Unmount(t) ==
  /\ t \in mounted /\ t \notin known \cup monitored \cup collected
  /\ mounted' = mounted \ {t}
  /\ UNCHANGED <<known, monitored, collected>>

Restart ==
  /\ known' = {} /\ monitored' = {} /\ collected' = {}
  /\ UNCHANGED mounted

Next ==
  \/ \E t \in Targets : \/ Learn(t) \/ Collect(t) \/ Mount(t) \/ Monitor(t) \/ MonitorEnds(t)
                        \/ StopCollecting(t) \/ Forget(t) \/ Unmount(t)
  \/ Restart

Spec == Init /\ [][Next]_vars
=============================================================================
