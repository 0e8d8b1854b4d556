--------------------------- MODULE MetricsManager ---------------------------
(***************************************************************************)
(* The registry of metrics collectors of the node driver                   *)
(* (pkg/metrics/metrics.go).  A registry is a function from mount paths to *)
(* the identity <<pod, volume>> of the collector registered there, or      *)
(* NoCollector.  Both mm.collectors and mm.volumeMountPathRegistered are   *)
(* read off it: the manager changes them together, under mm.mutex.         *)
(***************************************************************************)
EXTENDS Integers, FiniteSets

NoCollector == <<>>

Registered(registry) == {p \in DOMAIN registry : registry[p] # NoCollector}

UnregisterMetricsCollector(registry, path) ==
  [registry EXCEPT ![path] = NoCollector]

\* Mutant: one collector too many is let in.
RegisterOneTooMany(registry, limit, path, id) ==
  LET dropped == UnregisterMetricsCollector(registry, path)
      full    == limit > 0 /\ Cardinality(Registered(dropped)) > limit
  IN  IF limit = 0 \/ registry[path] = id THEN registry
      ELSE IF full THEN dropped
      ELSE [dropped EXCEPT ![path] = id]

\* The registry once RegisterMetricsCollector(path, id) holds the mutex: a
\* collector with the same identity stays, one with another identity is
\* dropped first; a full registry (limit > 0), a disabled one (limit = 0) and
\* an identity that Prometheus already knows leave the path unregistered.
RegisterMetricsCollector(registry, limit, path, id) ==
  LET dropped == UnregisterMetricsCollector(registry, path)
      full    == limit > 0 /\ Cardinality(Registered(dropped)) >= limit
      taken   == \E p \in Registered(dropped) : dropped[p] = id
  IN  IF limit = 0 \/ registry[path] = id THEN registry
      ELSE IF full \/ taken THEN dropped
      ELSE [dropped EXCEPT ![path] = id]
=============================================================================
