---------------------------- MODULE SidecarMount -----------------------------
(***************************************************************************)
(* The two-step mount of a Pod's volumes in sidecar mode.  The driver      *)
(* (pkg/csi_mounter) opens /dev/fuse, mounts it, and offers the descriptor *)
(* on a unix socket; the sidecar (cmd/sidecar_mounter,                     *)
(* pkg/sidecar_mounter) fetches it, starts gcsfuse with it and reports     *)
(* through the ready and error files of an emptyDir that outlives both     *)
(* processes.  A FUSE session is numbered by the Mount that made it.       *)
(***************************************************************************)
EXTENDS Integers, FiniteSets

CONSTANTS
  Volumes,            \* GCS volumes of the Pod
  NoVolume,           \* no volume of the Pod
  Native,             \* the sidecar is a native sidecar (init container)
  RestartPolicy,      \* of the Pod
  MaxMounts,          \* bound: FUSE sessions made
  MaxFds,             \* bound: descriptors of the driver process
  MaxForeign,         \* bound: volumes of other Pods mounted meanwhile
  MaxFaults,          \* bound: listeners that time out, files that cannot be removed,
                      \* restarts of the driver and sidecar containers that are killed
  MaxNodeRestarts,    \* bound: restarts of the node
  MaxDeletions        \* bound: deletions of the Pod, 0 or 1

Sessions == 1..MaxMounts
Fds      == 1..MaxFds

ASSUME BoundsAssumption ==
  /\ NoVolume \notin Volumes /\ Native \in BOOLEAN
  /\ RestartPolicy \in {"Always", "OnFailure", "Never"}
  /\ MaxMounts \in Nat /\ MaxFds \in Nat /\ MaxForeign \in Nat
  /\ MaxFaults \in Nat /\ MaxNodeRestarts \in Nat /\ MaxDeletions \in 0..1

VARIABLES
  \* the node and the emptyDir of the Pod
  mnt,        \* the session mounted at the target of a volume, 0 if none
  socket,     \* the session whose listener made the volume's socket file, 0 if none
  ready,      \* volumes with a ready file
  errfile,    \* volumes with a non-empty error file
  stuck,      \* volumes whose ready file could not be removed when it should
  exitfile,   \* the exit file exists
  \* the driver process
  mounting,   \* the volume whose Mount holds Mounter.mux, and its next step
  nmounts,    \* sessions made so far
  sess,       \* what the driver keeps of a session
  fdtab,      \* descriptor table: the session an open descriptor belongs to
  published,  \* volumes published successfully since they were last torn down
  \* the sidecar process
  side,       \* "off", "mounting", "waiting" for a signal, "stopping", "exited", or "dead":
              \* ended with an error and not to be started again
  todo,       \* socket paths found at start and not yet handled
  cur,        \* the volume being set up, its next step and its connection
  cancelled,  \* the context of the sidecar is cancelled
  gcs,        \* the gcsfuse process of a volume
  gfail,      \* the last session whose gcsfuse ended with an error
  \* the rest of the Pod, and faults
  done,         \* the other containers have ended for good
  terminating,  \* the Pod has been deleted
  faults,       \* faults so far
  reboots       \* node restarts so far

files   == <<mnt, socket, ready, errfile, stuck, exitfile>>
driver  == <<mounting, nmounts, sess, fdtab, published>>
sidecar == <<side, todo, cur, cancelled, gcs, gfail>>
world   == <<done, terminating, faults, reboots>>
vars    == <<files, driver, sidecar, world>>

NotMounting == [vol |-> NoVolume, pc |-> "idle", n |-> 0]
NotSetUp    == [vol |-> NoVolume, pc |-> "next", n |-> 0]
NoGcsfuse   == [pc |-> "none", n |-> 0, reported |-> FALSE, watched |-> FALSE, exit |-> "ok"]
NoSession   == [vol |-> NoVolume, fd |-> 0, listener |-> "none", accept |-> "none"]

Init ==
  /\ mnt = [v \in Volumes |-> 0] /\ socket = mnt /\ gfail = mnt
  /\ ready = {} /\ errfile = {} /\ stuck = {} /\ exitfile = FALSE
  /\ mounting = NotMounting /\ nmounts = 0 /\ published = {}
  /\ sess = [n \in Sessions |-> NoSession]
  /\ fdtab = [f \in Fds |-> 0]
  /\ side = "off" /\ todo = {} /\ cur = NotSetUp /\ cancelled = FALSE
  /\ gcs = [v \in Volumes |-> NoGcsfuse]
  /\ done = FALSE /\ terminating = FALSE
  /\ faults = 0 /\ reboots = 0

SidecarRuns == side \in {"mounting", "waiting", "stopping"}

\* No container of the Pod runs any more or will be started again.
PodOver ==
  \/ side \in {"exited", "dead"}
  \/ side = "off" /\ (terminating \/ (Native /\ done))

Fault == faults < MaxFaults /\ faults' = faults + 1

-----------------------------------------------------------------------------
(***************************************************************************)
(* The driver: Mounter.Mount, startAcceptConn and the timeout goroutine.   *)
(***************************************************************************)

\* open(2) returns the lowest free descriptor.
OpensFd(f) == fdtab[f] = 0 /\ \A g \in Fds : fdtab[g] = 0 => f <= g

CloseFd(f) == [fdtab EXCEPT ![f] = 0]

\* NodePublishVolume asks a regular sidecar to exit when no other container of
\* the Pod will run again.  The containers of a Pod that is being deleted are
\* not looked at.
putExitFile ==
  /\ ~Native
  /\ RestartPolicy \in {"OnFailure", "Never"}
  /\ done /\ ~terminating

\* NodePublishVolume finds the target not mounted and calls Mount.
MountFuse(v) ==
  /\ mounting = NotMounting /\ mnt[v] = 0 /\ nmounts < MaxMounts /\ ~PodOver
  /\ exitfile' = (exitfile \/ putExitFile)
  /\ LET n == nmounts + 1
     IN  /\ nmounts' = n
         /\ mnt' = [mnt EXCEPT ![v] = n]
         /\ mounting' = [vol |-> v, pc |-> "socket", n |-> n]
         /\ \E f \in Fds :
              /\ OpensFd(f)
              /\ fdtab' = [fdtab EXCEPT ![f] = n]
              /\ sess' = [sess EXCEPT ![n] = [NoSession EXCEPT !.vol = v, !.fd = f]]
  /\ UNCHANGED <<socket, ready, errfile, stuck, published, sidecar, world>>

\* The mount itself fails: Mount returns and its descriptor stays open.
MountFuseFails(v) ==
  /\ mounting = NotMounting /\ mnt[v] = 0 /\ nmounts < MaxMounts /\ ~PodOver
  /\ exitfile' = (exitfile \/ putExitFile)
  /\ nmounts' = nmounts + 1
  /\ \E f \in Fds : OpensFd(f) /\ fdtab' = [fdtab EXCEPT ![f] = nmounts + 1]
  /\ sess' = [sess EXCEPT ![nmounts + 1] = [NoSession EXCEPT !.vol = v]]
  /\ UNCHANGED <<mnt, socket, ready, errfile, stuck, mounting, published, sidecar, world>>

\* Mounts of other Pods' volumes take descriptors and give them back.
Foreign == {n \in 1..nmounts : sess[n].vol = NoVolume}

ForeignMount ==
  /\ mounting = NotMounting /\ nmounts < MaxMounts /\ Cardinality(Foreign) < MaxForeign
  /\ nmounts' = nmounts + 1
  /\ \E f \in Fds :
       /\ OpensFd(f)
       /\ fdtab' = [fdtab EXCEPT ![f] = nmounts + 1]
       /\ sess' = [sess EXCEPT ![nmounts + 1].fd = f]
  /\ UNCHANGED <<files, mounting, published, sidecar, world>>

ForeignClose(n) ==
  /\ n \in Foreign /\ fdtab[sess[n].fd] = n
  /\ fdtab' = CloseFd(sess[n].fd)
  /\ UNCHANGED <<files, mounting, nmounts, sess, published, sidecar, world>>

\* createSocket replaces a stale socket file by the one of a new listener.
CreateSocket ==
  /\ mounting.pc = "socket"
  /\ socket' = [socket EXCEPT ![mounting.vol] = mounting.n]
  /\ sess' = [sess EXCEPT ![mounting.n].listener = "open"]
  /\ mounting' = [mounting EXCEPT !.pc = "clean"]
  /\ UNCHANGED <<mnt, ready, errfile, stuck, exitfile, nmounts, fdtab, published>>
  /\ UNCHANGED <<sidecar, world>>

\* Mutant: the descriptor of a Mount that could not create its socket stays open.
CreateSocketFailsOpen ==
  LET v == mounting.vol
      n == mounting.n
  IN  /\ mounting.pc = "socket"
      /\ socket' = [socket EXCEPT ![v] = 0]
      /\ mnt' = [mnt EXCEPT ![v] = 0]
      /\ mounting' = NotMounting
      /\ UNCHANGED <<ready, errfile, stuck, exitfile, nmounts, sess, fdtab, published>>
      /\ UNCHANGED <<sidecar, world>>

\* createSocket fails before or after it has a listener; Mount closes the
\* descriptor and unmounts, which may fail, but leaves the listener and its
\* socket file.
CreateSocketFails ==
  LET v == mounting.vol
      n == mounting.n
  IN  /\ mounting.pc = "socket"
      /\ \/ socket' \in {socket, [socket EXCEPT ![v] = 0]} /\ UNCHANGED sess
         \/ /\ socket' = [socket EXCEPT ![v] = n]
            /\ sess' = [sess EXCEPT ![n].listener = "open"]
      /\ fdtab' = CloseFd(sess[n].fd)
      /\ mnt' = [mnt EXCEPT ![v] = 0] \/ UNCHANGED mnt
      /\ mounting' = NotMounting
      /\ UNCHANGED <<ready, errfile, stuck, exitfile, nmounts, published>>
      /\ UNCHANGED <<sidecar, world>>

\* The stale error and ready files go before the descriptor can be fetched; one
\* that cannot be removed stays.  Then the goroutines start and
\* NodePublishVolume succeeds.
CleanStaleFiles ==
  LET v == mounting.vol
  IN  /\ mounting.pc = "clean"
      /\ \/ errfile' = errfile \ {v} /\ ready' = ready \ {v} /\ UNCHANGED faults
         \/ Fault /\ errfile' = errfile \ {v} /\ UNCHANGED ready
         \/ Fault /\ ready' = ready \ {v} /\ UNCHANGED errfile
      /\ stuck' = stuck \cap ready'
      /\ sess' = [sess EXCEPT ![mounting.n].accept = "waiting"]
      /\ published' = published \cup {v}
      /\ mounting' = NotMounting
      /\ UNCHANGED <<mnt, socket, exitfile, nmounts, fdtab, sidecar>>
      /\ UNCHANGED <<done, terminating, reboots>>

\* The garbage collector closes the listener a failed Mount has dropped; the
\* socket file stays.
CollectListener(n) ==
  /\ sess[n].listener = "open" /\ sess[n].accept = "none" /\ mounting.n # n
  /\ sess' = [sess EXCEPT ![n].listener = "closed"]
  /\ UNCHANGED <<files, mounting, nmounts, fdtab, published, sidecar, world>>

\* Mutant: the error file is looked at before the exit file is put.
RepublishErrorFirst(v) ==
  /\ mnt[v] # 0 /\ mounting.vol # v /\ v \notin errfile
  /\ exitfile' = (exitfile \/ putExitFile)
  /\ published' = published \cup {v}
  /\ UNCHANGED <<mnt, socket, ready, errfile, stuck, mounting, nmounts, sess, fdtab>>
  /\ UNCHANGED <<sidecar, world>>

\* A republish of a mounted target that has passed the checks before line 480.
\* It succeeds unless a sidecar container has left an error, whoever
\* holds the descriptor.
Republish(v) ==
  /\ mnt[v] # 0 /\ mounting.vol # v
  /\ exitfile' = (exitfile \/ putExitFile)
  /\ published' = IF v \in errfile /\ side # "off" THEN published ELSE published \cup {v}
  /\ UNCHANGED <<mnt, socket, ready, errfile, stuck, mounting, nmounts, sess, fdtab>>
  /\ UNCHANGED <<sidecar, world>>

\* The sidecar's connection is accepted, or the listener was closed before.
Accept(n) ==
  /\ sess[n].accept = "waiting"
  /\ \/ sess[n].listener = "open" /\ cur.pc = "recv" /\ cur.n = n
        /\ sess' = [sess EXCEPT ![n].accept = "sending"]
     \/ sess[n].listener = "closed"
        /\ sess' = [sess EXCEPT ![n].accept = "done"]
  /\ UNCHANGED <<files, mounting, nmounts, fdtab, published, sidecar, world>>

\* Mutant: the goroutines share the descriptor of the latest Mount.
SendLatestFd(n) ==
  LET v == cur.vol
  IN  /\ sess[n].accept \in {"sending", "late"} /\ cur.pc = "recv" /\ cur.n = n
      /\ sess' = [sess EXCEPT ![n].accept = IF @ = "late" THEN "sentLate" ELSE "done"]
      /\ cur' = [cur EXCEPT !.pc = "access", !.n = nmounts]
      /\ socket' = [socket EXCEPT ![v] = 0]
      /\ UNCHANGED <<mnt, ready, errfile, stuck, exitfile, mounting, nmounts, fdtab, published>>
      /\ UNCHANGED <<side, todo, cancelled, gcs, gfail, world>>

\* SendMsg passes whatever the number of the descriptor refers to by now; the
\* sidecar takes it and deletes the socket file, or gets an error if the
\* descriptor is closed.
SendFd(n) ==
  LET v == cur.vol
      m == fdtab[sess[n].fd]
  IN  /\ sess[n].accept \in {"sending", "late"} /\ cur.pc = "recv" /\ cur.n = n
      /\ sess' = [sess EXCEPT ![n].accept = IF @ = "late" THEN "sentLate" ELSE "done"]
      /\ \/ /\ m # 0
            /\ cur' = [cur EXCEPT !.pc = "access", !.n = m]
            /\ socket' = [socket EXCEPT ![v] = 0]
            /\ UNCHANGED errfile
         \/ /\ m = 0
            /\ cur' = NotSetUp
            /\ errfile' = errfile \cup {v}
            /\ UNCHANGED socket
      /\ UNCHANGED <<mnt, ready, stuck, exitfile, mounting, nmounts, fdtab, published>>
      /\ UNCHANGED <<side, todo, cancelled, gcs, gfail, world>>

\* The goroutine of Mount closes listener and descriptor once.  listener.Close
\* removes the file at its path, whoever made it.
CloseListenerAndFd(n) ==
  /\ socket' = [socket EXCEPT ![sess[n].vol] = 0]
  /\ fdtab' = CloseFd(sess[n].fd)
  /\ UNCHANGED <<mnt, ready, errfile, stuck, exitfile, mounting, nmounts, published>>
  /\ UNCHANGED <<sidecar, done, terminating, reboots>>

\* startAcceptConn has returned and cancelled the context.
HandoffEnds(n) ==
  /\ sess[n].accept = "done" /\ sess[n].listener = "open"
  /\ sess' = [sess EXCEPT ![n].listener = "closed"]
  /\ CloseListenerAndFd(n) /\ UNCHANGED faults

\* The hour is over before startAcceptConn has returned.
Expire(n) ==
  /\ sess[n].accept \in {"waiting", "sending"} /\ sess[n].listener = "open"
  /\ sess' = [sess EXCEPT ![n].listener = "closed",
                          ![n].accept = IF @ = "sending" THEN "late" ELSE @]
  /\ Fault /\ CloseListenerAndFd(n)

\* NodeUnpublishVolume after the containers have stopped: CleanupSocket, unmount.
Unpublish(v) ==
  /\ PodOver /\ (done \/ terminating) /\ mounting = NotMounting
  /\ v \in published \/ mnt[v] # 0
  /\ socket' = [socket EXCEPT ![v] = 0]
  /\ mnt' = [mnt EXCEPT ![v] = 0]
  /\ published' = published \ {v}
  /\ UNCHANGED <<ready, errfile, stuck, exitfile, mounting, nmounts, sess, fdtab>>
  /\ UNCHANGED <<sidecar, world>>

-----------------------------------------------------------------------------
(***************************************************************************)
(* The sidecar: main, NewMountConfig, Mounter.Mount.                       *)
(***************************************************************************)

\* Mutant: the error files are taken for stale, too.
SidecarStartsWithoutErrors ==
  /\ side = "off" /\ published = Volumes /\ ~PodOver
  /\ side' = "mounting"
  /\ ready' = {} /\ errfile' = {} /\ stuck' = {}
  /\ todo' = {v \in Volumes : socket[v] # 0}
  /\ UNCHANGED <<mnt, socket, exitfile, driver, cur, cancelled, gcs, gfail, world>>

\* Mutant: the search also finds a socket that belongs to no volume.
SidecarStartsWithAnySocket ==
  /\ side = "off" /\ published = Volumes /\ ~PodOver
  /\ side' = "mounting"
  /\ ready' = {} /\ stuck' = {}
  /\ todo' = {v \in Volumes : socket[v] # 0} \cup {NoVolume}
  /\ UNCHANGED <<mnt, socket, errfile, exitfile, driver, cur, cancelled, gcs, gfail, world>>

\* Containers start once every volume is published, and are started again.  The
\* sidecar removes stale ready files, as far as it can, and looks once for the
\* sockets it will serve.
SidecarStarts ==
  /\ side = "off" /\ published = Volumes /\ ~PodOver
  /\ side' = "mounting"
  /\ \/ ready' = {} /\ stuck' = {} /\ UNCHANGED faults
     \/ Fault /\ ready # {} /\ stuck' = ready /\ UNCHANGED ready
  /\ todo' = {v \in Volumes : socket[v] # 0}
  /\ UNCHANGED <<mnt, socket, errfile, exitfile, driver, cur, cancelled, gcs, gfail>>
  /\ UNCHANGED <<done, terminating, reboots>>

Listening(v) == socket[v] # 0 /\ sess[socket[v]].listener = "open"

\* net.Dial succeeds if somebody listens on the socket, accepting or not.
Dial(v) ==
  /\ side = "mounting" /\ cur.pc = "next" /\ v \in todo
  /\ todo' = todo \ {v}
  /\ \/ /\ Listening(v)
        /\ cur' = [vol |-> v, pc |-> "recv", n |-> socket[v]]
        /\ UNCHANGED errfile
     \/ /\ ~Listening(v)
        /\ errfile' = errfile \cup {v}
        /\ UNCHANGED cur
  /\ UNCHANGED <<mnt, socket, ready, stuck, exitfile, driver>>
  /\ UNCHANGED <<side, cancelled, gcs, gfail, world>>

\* The connection breaks when its listener or the driver goes away before the
\* descriptor was sent.
RecvFails ==
  /\ cur.pc = "recv"
  /\ sess[cur.n].listener # "open" /\ sess[cur.n].accept \notin {"sending", "late"}
  /\ errfile' = errfile \cup {cur.vol}
  /\ cur' = NotSetUp
  /\ UNCHANGED <<mnt, socket, ready, stuck, exitfile, driver>>
  /\ UNCHANGED <<side, todo, cancelled, gcs, gfail, world>>

\* The process of the sidecar ends with an error, and its gcsfuse processes with
\* it; the kubelet starts it again or not.
SidecarFalls ==
  /\ side' = IF ~SidecarRuns THEN side
             ELSE IF Native \/ RestartPolicy # "Never" THEN "off" ELSE "dead"
  /\ todo' = {} /\ cur' = NotSetUp /\ cancelled' = FALSE
  /\ gcs' = [v \in Volumes |-> NoGcsfuse]

\* The message, the config file, the token server or the directories fail.
SetUpFails ==
  /\ cur.pc = "access"
  /\ errfile' = errfile \cup {cur.vol}
  /\ cur' = NotSetUp
  /\ UNCHANGED <<mnt, socket, ready, stuck, exitfile, driver>>
  /\ UNCHANGED <<side, todo, cancelled, gcs, gfail, world>>

\* klog.Fatalf when SetupTokenAndStorageManager gives up.
SetUpFatal ==
  /\ cur.pc = "access"
  /\ SidecarFalls
  /\ UNCHANGED <<files, driver, gfail, world>>

\* executeFuncWithRetry of the token manager and of the bucket access check has
\* no limit.  It reports each failure, and keeps the other volumes waiting.
SetUpRetries ==
  /\ cur.pc = "access"
  /\ errfile' = errfile \cup {cur.vol}
  /\ UNCHANGED <<mnt, socket, ready, stuck, exitfile, driver, sidecar, world>>

\* Otherwise the error file is cleaned and the gcsfuse goroutine is started.
SetUp ==
  /\ cur.pc = "access"
  /\ errfile' = errfile \ {cur.vol}
  /\ gcs' = [gcs EXCEPT ![cur.vol] = [NoGcsfuse EXCEPT !.pc = "launch", !.n = cur.n]]
  /\ cur' = NotSetUp
  /\ UNCHANGED <<mnt, socket, ready, stuck, exitfile, driver>>
  /\ UNCHANGED <<side, todo, cancelled, gfail, world>>

\* All volumes are handled: main waits for SIGTERM or the exit file.
SidecarWaits ==
  /\ side = "mounting" /\ cur.pc = "next" /\ todo = {}
  /\ side' = "waiting"
  /\ UNCHANGED <<files, driver, todo, cur, cancelled, gcs, gfail, world>>

\* Mutant: a gcsfuse that cannot be started leaves no error file.
StartGcsfuseSilently(v) ==
  /\ gcs[v].pc = "launch"
  /\ gcs' = [gcs EXCEPT ![v].pc = "starting"] \/ gcs' = [gcs EXCEPT ![v].pc = "unstarted"]
  /\ UNCHANGED <<files, driver, side, todo, cur, cancelled, gfail, world>>

\* cmd.Start fails at once when the context is cancelled.
StartGcsfuse(v) ==
  /\ gcs[v].pc = "launch"
  /\ \/ /\ ~cancelled
        /\ gcs' = [gcs EXCEPT ![v].pc = "starting"]
        /\ UNCHANGED errfile
     \/ /\ gcs' = [gcs EXCEPT ![v].pc = "unstarted"]
        /\ errfile' = errfile \cup {v}
  /\ UNCHANGED <<mnt, socket, ready, stuck, exitfile, driver>>
  /\ UNCHANGED <<side, todo, cur, cancelled, gfail, world>>

\* gcsfuse (external) serves the session and reports codes.OK on the status pipe.
GcsfuseMounts(v) ==
  /\ gcs[v].pc = "starting"
  /\ gcs' = [gcs EXCEPT ![v].pc = "mounted", ![v].reported = TRUE]
  /\ UNCHANGED <<files, driver, side, todo, cur, cancelled, gfail, world>>

\* gcsfuse retries its mount; its standard error is the error file.
GcsfuseRetries(v) ==
  /\ gcs[v].pc = "starting"
  /\ errfile' = errfile \cup {v}
  /\ UNCHANGED <<mnt, socket, ready, stuck, exitfile, driver, sidecar, world>>

\* gcsfuse ends with an error, after an unmount, or by a signal: out of memory,
\* or the signal that follows the cancelled context.
GcsfuseExits(v) ==
  /\ gcs[v].pc \in {"starting", "mounted"}
  /\ \E how \in {"ok", "error", "signal"} :
       /\ how = "ok" => gcs[v].pc = "mounted"
       /\ gcs' = [gcs EXCEPT ![v].pc = "exited", ![v].exit = how]
  /\ UNCHANGED <<files, driver, side, todo, cur, cancelled, gfail, world>>

\* watchMountOutcome: the ready file, if it can be written, or nothing when the
\* pipe ends first.
WatchMountOutcome(v) ==
  /\ ~gcs[v].watched
  /\ \/ gcs[v].reported /\ ready' = ready \cup {v} /\ UNCHANGED faults
     \/ gcs[v].reported /\ Fault /\ UNCHANGED ready
     \/ ~gcs[v].reported /\ gcs[v].pc = "exited" /\ UNCHANGED <<ready, faults>>
  /\ stuck' = IF gcs[v].reported THEN stuck \ (ready' \cap {v}) ELSE stuck
  /\ gcs' = [gcs EXCEPT ![v].watched = TRUE]
  /\ UNCHANGED <<mnt, socket, errfile, exitfile, driver>>
  /\ UNCHANGED <<side, todo, cur, cancelled, gfail, done, terminating, reboots>>

\* "signal: terminated" and "signal: killed" are only logged, other errors go to
\* the error file.
ReportExit(v) ==
  /\ gcs' = [gcs EXCEPT ![v].pc = "reaped"]
  /\ \/ /\ gcs[v].exit = "error"
        /\ errfile' = errfile \cup {v}
        /\ gfail' = [gfail EXCEPT ![v] = gcs[v].n]
     \/ gcs[v].exit # "error" /\ UNCHANGED <<errfile, gfail>>

\* Mutant: the ready file is removed without waiting for watchMountOutcome.
WaitForGcsfuseExitOnly(v) ==
  /\ gcs[v].pc = "exited"
  /\ ready' = ready \ {v}
  /\ ReportExit(v)
  /\ UNCHANGED <<mnt, socket, stuck, exitfile, driver>>
  /\ UNCHANGED <<side, todo, cur, cancelled, world>>

\* waitForGcsfuseExit: only after the outcome was handled is the ready file
\* removed, or not if that fails.
WaitForGcsfuseExit(v) ==
  /\ gcs[v].pc = "exited" /\ gcs[v].watched
  /\ \/ ready' = ready \ {v} /\ stuck' = stuck \ {v} /\ UNCHANGED faults
     \/ Fault /\ v \in ready /\ stuck' = stuck \cup {v} /\ UNCHANGED ready
  /\ ReportExit(v)
  /\ UNCHANGED <<mnt, socket, exitfile, driver>>
  /\ UNCHANGED <<side, todo, cur, cancelled, done, terminating, reboots>>

\* monitorExitFile of a regular sidecar; the exit file stays if it cannot be removed.
MonitorExitFile ==
  /\ ~Native /\ side \in {"waiting", "stopping"} /\ exitfile /\ ~cancelled
  /\ cancelled' = TRUE /\ side' = "stopping"
  /\ exitfile' \in BOOLEAN
  /\ UNCHANGED <<mnt, socket, ready, errfile, stuck, driver>>
  /\ UNCHANGED <<todo, cur, gcs, gfail, world>>

\* SIGTERM of the kubelet: a native sidecar gets it after the other containers,
\* a regular one when the Pod is deleted.  Only the native one cancels the
\* context.  Before signal.Notify the signal ends the process.
SigTerm ==
  /\ IF Native THEN done ELSE terminating
  /\ \/ /\ side = "waiting" /\ side' = "stopping"
        /\ cancelled' = (cancelled \/ Native)
        /\ UNCHANGED <<todo, cur, gcs>>
     \/ /\ side = "mounting" /\ side' = "dead"
        /\ todo' = {} /\ cur' = NotSetUp /\ cancelled' = FALSE
        /\ gcs' = [v \in Volumes |-> NoGcsfuse]
  /\ UNCHANGED <<files, driver, gfail, world>>

\* SIGKILL after the grace period.
SigKill ==
  /\ IF Native THEN done ELSE terminating
  /\ side = "stopping" /\ side' = "dead"
  /\ todo' = {} /\ cur' = NotSetUp /\ cancelled' = FALSE
  /\ gcs' = [v \in Volumes |-> NoGcsfuse]
  /\ UNCHANGED <<files, driver, gfail, world>>

\* The kill goroutine of a gcsfuse that never started dereferences cmd.Process.
SidecarPanics ==
  /\ SidecarRuns /\ cancelled
  /\ \E v \in Volumes : gcs[v].pc \in {"launch", "unstarted"}
  /\ SidecarFalls
  /\ UNCHANGED <<files, driver, gfail, world>>

\* WaitGroup.Wait returns once no gcsfuse goroutine is left.
SidecarExits ==
  /\ side = "stopping"
  /\ \A v \in Volumes : gcs[v].pc \in {"none", "unstarted", "reaped"}
  /\ side' = "exited"
  /\ UNCHANGED <<files, driver, todo, cur, cancelled, gcs, gfail, world>>

-----------------------------------------------------------------------------
(***************************************************************************)
(* The environment: the workload, and faults.                              *)
(***************************************************************************)

\* The containers of a Pod that restarts them always end when it is deleted.
WorkloadEnds ==
  /\ side # "off" /\ ~done /\ (RestartPolicy # "Always" \/ terminating)
  /\ done' = TRUE
  /\ UNCHANGED <<files, driver, sidecar, terminating, faults, reboots>>

PodDeleted ==
  /\ MaxDeletions = 1 /\ ~terminating /\ terminating' = TRUE
  /\ UNCHANGED <<files, driver, sidecar, done, faults, reboots>>

DriverProcessGone ==
  /\ mounting' = NotMounting
  /\ fdtab' = [f \in Fds |-> 0]
  /\ sess' = [n \in Sessions |-> [sess[n] EXCEPT
                !.listener = IF @ = "none" THEN @ ELSE "closed",
                !.accept = IF @ = "sentLate" THEN @ ELSE "none"]]

DriverRestart ==
  /\ Fault
  /\ DriverProcessGone
  /\ UNCHANGED <<files, nmounts, published, sidecar, done, terminating, reboots>>

\* The container is killed; the files stay.
SidecarDies ==
  /\ SidecarRuns /\ Fault
  /\ SidecarFalls
  /\ UNCHANGED <<files, driver, gfail, done, terminating, reboots>>

\* Mounts and processes are gone, the emptyDir is not.
NodeRestart ==
  /\ reboots < MaxNodeRestarts /\ reboots' = reboots + 1
  /\ DriverProcessGone /\ SidecarFalls
  /\ mnt' = [v \in Volumes |-> 0] /\ published' = {}
  /\ UNCHANGED <<socket, ready, errfile, stuck, exitfile, nmounts, gfail>>
  /\ UNCHANGED <<done, terminating, faults>>

Driver ==
  \/ \E v \in Volumes : MountFuse(v) \/ MountFuseFails(v)
  \/ CreateSocket \/ CreateSocketFails \/ CleanStaleFiles
  \/ \E n \in Sessions : Accept(n) \/ SendFd(n) \/ HandoffEnds(n) \/ CollectListener(n)
  \/ ForeignMount \/ \E n \in Sessions : ForeignClose(n)

Sidecar ==
  \/ SidecarStarts \/ (\E v \in Volumes : Dial(v)) \/ RecvFails
  \/ SetUp \/ SetUpFails \/ SetUpFatal \/ SetUpRetries
  \/ SidecarWaits \/ MonitorExitFile \/ SidecarPanics \/ SidecarExits
  \/ \E v \in Volumes : StartGcsfuse(v) \/ WatchMountOutcome(v) \/ WaitForGcsfuseExit(v)

Environment ==
  \/ \E v \in Volumes : Republish(v) \/ Unpublish(v)
  \/ \E v \in Volumes : GcsfuseMounts(v) \/ GcsfuseRetries(v) \/ GcsfuseExits(v)
  \/ \E n \in Sessions : Expire(n)
  \/ WorkloadEnds \/ PodDeleted \/ SigTerm \/ SigKill
  \/ DriverRestart \/ SidecarDies \/ NodeRestart

Next == Driver \/ Sidecar \/ Environment

Spec == Init /\ [][Next]_vars

\* Goroutines run on; the kubelet starts the sidecar again, and again and again
\* a republish of a mounted target gets as far as the exit file; a gcsfuse
\* whose context is cancelled is killed.  A set-up or a gcsfuse that has reported
\* an error may go on retrying for ever.
Fairness ==
  /\ \A n \in Sessions : WF_vars(Accept(n)) /\ WF_vars(SendFd(n)) /\ WF_vars(CollectListener(n))
  /\ WF_vars(\E v \in Volumes : Dial(v)) /\ WF_vars(RecvFails)
  /\ WF_vars(cur.vol \notin errfile /\ (SetUp \/ SetUpFails \/ SetUpFatal \/ SetUpRetries))
  /\ WF_vars(SidecarStarts) /\ WF_vars(SidecarWaits) /\ WF_vars(MonitorExitFile)
  /\ WF_vars(SidecarExits)
  /\ \A v \in Volumes :
       /\ WF_vars(StartGcsfuse(v)) /\ WF_vars(WatchMountOutcome(v))
       /\ WF_vars(WaitForGcsfuseExit(v)) /\ WF_vars(Republish(v))
       /\ WF_vars(v \notin errfile /\ (GcsfuseMounts(v) \/ GcsfuseRetries(v)
                                       \/ (gcs[v].pc = "starting" /\ GcsfuseExits(v))))
       /\ WF_vars(cancelled /\ GcsfuseExits(v))

FairSpec == Spec /\ Fairness

-----------------------------------------------------------------------------

\* Types of all variables.
TypeOK ==
  /\ mnt \in [Volumes -> 0..MaxMounts] /\ socket \in [Volumes -> 0..MaxMounts]
  /\ gfail \in [Volumes -> 0..MaxMounts]
  /\ ready \subseteq Volumes /\ errfile \subseteq Volumes /\ stuck \subseteq ready
  /\ exitfile \in BOOLEAN
  /\ mounting \in [vol : Volumes \cup {NoVolume}, pc : {"idle", "socket", "clean"},
                   n : 0..MaxMounts]
  /\ nmounts \in 0..MaxMounts /\ published \subseteq Volumes
  /\ sess \in [Sessions -> [vol : Volumes \cup {NoVolume}, fd : 0..MaxFds,
                            listener : {"none", "open", "closed"},
                            accept : {"none", "waiting", "sending", "late", "done",
                                      "sentLate"}]]
  /\ fdtab \in [Fds -> 0..MaxMounts]
  /\ side \in {"off", "mounting", "waiting", "stopping", "exited", "dead"}
  /\ todo \subseteq Volumes /\ cancelled \in BOOLEAN
  /\ cur \in [vol : Volumes \cup {NoVolume}, pc : {"next", "recv", "access"},
              n : 0..MaxMounts]
  /\ gcs \in [Volumes -> [pc : {"none", "launch", "unstarted", "starting", "mounted",
                               "exited", "reaped"},
                          n : 0..MaxMounts, reported : BOOLEAN, watched : BOOLEAN,
                          exit : {"ok", "error", "signal"}]]
  /\ done \in BOOLEAN /\ terminating \in BOOLEAN
  /\ faults \in 0..MaxFaults /\ reboots \in 0..MaxNodeRestarts

\* A gcsfuse serves the device that was mounted at the target of its own volume
\* although SendMsg gets a bare descriptor number that other Mounts reuse.  The
\* one exception is a timer of Mount that fires between Accept and SendMsg.
OwnDevice ==
  \A v \in Volumes :
    gcs[v].n # 0 =>
      \/ sess[gcs[v].n].vol = v
      \/ \E n \in Sessions : sess[n].vol = v /\ sess[n].accept = "sentLate"

\* Every open descriptor of /dev/fuse has one goroutine or Mount that will close
\* it, unless its FUSE mount failed (that one leaks, csi_mounter.go:109-112), and
\* a goroutine that has not closed yet will close its own descriptor.
DescriptorsOwned ==
  LET owner(n) == sess[n].listener = "open" /\ sess[n].accept # "none"
  IN  /\ \A n \in Sessions : owner(n) => fdtab[sess[n].fd] = n
      /\ \A f \in Fds :
           LET n == fdtab[f]
           IN  n # 0 => \/ n \in Foreign \/ sess[n].fd = 0
                        \/ mounting.n = n \/ owner(n)

\* The ready file that the startup probe looks for is there only while the
\* gcsfuse of this sidecar has mounted the volume and has not been reaped, unless
\* it could not be removed.
ReadyMeansMounted ==
  SidecarRuns =>
    \A v \in ready \ stuck : gcs[v].reported /\ gcs[v].pc \in {"mounted", "exited"}

\* The error of a gcsfuse that failed stays visible to NodePublishVolume as long
\* as the session it served is mounted: no cleanup of stale files removes it.
ErrorStaysVisible ==
  \A v \in Volumes : gfail[v] # 0 /\ gfail[v] = mnt[v] => v \in errfile

\* The set-up of a volume is being retried, and says so in its error file.
Retrying == cur.pc = "access" /\ cur.vol \in errfile

\* The sidecar has found the socket of the volume, and neither is gcsfuse mounted
\* nor an error reported, of this volume or of one that it has to wait for.
Pending(v) ==
  /\ SidecarRuns /\ ~Retrying
  /\ v \in todo \/ cur.vol = v \/ gcs[v].pc # "none"
  /\ v \notin errfile /\ ~gcs[v].reported

\* No volume whose socket the sidecar has found stays pending, with a driver
\* that restarts, a timer that fires or a sidecar that is killed.  The one silent
\* failure is a gcsfuse that is killed before it has mounted
\* (sidecar_mounter.go:322-325).
ServedOrReported ==
  \A v \in Volumes :
    []<>(~Pending(v) \/ (gcs[v].pc = "reaped" /\ gcs[v].exit = "signal"))

\* Once the other containers have ended for good the sidecar exits too, whatever
\* errors its volumes have, and after a panic by way of another start: it learns
\* of it through the exit file of a republish.  A deleted Pod is left to the
\* kubelet, and a set-up that is retried does not look for the exit file.
SidecarTerminates == []<>(~done \/ side = "exited" \/ terminating \/ Retrying)
=============================================================================
