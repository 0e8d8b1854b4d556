------------------------------ MODULE Network -------------------------------
(***************************************************************************)
(* Multi-NIC routing (pkg/csi_driver/network.go and setupMultiNIC of       *)
(* node.go).  Handlers of NodePublishVolume and NodeStageVolume choose the *)
(* NIC of a NUMA node, without a lock, and then give the NIC a routing     *)
(* table of its own, under the lock of the network manager: a name in      *)
(* rt_tables, a rule from the NIC's address to the table, and a default    *)
(* route in it.  The file and the kernel's rules and routes outlive the    *)
(* driver process, the list of NICs does not.                              *)
(***************************************************************************)
EXTENDS Integers, Sequences, FiniteSets

CONSTANTS
  Calls,        \* handler goroutines that may run at the same time
  Links,        \* the links of the node as LinkList returns them
  RoutesOf,     \* the routes of each link as RouteList returns them
  Nodes,        \* NUMA nodes that volumes ask for
  TableIds,     \* startingTableId..maxTableId
  OtherNames,   \* table ids that rt_tables gives a name of its own
  OtherRules,   \* tables of rules that are not the driver's
  NoDevice, NoCall,
  NilIP,        \* an address that is not set
  MaxRestarts   \* bound: restarts of the driver process

LinkNames == {Links[i].name : i \in DOMAIN Links}
Addresses == {r.src : r \in UNION {{RoutesOf[d][i] : i \in DOMAIN RoutesOf[d]} : d \in LinkNames}}
Gateways  == {r.gw : r \in UNION {{RoutesOf[d][i] : i \in DOMAIN RoutesOf[d]} : d \in LinkNames}}
RouteInfo == [src : Addresses, gw : Gateways]
LinkInfo  == [name : LinkNames, usable : BOOLEAN, gve : BOOLEAN, numa : Int]

\* Two links never have an address in common.
ASSUME NetworkAssumption ==
  /\ Links \in Seq(LinkInfo)
  /\ RoutesOf \in [LinkNames -> Seq(RouteInfo)]
  /\ \A d, e \in LinkNames : \A i \in DOMAIN RoutesOf[d] : \A j \in DOMAIN RoutesOf[e] :
       RoutesOf[d][i].src = RoutesOf[e][j].src => d = e \/ RoutesOf[d][i].src = NilIP

ASSUME BoundsAssumption ==
  /\ Nodes \subseteq Nat /\ TableIds \subseteq Nat
  /\ OtherNames \subseteq Nat /\ OtherRules \subseteq Nat
  /\ NoDevice \notin LinkNames /\ NoCall \notin Calls /\ MaxRestarts \in Nat

VARIABLES
  call,      \* the calls of setupMultiNIC
  loaded,    \* realNetworkManager.devices (and links, by name) is not nil
  devices,   \* realNetworkManager.devices
  mutex,     \* the call that holds realNetworkManager.mutex
  rtTables,  \* the lines of rt_tables the driver wrote
  rules,     \* the rules the driver added
  routes,    \* the default routes of tables
  handed,    \* devices and addresses that mounts were told to use
  restarts

cache  == <<loaded, devices>>
kernel == <<rtTables, rules, routes>>
vars   == <<call, cache, mutex, kernel, handed, restarts>>

NoRoute == [src |-> NilIP, gw |-> NilIP]

Idle == [pc |-> "idle", node |-> 0, i |-> 0, slice |-> <<>>, device |-> NoDevice,
         route |-> NoRoute, table |-> 0]

Init ==
  /\ call = [c \in Calls |-> Idle]
  /\ loaded = FALSE /\ devices = <<>>
  /\ mutex = NoCall
  /\ rtTables = {} /\ rules = {} /\ routes = {} /\ handed = {}
  /\ restarts = 0

At(c, pc) == call[c].pc = pc

\* setupMultiNIC returns; an error costs the volume its multi-NIC options only.
Return(c) == call' = [call EXCEPT ![c] = Idle]

-----------------------------------------------------------------------------
(***************************************************************************)
(* ListDevices and GetDeviceForNumaNode, without the lock.                 *)
(***************************************************************************)

\* No NIC belongs to a NUMA node: the node is an index into the list.
findNonNumaDevice(devs, node) ==
  {i \in DOMAIN devs : i = node + 1 /\ \A j \in DOMAIN devs : devs[j].numa < 0}

\* The NICs of the node, gVNICs if there are any, and of those the first.
Eligible(devs, node) ==
  LET matching == {i \in DOMAIN devs : devs[i].numa = node}
      gve      == {i \in matching : devs[i].gve}
  IN  IF gve # {} THEN gve ELSE IF matching # {} THEN matching
      ELSE findNonNumaDevice(devs, node)

GetDeviceForNumaNode(devs, node) ==
  {devs[i].name : i \in {k \in Eligible(devs, node) : \A j \in Eligible(devs, node) : k <= j}}

\* The device is chosen from what the cache holds at this moment.
ChooseDevice(c) ==
  LET found == GetDeviceForNumaNode(devices, call[c].node)
  IN  \/ found = {} /\ Return(c)
      \/ \E d \in found :
           call' = [call EXCEPT ![c].pc = "lock", ![c].i = 0, ![c].device = d]

SetupMultiNIC(c, n) ==
  /\ At(c, "idle")
  /\ call' = [call EXCEPT ![c].pc = "list", ![c].node = n]
  /\ UNCHANGED <<cache, mutex, kernel, handed, restarts>>

ListCached(c) ==
  /\ At(c, "list") /\ loaded
  /\ ChooseDevice(c)
  /\ UNCHANGED <<cache, mutex, kernel, handed, restarts>>

\* The cache is empty: list the links and open ethtool.
ListLinks(c) ==
  /\ At(c, "list") /\ ~loaded
  /\ call' = [call EXCEPT ![c].pc = "reset"] \/ Return(c)
  /\ UNCHANGED <<cache, mutex, kernel, handed, restarts>>

ListReset(c) ==
  /\ At(c, "reset")
  /\ loaded' = TRUE /\ devices' = <<>>
  /\ call' = [call EXCEPT ![c].pc = "link", ![c].i = 1]
  /\ UNCHANGED <<mutex, kernel, handed, restarts>>

\* Loopback and links with another driver, or whose driver ethtool cannot tell,
\* are left out; a NUMA file that cannot be read ends the load with an error,
\* and the cache stays as it is.
ListLink(c) ==
  /\ At(c, "link") /\ call[c].i <= Len(Links)
  /\ \/ call' = [call EXCEPT ![c].i = @ + 1]
     \/ /\ Links[call[c].i].usable
        /\ \/ call' = [call EXCEPT ![c].pc = "append", ![c].slice = devices]
           \/ Return(c)
  /\ UNCHANGED <<cache, mutex, kernel, handed, restarts>>

\* append works on the slice as it was read: loads that overlap lose entries.
ListAppend(c) ==
  /\ At(c, "append")
  /\ devices' = Append(call[c].slice, Links[call[c].i])
  /\ call' = [call EXCEPT ![c].pc = "link", ![c].i = @ + 1, ![c].slice = <<>>]
  /\ UNCHANGED <<loaded, mutex, kernel, handed, restarts>>

ListDone(c) ==
  /\ At(c, "link") /\ call[c].i > Len(Links)
  /\ ChooseDevice(c)
  /\ UNCHANGED <<cache, mutex, kernel, handed, restarts>>

-----------------------------------------------------------------------------
(***************************************************************************)
(* AddSourceRouteForDevice, under the lock.                                *)
(***************************************************************************)

\* Mutant: the lock is not taken.
LockNobody(c) ==
  /\ At(c, "lock")
  /\ call' = [call EXCEPT ![c].pc = "source"]
  /\ UNCHANGED <<cache, mutex, kernel, handed, restarts>>

Lock(c) ==
  /\ At(c, "lock") /\ mutex = NoCall
  /\ mutex' = c
  /\ call' = [call EXCEPT ![c].pc = "source"]
  /\ UNCHANGED <<cache, kernel, handed, restarts>>

Cached(d) == \E i \in DOMAIN devices : devices[i].name = d

\* The link must be in the cache (getDeviceLink).  An address that is not set is
\* rendered as "<nil>", not as the empty string, so the first route is taken.
ListRoutesForDevice(c) ==
  LET d == call[c].device
  IN  /\ At(c, "source")
      /\ Cached(d)
      /\ RoutesOf[d] # <<>>
      /\ call' = [call EXCEPT ![c].pc = "table", ![c].route = RoutesOf[d][1]]
      /\ UNCHANGED <<cache, mutex, kernel, handed, restarts>>

Named(d) == {l.id : l \in {k \in rtTables : k.device = d}}

\* The ids of rt_tables and of the tables that rules refer to.
UsedIds ==
  OtherNames \cup OtherRules \cup {l.id : l \in rtTables} \cup {r.table : r \in rules}

\* Mutant: the -1 that is returned when the ids are exhausted is used.
getGcsFuseTableIdOrMinusOne(c) ==
  /\ At(c, "table") /\ Named(call[c].device) = {}
  /\ call' = [call EXCEPT ![c].pc = "name", ![c].table = -1]
  /\ UNCHANGED <<cache, mutex, kernel, handed, restarts>>

\* The table that has the name of the device, or else the lowest free id.
getGcsFuseTableId(c) ==
  LET d == call[c].device
  IN  /\ At(c, "table")
      /\ \/ \E id \in Named(d) : call' = [call EXCEPT ![c].pc = "rule", ![c].table = id]
         \/ /\ Named(d) = {}
            /\ \E id \in TableIds \ UsedIds :
                 /\ \A n \in TableIds \ UsedIds : id <= n
                 /\ call' = [call EXCEPT ![c].pc = "name", ![c].table = id]
      /\ UNCHANGED <<cache, mutex, kernel, handed, restarts>>

WriteName(c) == rtTables' = rtTables \cup {[id |-> call[c].table, device |-> call[c].device]}

UpdateRouteTable(c) ==
  /\ At(c, "name")
  /\ WriteName(c)
  /\ call' = [call EXCEPT ![c].pc = "rule"]
  /\ UNCHANGED <<cache, mutex, rules, routes, handed, restarts>>

\* The line is written, but closing the file fails.
UpdateRouteTableFails(c) ==
  /\ At(c, "name")
  /\ WriteName(c)
  /\ mutex' = NoCall
  /\ Return(c)
  /\ UNCHANGED <<cache, rules, routes, handed, restarts>>

AddRule(c) ==
  LET r == [src |-> call[c].route.src, table |-> call[c].table]
  IN  /\ At(c, "rule")
      /\ r.src # NilIP
      /\ rules' = rules \cup {r}
      /\ call' = [call EXCEPT ![c].pc = "route"]
      /\ UNCHANGED <<cache, mutex, rtTables, routes, handed, restarts>>

\* RouteReplace puts the default route of the table in place of the one there
\* is.  The address goes into the mount options once the lock is released.
AddRoute(c) ==
  LET r == [table |-> call[c].table, device |-> call[c].device, gw |-> call[c].route.gw]
  IN  /\ At(c, "route")
      /\ r.gw # NilIP /\ Cached(r.device)
      /\ routes' = {q \in routes : q.table # r.table} \cup {r}
      /\ handed' = handed \cup {[device |-> r.device, src |-> call[c].route.src]}
      /\ mutex' = NoCall
      /\ Return(c)
      /\ UNCHANGED <<cache, rtTables, rules, restarts>>

\* Mutant: an error of AddRoute is logged only.
AddSourceRouteFailsQuietly(c) ==
  /\ At(c, "route")
  /\ handed' = handed \cup {[device |-> call[c].device, src |-> call[c].route.src]}
  /\ mutex' = NoCall
  /\ Return(c)
  /\ UNCHANGED <<cache, kernel, restarts>>

\* Every other error return under the lock.
AddSourceRouteFails(c) ==
  /\ \E pc \in {"source", "table", "name", "rule", "route"} : At(c, pc)
  /\ mutex' = NoCall
  /\ Return(c)
  /\ UNCHANGED <<cache, kernel, handed, restarts>>

DriverRestart ==
  /\ restarts < MaxRestarts /\ restarts' = restarts + 1
  /\ call' = [c \in Calls |-> Idle]
  /\ loaded' = FALSE /\ devices' = <<>> /\ mutex' = NoCall
  /\ UNCHANGED <<kernel, handed>>

Step(c) ==
  \/ \E n \in Nodes : SetupMultiNIC(c, n)
  \/ ListCached(c) \/ ListLinks(c) \/ ListReset(c) \/ ListLink(c) \/ ListAppend(c) \/ ListDone(c)
  \/ Lock(c) \/ ListRoutesForDevice(c) \/ getGcsFuseTableId(c)
  \/ UpdateRouteTable(c) \/ AddRule(c) \/ AddRoute(c)
  \/ AddSourceRouteFails(c) \/ UpdateRouteTableFails(c)

Next == (\E c \in Calls : Step(c)) \/ DriverRestart

Spec == Init /\ [][Next]_vars

-----------------------------------------------------------------------------

Steps == {"idle", "list", "reset", "link", "append", "lock",
          "source", "table", "name", "rule", "route"}

CallRecord ==
  [pc : Steps, node : Nat, i : Nat, slice : Seq(LinkInfo), device : LinkNames \cup {NoDevice},
   route : RouteInfo \cup {NoRoute}, table : Nat]

\* Types of all variables.
TypeOK ==
  /\ call \in [Calls -> CallRecord]
  /\ loaded \in BOOLEAN
  /\ devices \in Seq(LinkInfo)
  /\ mutex \in Calls \cup {NoCall}
  /\ rtTables \subseteq [id : TableIds, device : LinkNames]
  /\ rules \subseteq [src : Addresses, table : TableIds]
  /\ routes \subseteq [table : TableIds, device : LinkNames, gw : Gateways]
  /\ handed \subseteq [device : LinkNames, src : Addresses]
  /\ restarts \in 0..MaxRestarts

\* A routing table belongs to one device, and is not anybody else's: neither
\* concurrent calls, nor an error or a restart between writing the name, the
\* rule and the route make two devices share an id (getGcsFuseTableId).
TableOfOneDevice ==
  /\ \A k, l \in rtTables : k.id = l.id => k.device = l.device
  /\ \A k \in rtTables : k.id \notin OtherNames \cup OtherRules
  /\ \A r \in routes : [id |-> r.table, device |-> r.device] \in rtTables

\* The address that a mount is told to bind to has a rule, and every rule from
\* it leads to a table whose default route leaves through the NIC that was
\* chosen: no later call, failed call or restart redirects a running mount.
SourceRouted ==
  \A h \in handed :
    /\ \E r \in rules : r.src = h.src
    /\ \A r \in rules : r.src = h.src =>
         \E q \in routes : q.table = r.table /\ q.device = h.device
=============================================================================
