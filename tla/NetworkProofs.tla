--------------------------- MODULE NetworkProofs ----------------------------
(***************************************************************************)
(* The routing tables of Network, for any number of calls, links, table    *)
(* ids and restarts.                                                       *)
(***************************************************************************)
EXTENDS Network, TLAPS

\* Calls that work under the lock of the network manager.
Locked(c) == call[c].pc \in {"source", "table", "name", "rule", "route"}

\* An address that RouteList reports for a link.
IsSource(src, d) == \E i \in DOMAIN RoutesOf[d] : RoutesOf[d][i].src = src

\* What a call knows at each step of ListDevices and AddSourceRouteForDevice.
CallKnows(c) ==
  /\ call[c].pc \in {"link", "append"} => call[c].i >= 1
  /\ call[c].pc = "append" => call[c].i <= Len(Links)
  /\ Locked(c) => mutex = c
  /\ call[c].pc \in {"table", "name", "rule", "route"} =>
       call[c].device \in LinkNames /\ IsSource(call[c].route.src, call[c].device)
  /\ call[c].pc = "name" =>
       call[c].table \in TableIds \ UsedIds /\ Named(call[c].device) = {}
  /\ call[c].pc \in {"rule", "route"} =>
       [id |-> call[c].table, device |-> call[c].device] \in rtTables
  /\ call[c].pc = "route" =>
       [src |-> call[c].route.src, table |-> call[c].table] \in rules

\* A device has one table only.
OneTable == \A k, l \in rtTables : k.device = l.device => k.id = l.id

\* A rule leads from an address of a device to the table of the device.
RulesLeadHome ==
  \A r \in rules :
    /\ r.src # NilIP
    /\ \E k \in rtTables : k.id = r.table /\ IsSource(r.src, k.device)

\* An address that was handed out has its rule, and its table has its route.
HandedOut ==
  \A h \in handed :
    /\ h.device \in LinkNames /\ IsSource(h.src, h.device)
    /\ \E r \in rules : r.src = h.src
    /\ \E q \in routes : q.device = h.device

\* The inductive invariant.
Inv ==
  /\ TypeOK /\ TableOfOneDevice /\ OneTable /\ RulesLeadHome /\ HandedOut
  /\ \A c \in Calls : CallKnows(c)

-----------------------------------------------------------------------------

\* Every behaviour starts with empty tables (Init).
LEMMA InitInv == Init => Inv
<1> SUFFICES ASSUME Init PROVE Inv
  OBVIOUS
<1>1. TypeOK
  <2>1. Idle \in CallRecord
    BY DEF Idle, CallRecord, Steps
  <2>2. loaded \in BOOLEAN
    BY Zenon DEF Init
  <2> QED
    BY <2>1, <2>2, BoundsAssumption DEF Init, TypeOK
<1>2. \A c \in Calls : CallKnows(c)
  BY DEF Init, CallKnows, Idle, Locked
<1> QED
  BY <1>1, <1>2 DEF Init, Inv, TableOfOneDevice, OneTable, RulesLeadHome, HandedOut

\* A new driver process keeps the file, the rules and the routes (DriverRestart).
LEMMA RestartInv == Inv /\ DriverRestart => Inv'
<1> SUFFICES ASSUME Inv, DriverRestart PROVE Inv'
  OBVIOUS
<1>1. TypeOK'
  <2>1. Idle \in CallRecord
    BY DEF Idle, CallRecord, Steps
  <2>2. loaded' \in BOOLEAN
    BY Zenon DEF DriverRestart
  <2> QED
    BY <2>1, <2>2, BoundsAssumption DEF Inv, DriverRestart, TypeOK, kernel
<1>2. \A c \in Calls : CallKnows(c)'
  BY DEF DriverRestart, CallKnows, Idle, Locked
<1> QED
  BY <1>1, <1>2 DEF Inv, DriverRestart, kernel, TableOfOneDevice, OneTable, RulesLeadHome, HandedOut

\* A step that leaves the kernel, the file and the lock alone, after which its
\* call is not under the lock, keeps everything but the types.
LEMMA ListingInv ==
  ASSUME Inv, NEW c \in Calls, TypeOK', UNCHANGED <<mutex, kernel, handed>>,
         \A d \in Calls \ {c} : call'[d] = call[d],
         call'[c].pc \in {"idle", "list", "reset", "link", "append", "lock"},
         call'[c].pc \in {"link", "append"} => call'[c].i >= 1,
         call'[c].pc = "append" => call'[c].i <= Len(Links)
  PROVE  Inv'
<1>1. CallKnows(c)'
  BY DEF CallKnows, Locked
<1>2. ASSUME NEW d \in Calls \ {c} PROVE CallKnows(d)'
  <2>1. UsedIds' = UsedIds /\ \A e : Named(e)' = Named(e)
    BY DEF UsedIds, Named, kernel
  <2> QED
    BY <2>1 DEF Inv, CallKnows, Locked, kernel, IsSource
<1> QED
  BY <1>1, <1>2 DEF Inv, kernel, TableOfOneDevice, OneTable, RulesLeadHome, HandedOut, IsSource

\* Choosing a device yields the name of a cached one (GetDeviceForNumaNode).
LEMMA ChosenIsLink ==
  ASSUME Inv, NEW n \in Nat, NEW d \in GetDeviceForNumaNode(devices, n)
  PROVE  d \in LinkNames
<1>1. PICK i \in DOMAIN devices : d = devices[i].name
  BY DEF GetDeviceForNumaNode, Eligible, findNonNumaDevice
<1>2. devices[i] \in LinkInfo
  BY <1>1 DEF Inv, TypeOK
<1> QED
  BY <1>1, <1>2 DEF LinkInfo

\* The steps of ListDevices and GetDeviceForNumaNode.
LEMMA ListInv ==
  ASSUME Inv, NEW c \in Calls,
         \/ \E n \in Nodes : SetupMultiNIC(c, n)
         \/ ListCached(c) \/ ListLinks(c) \/ ListReset(c) \/ ListLink(c)
         \/ ListAppend(c) \/ ListDone(c)
  PROVE  Inv'
<1> USE DEF At, Return, cache
<1>1. Idle \in CallRecord /\ Idle.pc = "idle"
  BY DEF Idle, CallRecord, Steps
<1>2. call[c] \in CallRecord /\ call \in [Calls -> CallRecord]
  BY DEF Inv, TypeOK
<1>3. ASSUME NEW n \in Nodes, SetupMultiNIC(c, n)
      PROVE  Inv'
  <2>1. call' \in [Calls -> CallRecord] /\ call'[c].pc = "list"
    BY <1>2, <1>3, BoundsAssumption DEF SetupMultiNIC, CallRecord, Steps
  <2>2. TypeOK'
    BY <1>3, <2>1 DEF Inv, TypeOK, SetupMultiNIC, kernel
  <2> QED
    BY <1>2, <1>3, <2>1, <2>2, ListingInv DEF SetupMultiNIC
<1>4. ASSUME ChooseDevice(c), UNCHANGED <<cache, mutex, kernel, handed, restarts>>
      PROVE  Inv'
  <2>1. call' \in [Calls -> CallRecord] /\ call'[c].pc \in {"idle", "lock"}
    <3>1. CASE Return(c)
      BY <1>1, <1>2, <3>1
    <3>2. ASSUME NEW d \in GetDeviceForNumaNode(devices, call[c].node),
                 call' = [call EXCEPT ![c].pc = "lock", ![c].i = 0, ![c].device = d]
          PROVE  call' \in [Calls -> CallRecord] /\ call'[c].pc = "lock"
      <4>1. d \in LinkNames
        BY <1>2, <3>2, ChosenIsLink DEF CallRecord
      <4> QED
        BY <1>2, <3>2, <4>1 DEF CallRecord, Steps
    <3> QED
      BY <1>4, <3>1, <3>2 DEF ChooseDevice
  <2>2. TypeOK'
    BY <1>4, <2>1 DEF Inv, TypeOK, kernel
  <2>3. \A d \in Calls \ {c} : call'[d] = call[d]
    BY <1>2, <1>4 DEF ChooseDevice
  <2> QED
    BY <1>4, <2>1, <2>2, <2>3, ListingInv
<1>5. CASE ListCached(c)
  BY <1>4, <1>5 DEF ListCached
<1>6. CASE ListDone(c)
  BY <1>4, <1>6 DEF ListDone
<1>7. CASE ListLinks(c)
  <2>1. call' \in [Calls -> CallRecord] /\ call'[c].pc \in {"idle", "reset"}
    <3>1. CASE call' = [call EXCEPT ![c].pc = "reset"]
      BY <1>2, <3>1 DEF CallRecord, Steps
    <3>2. CASE Return(c)
      BY <1>1, <1>2, <3>2
    <3> QED
      BY <1>7, <3>1, <3>2 DEF ListLinks
  <2>2. TypeOK'
    BY <1>7, <2>1 DEF Inv, TypeOK, ListLinks, kernel
  <2> QED
    BY <1>2, <1>7, <2>1, <2>2, ListingInv DEF ListLinks
<1>8. CASE ListReset(c)
  <2>1. call' \in [Calls -> CallRecord] /\ call'[c].pc = "link" /\ call'[c].i = 1
    BY <1>2, <1>8 DEF ListReset, CallRecord, Steps
  <2>2. loaded' \in BOOLEAN
    BY <1>8, Zenon DEF ListReset
  <2>3. TypeOK'
    BY <1>8, <2>1, <2>2 DEF Inv, TypeOK, ListReset, kernel
  <2> QED
    BY <1>2, <1>8, <2>1, <2>3, ListingInv DEF ListReset
<1>9. CASE ListLink(c)
  <2>0. call[c].pc = "link" /\ call[c].i \in Nat /\ call[c].i >= 1 /\ call[c].i <= Len(Links)
    BY <1>2, <1>9 DEF Inv, CallKnows, ListLink, CallRecord
  <2>1. /\ call' \in [Calls -> CallRecord] /\ call'[c].pc \in {"idle", "link", "append"}
        /\ call'[c].pc \in {"link", "append"} => call'[c].i >= 1
        /\ call'[c].pc = "append" => call'[c].i <= Len(Links)
    <3>1. CASE call' = [call EXCEPT ![c].i = @ + 1]
      <4>1. PICK j \in Nat : j = call[c].i + 1 /\ j >= 1
        BY <2>0
      <4>2. call' = [call EXCEPT ![c].i = j]
        BY <3>1, <4>1
      <4> QED
        BY <1>2, <2>0, <4>1, <4>2 DEF CallRecord
    <3>2. CASE Return(c)
      BY <1>1, <1>2, <3>2
    <3>3. CASE call' = [call EXCEPT ![c].pc = "append", ![c].slice = devices]
      <4>1. devices \in Seq(LinkInfo)
        BY DEF Inv, TypeOK
      <4> QED
        BY <1>2, <2>0, <3>3, <4>1 DEF CallRecord, Steps
    <3> QED
      BY <1>9, <3>1, <3>2, <3>3 DEF ListLink
  <2>2. TypeOK'
    BY <1>9, <2>1 DEF Inv, TypeOK, ListLink, kernel
  <2>3. \A d \in Calls \ {c} : call'[d] = call[d]
    BY <1>2, <1>9 DEF ListLink
  <2>4. UNCHANGED <<mutex, kernel, handed>>
    BY <1>9 DEF ListLink
  <2> QED
    BY <2>1, <2>2, <2>3, <2>4, ListingInv
<1>10. CASE ListAppend(c)
  <2>0. call[c].i \in Nat /\ call[c].i >= 1 /\ call[c].i <= Len(Links)
    BY <1>2, <1>10 DEF Inv, CallKnows, ListAppend, CallRecord
  <2>1. call' \in [Calls -> CallRecord] /\ call'[c].pc = "link" /\ call'[c].i >= 1
    <3>1. PICK j \in Nat : j = call[c].i + 1 /\ j >= 1
      BY <2>0
    <3>2. call' = [call EXCEPT ![c].pc = "link", ![c].i = j, ![c].slice = <<>>]
      BY <1>10, <3>1 DEF ListAppend
    <3>3. <<>> \in Seq(LinkInfo)
      OBVIOUS
    <3>4. PICK s \in Seq(LinkInfo) : s = <<>>
      BY <3>3, Zenon
    <3>5. PICK pc \in Steps : pc = "link"
      BY DEF Steps
    <3>6. call' = [call EXCEPT ![c].pc = pc, ![c].i = j, ![c].slice = s]
      BY <3>2, <3>4, <3>5
    <3> QED
      BY <1>2, <3>1, <3>5, <3>6 DEF CallRecord
  <2>2. devices' \in Seq(LinkInfo)
    <3>1. Links[call[c].i] \in LinkInfo
      BY <2>0, NetworkAssumption
    <3> QED
      BY <1>2, <1>10, <3>1 DEF ListAppend, CallRecord
  <2>3. TypeOK'
    BY <1>10, <2>1, <2>2 DEF Inv, TypeOK, ListAppend, kernel
  <2> QED
    BY <1>2, <1>10, <2>1, <2>3, ListingInv DEF ListAppend
<1> QED
  BY <1>3, <1>5, <1>6, <1>7, <1>8, <1>9, <1>10

-----------------------------------------------------------------------------

\* A step under the lock keeps what the other calls know: none of them is under
\* the lock (AddSourceRouteForDevice).
LEMMA OthersKnow ==
  ASSUME Inv, NEW c \in Calls, Locked(c),
         \A d \in Calls \ {c} : call'[d] = call[d]
  PROVE  \A d \in Calls \ {c} : CallKnows(d)'
<1> SUFFICES ASSUME NEW d \in Calls \ {c} PROVE CallKnows(d)'
  OBVIOUS
<1>1. ~Locked(d)
  BY DEF Inv, CallKnows
<1> QED
  BY <1>1 DEF Inv, CallKnows, Locked

\* The steps of AddSourceRouteForDevice that change the call only.
LEMMA LookupInv ==
  ASSUME Inv, NEW c \in Calls,
         Lock(c) \/ ListRoutesForDevice(c) \/ getGcsFuseTableId(c) \/ AddSourceRouteFails(c)
  PROVE  Inv'
<1> USE DEF At, Return, cache, kernel
<1>1. Idle \in CallRecord /\ Idle.pc = "idle"
  BY DEF Idle, CallRecord, Steps
<1>2. call[c] \in CallRecord /\ call \in [Calls -> CallRecord]
  BY DEF Inv, TypeOK
<1>3. UNCHANGED <<cache, kernel, handed, restarts>>
  BY DEF Lock, ListRoutesForDevice, getGcsFuseTableId, AddSourceRouteFails
<1>4. \A d \in Calls \ {c} : call'[d] = call[d]
  BY <1>2 DEF Lock, ListRoutesForDevice, getGcsFuseTableId, AddSourceRouteFails
<1>5. ASSUME TypeOK', \A d \in Calls : CallKnows(d)' PROVE Inv'
  BY <1>3, <1>5
    DEF Inv, TableOfOneDevice, OneTable, RulesLeadHome, HandedOut, IsSource
<1>6. CASE Lock(c)
  <2>1. call' \in [Calls -> CallRecord] /\ call'[c].pc = "source"
    BY <1>2, <1>6 DEF Lock, CallRecord, Steps
  <2>2. TypeOK'
    BY <1>3, <1>6, <2>1 DEF Inv, TypeOK, Lock
  <2>3. CallKnows(c)'
    BY <1>6, <2>1 DEF CallKnows, Locked, Lock
  <2>4. ASSUME NEW d \in Calls \ {c} PROVE CallKnows(d)'
    <3>1. ~Locked(d)
      BY <1>6, BoundsAssumption DEF Inv, CallKnows, Lock
    <3> QED
      BY <1>4, <3>1 DEF Inv, CallKnows, Locked
  <2> QED
    BY <1>5, <2>2, <2>3, <2>4
<1>7. CASE ListRoutesForDevice(c)
  <2>0. Locked(c) /\ mutex' = mutex
    BY <1>7 DEF Locked, ListRoutesForDevice
  <2>1. PICK i \in DOMAIN devices : devices[i].name = call[c].device
    BY <1>7 DEF ListRoutesForDevice, Cached
  <2>2. call[c].device \in LinkNames
    <3>1. devices \in Seq(LinkInfo)
      BY DEF Inv, TypeOK
    <3>2. devices[i] \in LinkInfo
      BY <2>1, <3>1
    <3> QED
      BY <2>1, <3>2 DEF LinkInfo
  <2>3. 1 \in DOMAIN RoutesOf[call[c].device] /\ RoutesOf[call[c].device][1] \in RouteInfo
    <3>1. RoutesOf[call[c].device] \in Seq(RouteInfo) /\ RoutesOf[call[c].device] # <<>>
      BY <1>7, <2>2, NetworkAssumption DEF ListRoutesForDevice
    <3> QED
      BY <3>1
  <2>4. /\ call' \in [Calls -> CallRecord] /\ call'[c].pc = "table"
        /\ call'[c].device = call[c].device
        /\ call'[c].route = RoutesOf[call[c].device][1]
    BY <1>2, <1>7, <2>3 DEF ListRoutesForDevice, CallRecord, Steps
  <2>5. TypeOK'
    BY <1>3, <2>0, <2>4 DEF Inv, TypeOK
  <2>6. IsSource(call'[c].route.src, call'[c].device)
    BY <2>3, <2>4 DEF IsSource
  <2>7. CallKnows(c)'
    BY <2>0, <2>2, <2>4, <2>6 DEF Inv, CallKnows, Locked, IsSource
  <2> QED
    BY <1>4, <1>5, <2>0, <2>5, <2>7, OthersKnow
<1>8. CASE getGcsFuseTableId(c)
  <2>0. Locked(c) /\ mutex' = mutex /\ call[c].pc = "table"
    BY <1>8 DEF Locked, getGcsFuseTableId
  <2>1. PICK id \in TableIds, pc \in {"rule", "name"} :
          /\ call' = [call EXCEPT ![c].pc = pc, ![c].table = id]
          /\ pc = "rule" => id \in Named(call[c].device)
          /\ pc = "name" => id \in TableIds \ UsedIds /\ Named(call[c].device) = {}
    <3>1. Named(call[c].device) \subseteq TableIds
      BY DEF Inv, TypeOK, Named
    <3> QED
      BY <1>8, <3>1 DEF getGcsFuseTableId
  <2>2. /\ call' \in [Calls -> CallRecord] /\ call'[c].pc = pc /\ call'[c].table = id
        /\ call'[c].device = call[c].device /\ call'[c].route = call[c].route
    BY <1>2, <2>1, BoundsAssumption DEF CallRecord, Steps
  <2>3. TypeOK'
    BY <1>3, <2>0, <2>2 DEF Inv, TypeOK
  <2>4. pc = "rule" => [id |-> id, device |-> call[c].device] \in rtTables
    BY <2>1 DEF Named, Inv, TypeOK
  <2>5. UsedIds' = UsedIds /\ Named(call[c].device)' = Named(call[c].device)
    BY <1>3, <2>2 DEF UsedIds, Named
  <2>6. call[c].device \in LinkNames /\ IsSource(call[c].route.src, call[c].device) /\ mutex = c
    BY <2>0 DEF Inv, CallKnows
  <2>7. IsSource(call[c].route.src, call[c].device)' /\ rtTables' = rtTables
    BY <1>3, <2>2, <2>6 DEF IsSource
  <2>8. Named(call[c].device)' = {} \/ pc # "name"
    BY <2>1, <2>5
  <2>9. call'[c].table \notin UsedIds' \/ pc # "name"
    BY <2>1, <2>2, <2>5
  <2>10. CallKnows(c)'
    BY <2>0, <2>2, <2>4, <2>6, <2>7, <2>8, <2>9 DEF CallKnows, Locked
  <2> QED
    BY <1>4, <1>5, <2>0, <2>3, <2>10, OthersKnow
<1>9. CASE AddSourceRouteFails(c)
  <2>0. Locked(c) /\ mutex' = NoCall /\ call' = [call EXCEPT ![c] = Idle]
    BY <1>9 DEF Locked, AddSourceRouteFails
  <2>1. call' \in [Calls -> CallRecord] /\ call'[c].pc = "idle"
    BY <1>1, <1>2, <2>0
  <2>2. TypeOK'
    BY <1>3, <2>0, <2>1 DEF Inv, TypeOK
  <2>3. CallKnows(c)'
    BY <2>1 DEF CallKnows, Locked
  <2> QED
    BY <1>4, <1>5, <2>0, <2>2, <2>3, OthersKnow
<1> QED
  BY <1>6, <1>7, <1>8, <1>9

\* A name is written for a device without one, with an id that is in use nowhere,
\* whether or not the call goes on (UpdateRouteTable).
LEMMA NameInv ==
  ASSUME Inv, NEW c \in Calls, UpdateRouteTable(c) \/ UpdateRouteTableFails(c)
  PROVE  Inv'
<1> USE DEF At, Return, cache
<1> DEFINE line == [id |-> call[c].table, device |-> call[c].device]
<1>1. Idle \in CallRecord /\ Idle.pc = "idle"
  BY DEF Idle, CallRecord, Steps
<1>2. call[c] \in CallRecord /\ call \in [Calls -> CallRecord]
  BY DEF Inv, TypeOK
<1>3. UNCHANGED <<cache, rules, routes, handed, restarts>> /\ rtTables' = rtTables \cup {line}
  BY DEF UpdateRouteTable, UpdateRouteTableFails, WriteName
<1>4. \A d \in Calls \ {c} : call'[d] = call[d]
  BY <1>2 DEF UpdateRouteTable, UpdateRouteTableFails
<1>5. Locked(c) /\ call[c].pc = "name"
  BY DEF Locked, UpdateRouteTable, UpdateRouteTableFails
<1>6. /\ call[c].device \in LinkNames /\ IsSource(call[c].route.src, call[c].device)
      /\ call[c].table \in TableIds \ UsedIds
      /\ Named(call[c].device) = {}
  BY <1>5 DEF Inv, CallKnows
<1>7. line \in [id : TableIds, device : LinkNames]
  BY <1>6
<1>8. \A k \in rtTables : k.device # call[c].device /\ k.id # call[c].table
  BY <1>6 DEF Named, UsedIds
<1>9. TableOfOneDevice'
  BY <1>3, <1>6, <1>8 DEF Inv, TableOfOneDevice, UsedIds
<1>10. OneTable'
  BY <1>3, <1>8 DEF Inv, OneTable
<1>11. RulesLeadHome' /\ HandedOut'
  BY <1>3 DEF Inv, RulesLeadHome, HandedOut, IsSource
<1>12. \A d \in Calls \ {c} : CallKnows(d)'
  BY <1>4, <1>5, OthersKnow
<1>13. CASE UpdateRouteTable(c)
  <2>1. /\ call' \in [Calls -> CallRecord] /\ call'[c].pc = "rule" /\ mutex' = mutex
        /\ call'[c].device = call[c].device /\ call'[c].route = call[c].route
        /\ call'[c].table = call[c].table
    BY <1>2, <1>13 DEF UpdateRouteTable, CallRecord, Steps
  <2>2. TypeOK'
    BY <1>3, <1>7, <2>1 DEF Inv, TypeOK
  <2>3. CallKnows(c)'
    BY <1>3, <1>5, <1>6, <2>1 DEF Inv, CallKnows, Locked, IsSource
  <2> QED
    BY <1>9, <1>10, <1>11, <1>12, <2>2, <2>3 DEF Inv
<1>14. CASE UpdateRouteTableFails(c)
  <2>1. call' \in [Calls -> CallRecord] /\ call'[c].pc = "idle" /\ mutex' = NoCall
    BY <1>1, <1>2, <1>14 DEF UpdateRouteTableFails
  <2>2. TypeOK'
    BY <1>3, <1>7, <2>1 DEF Inv, TypeOK
  <2>3. CallKnows(c)'
    BY <2>1 DEF CallKnows, Locked
  <2> QED
    BY <1>9, <1>10, <1>11, <1>12, <2>2, <2>3 DEF Inv
<1> QED
  BY <1>13, <1>14

\* A rule leads from the address of the device to the table that has its name
\* (AddRule).
LEMMA RuleInv ==
  ASSUME Inv, NEW c \in Calls, AddRule(c)
  PROVE  Inv'
<1> USE DEF At, cache
<1> DEFINE rule == [src |-> call[c].route.src, table |-> call[c].table]
           line == [id |-> call[c].table, device |-> call[c].device]
<1>1. call[c] \in CallRecord /\ call \in [Calls -> CallRecord]
  BY DEF Inv, TypeOK
<1>2. /\ UNCHANGED <<cache, mutex, rtTables, routes, handed, restarts>>
      /\ rules' = rules \cup {rule} /\ rule.src # NilIP
  BY DEF AddRule
<1>3. Locked(c) /\ call[c].pc = "rule"
  BY DEF Locked, AddRule
<1>4. /\ call[c].device \in LinkNames /\ IsSource(call[c].route.src, call[c].device)
      /\ line \in rtTables
  BY <1>3 DEF Inv, CallKnows
<1>5. /\ call' \in [Calls -> CallRecord] /\ call'[c].pc = "route"
      /\ call'[c].device = call[c].device /\ call'[c].route = call[c].route
      /\ call'[c].table = call[c].table
      /\ \A d \in Calls \ {c} : call'[d] = call[d]
  BY <1>1 DEF AddRule, CallRecord, Steps
<1>6. rule \in [src : Addresses, table : TableIds]
  <2>1. call[c].route.src \in Addresses
    BY <1>1, <1>2 DEF CallRecord, RouteInfo, NoRoute
  <2>2. call[c].table \in TableIds
    BY <1>4 DEF Inv, TypeOK
  <2> QED
    BY <2>1, <2>2
<1>7. TypeOK'
  BY <1>2, <1>5, <1>6 DEF Inv, TypeOK
<1>8. TableOfOneDevice' /\ OneTable'
  BY <1>2 DEF Inv, TableOfOneDevice, OneTable
<1>9. RulesLeadHome'
  BY <1>2, <1>4 DEF Inv, RulesLeadHome, IsSource
<1>10. HandedOut'
  BY <1>2 DEF Inv, HandedOut, IsSource
<1>11. CallKnows(c)'
  BY <1>2, <1>3, <1>4, <1>5 DEF Inv, CallKnows, Locked, IsSource
<1>12. \A d \in Calls \ {c} : CallKnows(d)'
  BY <1>3, <1>5, OthersKnow
<1> QED
  BY <1>7, <1>8, <1>9, <1>10, <1>11, <1>12 DEF Inv

\* The default route of a table is replaced by one through the same device
\* (AddRoute).
LEMMA RouteInv ==
  ASSUME Inv, NEW c \in Calls, AddRoute(c)
  PROVE  Inv'
<1> USE DEF At, Return, cache
<1> DEFINE r == [table |-> call[c].table, device |-> call[c].device, gw |-> call[c].route.gw]
           h == [device |-> call[c].device, src |-> call[c].route.src]
           line == [id |-> call[c].table, device |-> call[c].device]
<1>0. Idle \in CallRecord /\ Idle.pc = "idle"
  BY DEF Idle, CallRecord, Steps
<1>1. call[c] \in CallRecord /\ call \in [Calls -> CallRecord]
  BY DEF Inv, TypeOK
<1>2. /\ UNCHANGED <<cache, rtTables, rules, restarts>>
      /\ routes' = {q \in routes : q.table # r.table} \cup {r}
      /\ handed' = handed \cup {h} /\ r.gw # NilIP
      /\ mutex' = NoCall /\ call' = [call EXCEPT ![c] = Idle]
  BY DEF AddRoute
<1>3. Locked(c) /\ call[c].pc = "route"
  BY DEF Locked, AddRoute
<1>4. /\ call[c].device \in LinkNames /\ IsSource(call[c].route.src, call[c].device)
      /\ line \in rtTables
      /\ [src |-> call[c].route.src, table |-> call[c].table] \in rules
  BY <1>3 DEF Inv, CallKnows
<1>5. /\ call' \in [Calls -> CallRecord] /\ call'[c].pc = "idle"
      /\ \A d \in Calls \ {c} : call'[d] = call[d]
  BY <1>0, <1>1, <1>2
<1>6. /\ r \in [table : TableIds, device : LinkNames, gw : Gateways]
      /\ h \in [device : LinkNames, src : Addresses]
  <2>1. call[c].route \in RouteInfo
    BY <1>1, <1>2 DEF CallRecord, NoRoute
  <2>2. call[c].table \in TableIds
    BY <1>4 DEF Inv, TypeOK
  <2> QED
    BY <1>4, <2>1, <2>2 DEF RouteInfo
<1>7. TypeOK'
  BY <1>2, <1>5, <1>6 DEF Inv, TypeOK
<1>8. TableOfOneDevice' /\ OneTable'
  BY <1>2, <1>4 DEF Inv, TableOfOneDevice, OneTable
<1>9. RulesLeadHome'
  BY <1>2 DEF Inv, RulesLeadHome, IsSource
<1>10. \A q \in routes : \E s \in routes' : s.device = q.device
  <2> SUFFICES ASSUME NEW q \in routes, q.table = r.table PROVE q.device = r.device
    BY <1>2
  <2>1. [id |-> q.table, device |-> q.device] \in rtTables
    BY DEF Inv, TableOfOneDevice
  <2> QED
    BY <1>4, <2>1 DEF Inv, TableOfOneDevice
<1>11. HandedOut'
  <2>1. ASSUME NEW g \in handed
        PROVE  /\ g.device \in LinkNames /\ IsSource(g.src, g.device)
               /\ \E s \in rules : s.src = g.src
               /\ \E s \in routes' : s.device = g.device
    BY <1>10 DEF Inv, HandedOut
  <2>2. r \in routes' /\ \E s \in rules : s.src = h.src
    BY <1>2, <1>4
  <2>3. /\ h.device \in LinkNames /\ IsSource(h.src, h.device)
        /\ \E s \in routes' : s.device = h.device
    BY <1>4, <2>2
  <2>4. ASSUME NEW g \in handed'
        PROVE  /\ g.device \in LinkNames /\ IsSource(g.src, g.device)
               /\ \E s \in rules : s.src = g.src
               /\ \E s \in routes' : s.device = g.device
    <3> HIDE DEF h
    <3> QED
      BY <1>2, <2>1, <2>2, <2>3
  <2> QED
    BY <1>2, <2>4 DEF HandedOut, IsSource
<1>12. CallKnows(c)'
  BY <1>5 DEF CallKnows, Locked
<1>13. \A d \in Calls \ {c} : CallKnows(d)'
  BY <1>3, <1>5, OthersKnow
<1> QED
  BY <1>7, <1>8, <1>9, <1>11, <1>12, <1>13 DEF Inv

\* No step of the handlers and no restart breaks the invariant (Next).
LEMMA NextInv == Inv /\ [Next]_vars => Inv'
<1> SUFFICES ASSUME Inv, [Next]_vars PROVE Inv'
  OBVIOUS
<1>1. CASE UNCHANGED vars
  <2>1. UsedIds' = UsedIds /\ \A e : Named(e)' = Named(e)
    BY <1>1 DEF UsedIds, Named, vars, kernel
  <2>2. TypeOK'
    BY <1>1 DEF Inv, TypeOK, vars, cache, kernel
  <2>3. \A c \in Calls : CallKnows(c)'
    BY <1>1, <2>1 DEF Inv, CallKnows, Locked, IsSource, vars, kernel
  <2> QED
    BY <1>1, <2>2, <2>3
      DEF Inv, TableOfOneDevice, OneTable, RulesLeadHome, HandedOut, IsSource, vars, kernel
<1>2. CASE DriverRestart
  BY <1>2, RestartInv
<1>3. ASSUME NEW c \in Calls, Step(c) PROVE Inv'
  BY <1>3, ListInv, LookupInv, NameInv, RuleInv, RouteInv DEF Step
<1> QED
  BY <1>1, <1>2, <1>3 DEF Next

\* The one table of a device has the route that its address is handed out for.
LEMMA InvRoutes == Inv => SourceRouted
<1> SUFFICES ASSUME Inv, NEW h \in handed, NEW r \in rules, r.src = h.src
             PROVE  \E q \in routes : q.table = r.table /\ q.device = h.device
  BY DEF Inv, HandedOut, SourceRouted
<1>1. h.device \in LinkNames /\ IsSource(h.src, h.device)
  BY DEF Inv, HandedOut
<1>2. PICK q \in routes : q.device = h.device
  BY DEF Inv, HandedOut
<1>3. PICK k \in rtTables : k.id = r.table /\ IsSource(r.src, k.device)
  BY DEF Inv, RulesLeadHome
<1>4. k.device = h.device
  <2>1. k.device \in LinkNames
    BY DEF Inv, TypeOK
  <2>2. h.src # NilIP
    BY DEF Inv, RulesLeadHome
  <2> QED
    BY <1>1, <1>3, <2>1, <2>2, NetworkAssumption DEF IsSource
<1>5. [id |-> q.table, device |-> q.device] \in rtTables
  BY DEF Inv, TableOfOneDevice
<1>6. q.table = k.id
  BY <1>2, <1>4, <1>5 DEF Inv, OneTable
<1> QED
  BY <1>2, <1>3, <1>6

\* Two devices never share a routing table, and none takes a table of somebody
\* else, for any number of concurrent calls and restarts (getGcsFuseTableId).
THEOREM TablesSeparate == Spec => []TableOfOneDevice
<1>1. Inv => TableOfOneDevice
  BY DEF Inv
<1> QED
  BY <1>1, InitInv, NextInv, PTL DEF Spec

\* Traffic from an address that a mount was told to use leaves through the NIC
\* that was chosen for it (AddSourceRouteForDevice).
THEOREM SourceRouting == Spec => []SourceRouted
<1> QED
  BY InitInv, NextInv, InvRoutes, PTL DEF Spec
=============================================================================
