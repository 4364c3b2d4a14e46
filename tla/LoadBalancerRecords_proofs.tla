---------------------- MODULE LoadBalancerRecords_proofs ----------------------
(***************************************************************************)
(* The ports recorded in the status of a LoadBalancer, and the ports Envoy *)
(* listens on, for any number of LoadBalancers and ports: recorded ports   *)
(* stay, and two listeners never have the same port.                       *)
(***************************************************************************)
EXTENDS LoadBalancerManager_proofs

-----------------------------------------------------------------------------
(* What the caches and the lists of the workers say about the objects, as  *)
(* long as specs do not change.                                            *)

Counts == updates \in Nat /\ toggles \in Nat /\ restarts \in Nat

\* o was the object x: it has the same spec, and is not deleted before x is.
WasOnce(o, x) ==
  IsObject(o) => /\ x # Absent
                 /\ IsObject(x) => o.spec = x.spec
                 /\ o.deleting => ~Live(x)

\* The object x has become y.
AgedTo(x, y) ==
  /\ x # Absent => y # Absent
  /\ IsObject(y) => x = Absent \/ (IsObject(x) /\ y.spec = x.spec)
  /\ x # Absent /\ ~Live(x) => ~Live(y)

SpecOf(x, k) == x # Absent /\ (IsObject(x) => x.spec = k)

SpecsFollow ==
  /\ \A l \in LBs : WasOnce(cLB[l], lb[l]) /\ WasOnce(eLB[l], lb[l])
  /\ lpc # "idle" => WasOnce(lobj, lb[lcur])
  /\ \A l \in DOMAIN ltodo : SpecOf(lb[l], ltodo[l])
  /\ \A l \in DOMAIN elist : SpecOf(lb[l], elist[l])

\* The counters count.
LEMMA CountsStep ==
  ASSUME Counts, [Next]_vars
  PROVE  Counts'
<1>1. CASE UNCHANGED bounds
  BY <1>1 DEF Counts, bounds
<1>2. ASSUME NEW l \in LBs, NEW k \in PortKeys, UpdateLB(l, k)
      PROVE  Counts'
  BY <1>2 DEF Counts, UpdateLB
<1>3. CASE ToggleDisable \/ Restart
  BY <1>3 DEF Counts, ToggleDisable, Restart
<1>4. CASE UNCHANGED vars
  BY <1>1, <1>4 DEF vars
<1> QED
  BY <1>1, <1>2, <1>3, <1>4, Steps, Zenon
     DEF CreateLB, DeleteLB, OtherEnvoyEvent, SyncLB, SyncService, ServiceStatusChanged,
         SyncEnvoyLB, LBSkip, LBCleanup, LBBegin, LBAllocate, LBRemoveFinalizer,
         reconcileService, updateLoadBalancerStatus, EnvoyClear, EnvoyBegin, EnvoyAllocate,
         EnvoyMap

\* Objects keep their spec, do not return, and do not become live again.
LEMMA ObjectsAge ==
  ASSUME MaxUpdates = 0, Counts, Types, [Next]_vars
  PROVE  \A l \in LBs : AgedTo(lb[l], lb'[l])
<1> USE DEF AgedTo
<1>0. \A o \in Objects : IsObject(o) /\ o # Absent
  BY ObjectIsObject DEF IsObject
<1>1. ASSUME NEW l \in LBs, NEW o \in Maybe(Objects), lb' = [lb EXCEPT ![l] = o], AgedTo(lb[l], o)
      PROVE  \A m \in LBs : AgedTo(lb[m], lb'[m])
  <2>1. \A m \in LBs : lb'[m] = IF m = l THEN o ELSE lb[m]
    BY <1>1 DEF Types, ApiTypes
  <2> QED BY <1>1, <2>1
<1>2. CASE UNCHANGED lb
  BY <1>2
<1>3. ASSUME NEW l \in LBs, NEW k \in PortKeys, CreateLB(l, k)
      PROVE  \A m \in LBs : AgedTo(lb[m], lb'[m])
  <2> DEFINE o == [spec |-> k, fin |-> FALSE, deleting |-> FALSE, status |-> NoStatus]
  <2>1. o \in Objects /\ lb[l] = Absent /\ lb' = [lb EXCEPT ![l] = o]
    BY <1>3 DEF CreateLB, Objects, Statuses
  <2> HIDE DEF o
  <2> QED BY <1>0, <1>1, <2>1 DEF Maybe
<1>4. ASSUME NEW l \in LBs, NEW k \in PortKeys, UpdateLB(l, k)
      PROVE  FALSE
  BY <1>4 DEF UpdateLB, Counts
<1>5. ASSUME NEW l \in LBs, DeleteLB(l)
      PROVE  \A m \in LBs : AgedTo(lb[m], lb'[m])
  <2>1. lb[l] \in Objects /\ Live(lb[l])
    BY <1>5 DEF DeleteLB, Live, IsObject, Types, ApiTypes, Maybe
  <2> DEFINE o == IF lb[l].fin THEN [lb[l] EXCEPT !.deleting = TRUE] ELSE Gone
  <2>2. lb' = [lb EXCEPT ![l] = o]
    BY <1>5 DEF DeleteLB
  <2>3. o \in Maybe(Objects) /\ o # Absent /\ (IsObject(o) => o.spec = lb[l].spec)
    BY <2>1, ObjectUpdates, MarkersAssumption DEF Maybe, IsObject, Objects
  <2> HIDE DEF o
  <2> QED BY <1>1, <2>1, <2>2, <2>3 DEF Live
<1>6. CASE LBRemoveFinalizer
  <2>1. CASE lb[lcur] = lobj
    <3>1. lcur \in LBs /\ lobj \in Objects /\ lb' = [lb EXCEPT ![lcur] = RemoveFinalizers(lobj)]
      BY <1>6, <2>1 DEF LBRemoveFinalizer, Types, LBWorkerTypes
    <3>2. /\ RemoveFinalizers(lobj) \in Maybe(Objects) /\ RemoveFinalizers(lobj) # Absent
          /\ IsObject(RemoveFinalizers(lobj)) =>
               /\ RemoveFinalizers(lobj).spec = lobj.spec
               /\ RemoveFinalizers(lobj).deleting = lobj.deleting /\ ~lobj.deleting
      BY <1>0, <3>1, MarkersAssumption, Zenon DEF RemoveFinalizers, Maybe, IsObject, Objects
    <3> QED BY <1>0, <1>1, <2>1, <3>1, <3>2 DEF Live
  <2>2. CASE lb[lcur] # lobj
    BY <1>2, <1>6, <2>2 DEF LBRemoveFinalizer
  <2> QED BY <2>1, <2>2
<1>7. ASSUME NEW l \in LBs, LBBegin(l)
      PROVE  \A m \in LBs : AgedTo(lb[m], lb'[m])
  <2>1. CASE cLB[l].fin
    BY <1>2, <1>7, <2>1 DEF LBBegin, StoreFinalizer
  <2>2. CASE ~cLB[l].fin
    <3> DEFINE o == [lb[l] EXCEPT !.fin = TRUE]
    <3>1. lb[l] \in Objects /\ lb' = [lb EXCEPT ![l] = o]
      BY <1>7, <2>2 DEF LBBegin, StoreFinalizer, Live, IsObject, Types, ApiTypes, Maybe
    <3>2. o \in Objects /\ o.spec = lb[l].spec /\ o.deleting = lb[l].deleting
      BY <3>1, Zenon DEF Objects
    <3> HIDE DEF o
    <3> QED BY <1>0, <1>1, <3>1, <3>2 DEF Maybe, Live
  <2> QED BY <2>1, <2>2
<1>8. CASE updateLoadBalancerStatus
  <2> DEFINE updated == [up |-> lobj.spec, target |-> cSvc[lcur]]
             o == [lb[lcur] EXCEPT !.status = updated]
  <2>1. CASE lb' # lb
    <3>1. /\ lb[lcur] \in Objects /\ lcur \in LBs /\ updated \in Statuses
          /\ lb' = [lb EXCEPT ![lcur] = o]
      BY <1>8, <2>1 DEF updateLoadBalancerStatus, Types, LBWorkerTypes, ApiTypes, Maybe,
                        IsObject, Statuses, Objects
    <3> HIDE DEF updated
    <3>2. o \in Objects /\ o.spec = lb[lcur].spec /\ o.deleting = lb[lcur].deleting
      BY <3>1 DEF Objects
    <3> HIDE DEF o
    <3> QED BY <1>0, <1>1, <3>1, <3>2 DEF Maybe, Live
  <2>2. CASE lb' = lb
    BY <1>2, <2>2
  <2> QED BY <2>1, <2>2
<1>9. CASE UNCHANGED vars
  BY <1>2, <1>9 DEF vars, lbSide
<1> QED
  BY <1>2, <1>3, <1>4, <1>5, <1>6, <1>7, <1>8, <1>9, Steps, Zenon
     DEF ToggleDisable, OtherEnvoyEvent, SyncLB, SyncService, ServiceStatusChanged,
         SyncEnvoyLB, LBSkip, LBCleanup, LBAllocate, reconcileService, EnvoyClear,
         EnvoyBegin, EnvoyAllocate, EnvoyMap, Restart, lbSide

\* What was once the object remains so.
LEMMA StillOnce ==
  ASSUME NEW o, NEW x, NEW y, WasOnce(o, x), AgedTo(x, y)
  PROVE  WasOnce(o, y)
BY DEF WasOnce, AgedTo, Live, IsObject

\* So does its spec.
LEMMA StillSpec ==
  ASSUME NEW k, NEW x, NEW y, SpecOf(x, k), AgedTo(x, y)
  PROVE  SpecOf(y, k)
BY DEF SpecOf, AgedTo

\* A cache shows what it has shown, or the stored object.
LEMMA CachesRead ==
  ASSUME Types, [Next]_vars, NEW l \in LBs
  PROVE  cLB'[l] \in {cLB[l], lb[l]} /\ eLB'[l] \in {eLB[l], lb[l]}
<1>1. CASE UNCHANGED <<cLB, eLB>>
  BY <1>1
<1>2. ASSUME NEW m \in LBs, SyncLB(m) \/ SyncEnvoyLB(m)
      PROVE  cLB'[l] \in {cLB[l], lb[l]} /\ eLB'[l] \in {eLB[l], lb[l]}
  BY <1>2 DEF SyncLB, SyncEnvoyLB, Types, ApiTypes, lbSide, envoySide
<1>3. CASE Restart
  BY <1>3 DEF Restart
<1>4. CASE UNCHANGED vars
  BY <1>1, <1>4 DEF vars, lbSide, envoySide
<1> QED
  BY <1>1, <1>2, <1>3, <1>4, Steps, Zenon
     DEF CreateLB, UpdateLB, DeleteLB, ToggleDisable, OtherEnvoyEvent, SyncService,
         ServiceStatusChanged, LBSkip, LBCleanup, LBBegin, LBAllocate, LBRemoveFinalizer,
         reconcileService, updateLoadBalancerStatus, EnvoyClear, EnvoyBegin, EnvoyAllocate,
         EnvoyMap, lbSide, envoySide

\* The LoadBalancer reconciler works on what its cache has shown.
LEMMA WorkerReads ==
  ASSUME Types, [Next]_vars
  PROVE  /\ lpc' # "idle" =>
              \/ lpc # "idle" /\ UNCHANGED <<lcur, lobj>>
              \/ /\ lcur' \in LBs /\ IsObject(cLB[lcur'])
                 /\ lobj' \in {cLB[lcur'], [cLB[lcur'] EXCEPT !.fin = TRUE]}
         /\ \A l \in DOMAIN ltodo' :
              \/ l \in DOMAIN ltodo /\ ltodo'[l] = ltodo[l]
              \/ l \in LBs /\ IsObject(cLB[l]) /\ ltodo'[l] = cLB[l].spec
<1>1. CASE UNCHANGED lbWorker
  BY <1>1 DEF lbWorker
<1>2. CASE LBIdle
  BY <1>2 DEF LBIdle, EmptyMap
<1>3. CASE LBRemoveFinalizer \/ updateLoadBalancerStatus \/ Restart
  BY <1>2, <1>3 DEF LBRemoveFinalizer, updateLoadBalancerStatus, Restart, LBDone, LBRetry
<1>4. CASE reconcileService
  BY <1>2, <1>4 DEF reconcileService, LBRetry
<1>5. ASSUME NEW l \in LBs, LBAllocate(l)
      PROVE  /\ lpc # "idle" /\ UNCHANGED <<lcur, lobj>>
             /\ \A m \in DOMAIN ltodo' : m \in DOMAIN ltodo /\ ltodo'[m] = ltodo[m]
  BY <1>5 DEF LBAllocate
<1>6. ASSUME NEW l \in LBs, LBCleanup(l)
      PROVE  lcur' = l /\ IsObject(cLB[l]) /\ lobj' = cLB[l] /\ ltodo' = EmptyMap
  BY <1>6 DEF LBCleanup
<1>7. ASSUME NEW l \in LBs, LBBegin(l)
      PROVE  /\ lcur' = l /\ IsObject(cLB[l]) /\ lobj' = [cLB[l] EXCEPT !.fin = TRUE]
             /\ \A m \in DOMAIN ltodo' : m \in LBs /\ IsObject(cLB[m]) /\ ltodo'[m] = cLB[m].spec
  BY <1>7 DEF LBBegin, Live
<1>8. CASE UNCHANGED vars
  BY <1>1, <1>8 DEF vars, lbSide
<1> QED
  BY <1>1, <1>3, <1>4, <1>5, <1>6, <1>7, <1>8, Steps, Zenon
     DEF CreateLB, UpdateLB, DeleteLB, ToggleDisable, OtherEnvoyEvent, SyncLB, SyncService,
         ServiceStatusChanged, SyncEnvoyLB, LBSkip, EnvoyClear, EnvoyBegin, EnvoyAllocate,
         EnvoyMap, lbSide, EmptyMap

\* The Envoy reconciler works on the list of its cache.
LEMMA EnvoyReads ==
  ASSUME Types, [Next]_vars
  PROVE  \A l \in DOMAIN elist' :
           \/ l \in DOMAIN elist /\ elist'[l] = elist[l]
           \/ l \in LBs /\ IsObject(eLB[l]) /\ elist'[l] = eLB[l].spec
<1>1. CASE UNCHANGED elist
  BY <1>1
<1>2. CASE EnvoyBegin
  BY <1>2 DEF EnvoyBegin, ListLoadBalancers, Live
<1>3. ASSUME NEW l \in LBs, EnvoyMap(l)
      PROVE  UNCHANGED elist \/ elist' = EmptyMap
  BY <1>3 DEF EnvoyMap, EnvoyDone
<1>4. CASE Restart
  BY <1>4 DEF Restart, EnvoyDone, EmptyMap
<1>5. CASE UNCHANGED vars
  BY <1>1, <1>5, Zenon DEF vars, envoySide, envoyWorker
<1> QED
  BY <1>1, <1>2, <1>3, <1>4, <1>5, Steps, Zenon
     DEF CreateLB, UpdateLB, DeleteLB, ToggleDisable, OtherEnvoyEvent, SyncLB, SyncService,
         ServiceStatusChanged, SyncEnvoyLB, LBSkip, LBCleanup, LBBegin, LBAllocate,
         LBRemoveFinalizer, reconcileService, updateLoadBalancerStatus, EnvoyClear,
         EnvoyAllocate, envoySide, envoyWorker, EmptyMap

\* Caches and lists keep following the objects.
LEMMA SpecsFollowStep ==
  ASSUME MaxUpdates = 0, Counts, Types, SpecsFollow, [Next]_vars
  PROVE  SpecsFollow'
<1>1. \A l \in LBs : AgedTo(lb[l], lb'[l])
  BY ObjectsAge
<1>2. \A l \in LBs : WasOnce(lb[l], lb[l])
  BY DEF WasOnce, Live, IsObject
<1>3. \A l \in LBs : WasOnce(cLB'[l], lb'[l]) /\ WasOnce(eLB'[l], lb'[l])
  <2> TAKE l \in LBs
  <2>1. WasOnce(cLB'[l], lb[l]) /\ WasOnce(eLB'[l], lb[l])
    BY <1>2, CachesRead DEF SpecsFollow
  <2> QED BY <1>1, <2>1, StillOnce
<1>4. lpc' # "idle" => WasOnce(lobj', lb'[lcur'])
  <2> SUFFICES ASSUME lpc' # "idle" PROVE WasOnce(lobj', lb'[lcur'])
    OBVIOUS
  <2>1. CASE lpc # "idle" /\ UNCHANGED <<lcur, lobj>>
    <3>1. lcur \in LBs /\ WasOnce(lobj, lb[lcur])
      BY <2>1 DEF Types, LBWorkerTypes, SpecsFollow
    <3> QED BY <1>1, <2>1, <3>1, StillOnce
  <2>2. CASE /\ lcur' \in LBs /\ IsObject(cLB[lcur'])
             /\ lobj' \in {cLB[lcur'], [cLB[lcur'] EXCEPT !.fin = TRUE]}
    <3>1. cLB[lcur'] \in Objects /\ WasOnce(cLB[lcur'], lb[lcur'])
      BY <2>2 DEF Types, ApiTypes, Maybe, IsObject, SpecsFollow
    <3>2. lobj'.spec = cLB[lcur'].spec /\ lobj'.deleting = cLB[lcur'].deleting
      BY <2>2, <3>1 DEF Objects
    <3>3. WasOnce(lobj', lb[lcur'])
      BY <2>2, <3>1, <3>2 DEF WasOnce
    <3> QED BY <1>1, <2>2, <3>3, StillOnce
  <2> QED BY <2>1, <2>2, WorkerReads
<1>5. \A l \in DOMAIN ltodo' : SpecOf(lb'[l], ltodo'[l])
  <2> TAKE l \in DOMAIN ltodo'
  <2>1. l \in LBs /\ SpecOf(lb[l], ltodo'[l])
    BY WorkerReads DEF SpecsFollow, SpecOf, WasOnce, Types, LBWorkerTypes
  <2> QED BY <1>1, <2>1, StillSpec
<1>6. \A l \in DOMAIN elist' : SpecOf(lb'[l], elist'[l])
  <2> TAKE l \in DOMAIN elist'
  <2>1. l \in LBs /\ SpecOf(lb[l], elist'[l])
    BY EnvoyReads DEF SpecsFollow, SpecOf, WasOnce, Types, EnvoyTypes
  <2> QED BY <1>1, <2>1, StillSpec
<1> QED BY <1>3, <1>4, <1>5, <1>6 DEF SpecsFollow

-----------------------------------------------------------------------------
(* Target ports, as long as specs do not change.                           *)

\* The table has a port for the object, and the port the callers of Lookup get.
Known(l) == lb[l].spec \in DOMAIN Entry(portLookup, l)
Port(l) == TargetPort(l, lb[l].spec)

Unborn ==
  \A l \in LBs : lb[l] = Absent => svc[l] = Absent /\ cSvc[l] = Absent /\ l \notin DOMAIN portLookup

\* A Service in the cache is at most one write of reconcileService behind, and a
\* recorded target port that is in force is the one in the table.
ServiceFollows(l) ==
  /\ ~Known(l) => svc[l] \in {cSvc[l], Absent}
  /\ Known(l) /\ cSvc[l] = Port(l) => svc[l] \in {Port(l), Absent}
  /\ lb[l].status # NoStatus => lb[l].status.up = lb[l].spec
  /\ lb[l].status # NoStatus /\ lb[l].status.target = svc[l] => Known(l) /\ svc[l] = Port(l)

ServicesFollow == \A l \in LBs : IsObject(lb[l]) => ServiceFollows(l)

\* The worker writes the Service after it has allocated the port.
WorkerKnows ==
  lpc # "idle" /\ IsObject(lb[lcur]) =>
    /\ lpc = "alloc" => lcur \in DOMAIN ltodo \/ Known(lcur)
    /\ lpc \in {"service", "status"} => Known(lcur)
    /\ lpc = "status" => svc[lcur] \in {Port(lcur), Absent}

PortInv == Types /\ Counts /\ SpecsFollow /\ Unborn /\ ServicesFollow /\ WorkerKnows

\* An allocation for the spec of m leaves the ports that are known, and draws one
\* that is free for m if it has none.
LEMMA AllocateGrows ==
  ASSUME Types, NEW m \in LBs, NEW k \in PortKeys, SpecOf(lb[m], k),
         AllocatePorts(m, {k}) \/ AllocatePortsSpins(m, {k}), UNCHANGED lb
  PROVE  /\ \A l \in LBs : IsObject(lb[l]) =>
              /\ Known(l) => Known(l)' /\ Port(l)' = Port(l)
              /\ ~Known(l) /\ Known(l)' => l = m /\ Port(l)' \in Ports \ portLookupReverse
         /\ AllocatePorts(m, {k}) /\ IsObject(lb[m]) => Known(m)'
         /\ DOMAIN portLookup' = DOMAIN portLookup \cup {m}
<1>1. CASE AllocatePorts(m, {k})
  <2>1. PICK drawn \in [KeysToDraw(m, {k}) -> allocatePort] :
          SetEntry(m, [j \in {k} |-> IF j \in DOMAIN drawn THEN drawn[j]
                                     ELSE Entry(portLookup, m)[j]])
    BY <1>1, Zenon DEF AllocatePorts
  <2>2. DOMAIN portLookup' = DOMAIN portLookup \cup {m}
    BY <2>1 DEF SetEntry
  <2>3. ASSUME NEW l \in LBs, l # m
        PROVE  Entry(portLookup', l) = Entry(portLookup, l)
    BY <2>1, <2>3 DEF SetEntry, Entry
  <2>4. ASSUME NEW l \in LBs, l # m
        PROVE  Known(l)' = Known(l) /\ Port(l)' = Port(l)
    <3>1. l \in DOMAIN portLookup => portLookup'[l] = portLookup[l]
      BY <2>1, <2>4 DEF SetEntry
    <3>2. Lookup(l, lb[l].spec)' = Lookup(l, lb[l].spec)
      BY <2>3, <2>4, <3>1, Zenon DEF Lookup, Entry, EmptyMap
    <3> QED BY <2>3, <2>4, <3>2, Zenon DEF Known, Port, TargetPort
  <2>5. /\ Entry(portLookup', m) = portLookup'[m] /\ DOMAIN portLookup'[m] = {k}
        /\ portLookup'[m][k] = IF k \in DOMAIN drawn THEN drawn[k] ELSE Entry(portLookup, m)[k]
    BY <2>1 DEF SetEntry, Entry
  <2>6. ASSUME IsObject(lb[m])
        PROVE  /\ Known(m)'
               /\ Known(m) => Port(m)' = Port(m)
               /\ ~Known(m) => Port(m)' \in Ports \ portLookupReverse
    <3>1. lb[m].spec = k
      BY <2>6 DEF SpecOf
    <3>2. Known(m)'
      BY <2>5, <3>1 DEF Known
    <3>3. Lookup(m, k)' = portLookup'[m][k]
      BY <2>5 DEF Lookup
    <3>4. CASE Known(m)
      <4>1. k \in DOMAIN Entry(portLookup, m) /\ k \notin DOMAIN drawn
        BY <3>1, <3>4, Zenon DEF Known, KeysToDraw
      <4>2. portLookup'[m][k] = portLookup[m][k] /\ Lookup(m, k) = portLookup[m][k]
        BY <2>5, <4>1, Zenon DEF Entry, EmptyMap, Lookup
      <4> QED BY <3>1, <3>2, <3>3, <3>4, <4>2, Zenon DEF Port, TargetPort
    <3>5. CASE ~Known(m)
      <4>1. k \in DOMAIN drawn /\ drawn[k] \in Ports \ portLookupReverse
        BY <3>1, <3>5, Zenon DEF Known, KeysToDraw, allocatePort
      <4>2. portLookup'[m][k] = drawn[k] /\ drawn[k] # NoPort
        BY <2>5, <4>1, NoPortAssumption
      <4> QED BY <3>1, <3>2, <3>3, <3>5, <4>1, <4>2, Zenon DEF Port, TargetPort
    <3> QED BY <3>4, <3>5
  <2> QED BY <2>2, <2>4, <2>6, Zenon
<1>2. CASE AllocatePortsSpins(m, {k})
  <2>1. DOMAIN portLookup' = DOMAIN portLookup \cup {m} /\ ~AllocatePorts(m, {k})
    BY <1>2, Zenon DEF AllocatePortsSpins, AllocatePorts, SetEntry
  <2>2. ASSUME NEW l \in LBs
        PROVE  Entry(portLookup', l) = Entry(portLookup, l)
    BY <1>2, Zenon DEF AllocatePortsSpins, SetEntry, Entry
  <2>3. ASSUME NEW l \in LBs
        PROVE  Lookup(l, lb[l].spec)' = Lookup(l, lb[l].spec)
    BY <1>2, Zenon DEF AllocatePortsSpins, SetEntry, Entry, Lookup, EmptyMap
  <2> QED BY <2>1, <2>2, <2>3, Zenon DEF Known, Port, TargetPort
<1> QED BY <1>1, <1>2, Zenon

\* Only updateLoadBalancerStatus changes the status of an object.
LEMMA StatusKept ==
  ASSUME Types, [Next]_vars, ~updateLoadBalancerStatus, NEW l \in LBs, IsObject(lb'[l])
  PROVE  /\ IsObject(lb[l]) => lb'[l].status = lb[l].status
         /\ lb[l] = Absent => lb'[l].status = NoStatus
<1>1. CASE UNCHANGED lb
  BY <1>1 DEF IsObject
<1>2. ASSUME NEW m \in LBs, NEW k \in PortKeys, CreateLB(m, k)
      PROVE  lb'[l] = lb[l] \/ (lb[l] = Absent /\ lb'[l].status = NoStatus)
  BY <1>2 DEF CreateLB, Types, ApiTypes
<1>3. ASSUME NEW m \in LBs, NEW k \in PortKeys, UpdateLB(m, k)
      PROVE  lb'[l] = lb[l] \/ (IsObject(lb[l]) /\ lb'[l].status = lb[l].status)
  <2>1. lb[m] \in Objects /\ IsObject(lb[m]) /\ lb' = [lb EXCEPT ![m] = [@ EXCEPT !.spec = k]]
    BY <1>3 DEF UpdateLB, Live, IsObject, Types, ApiTypes, Maybe
  <2> QED BY <2>1 DEF Types, ApiTypes, Objects
<1>4. ASSUME NEW m \in LBs, DeleteLB(m)
      PROVE  lb'[l] = lb[l] \/ (IsObject(lb[l]) /\ lb'[l].status = lb[l].status)
  <2>1. lb[m] \in Objects /\ IsObject(lb[m])
    BY <1>4 DEF DeleteLB, Live, IsObject, Types, ApiTypes, Maybe
  <2>2. lb'[l] = lb[l] \/ (l = m /\ lb'[l] = [lb[m] EXCEPT !.deleting = TRUE])
    BY <1>4 DEF DeleteLB, Types, ApiTypes, IsObject
  <2> QED BY <2>1, <2>2 DEF Objects
<1>5. CASE LBRemoveFinalizer
  <2>1. CASE lb[lcur] = lobj
    <3>1. lcur \in LBs /\ lobj \in Objects /\ IsObject(lobj)
      BY <1>5, <2>1, ObjectIsObject DEF LBRemoveFinalizer, Types, LBWorkerTypes
    <3>2. lb'[l] = lb[l] \/ (l = lcur /\ lb'[l] = [lobj EXCEPT !.fin = FALSE])
      BY <1>5, <2>1, <3>1 DEF LBRemoveFinalizer, RemoveFinalizers, Types, ApiTypes, IsObject
    <3> QED BY <2>1, <3>1, <3>2 DEF Objects, IsObject
  <2>2. CASE lb[lcur] # lobj
    BY <1>1, <1>5, <2>2 DEF LBRemoveFinalizer
  <2> QED BY <2>1, <2>2
<1>6. ASSUME NEW m \in LBs, LBBegin(m)
      PROVE  lb'[l] = lb[l] \/ (IsObject(lb[l]) /\ lb'[l].status = lb[l].status)
  <2>1. CASE cLB[m].fin
    BY <1>6, <2>1 DEF LBBegin, StoreFinalizer
  <2>2. CASE ~cLB[m].fin
    <3>1. lb[m] \in Objects /\ IsObject(lb[m]) /\ lb' = [lb EXCEPT ![m] = [@ EXCEPT !.fin = TRUE]]
      BY <1>6, <2>2 DEF LBBegin, StoreFinalizer, Live, IsObject, Types, ApiTypes, Maybe
    <3> QED BY <3>1 DEF Types, ApiTypes, Objects
  <2> QED BY <2>1, <2>2
<1>7. UNCHANGED lb \/ (\E n \in LBs, j \in PortKeys : CreateLB(n, j) \/ UpdateLB(n, j))
      \/ (\E n \in LBs : DeleteLB(n) \/ LBBegin(n)) \/ LBRemoveFinalizer
  BY Steps, Zenon
     DEF ToggleDisable, OtherEnvoyEvent, SyncLB, SyncService, ServiceStatusChanged,
         SyncEnvoyLB, LBSkip, LBCleanup, LBAllocate, reconcileService, EnvoyClear,
         EnvoyBegin, EnvoyAllocate, EnvoyMap, Restart, lbSide, vars
<1> QED BY <1>1, <1>2, <1>3, <1>4, <1>5, <1>6, <1>7 DEF IsObject

\* A cached Service is one that was cached or is stored.
LEMMA ServicesRead ==
  ASSUME Types, [Next]_vars, NEW l \in LBs
  PROVE  cSvc'[l] \in {cSvc[l], svc[l]}
<1>1. CASE UNCHANGED cSvc
  BY <1>1
<1>2. ASSUME NEW m \in LBs, SyncService(m) \/ ServiceStatusChanged(m)
      PROVE  cSvc'[l] \in {cSvc[l], svc[l]}
  BY <1>2 DEF SyncService, ServiceStatusChanged, Types, ApiTypes
<1>3. CASE Restart
  BY <1>3 DEF Restart
<1>4. CASE UNCHANGED vars
  BY <1>1, <1>4 DEF vars, lbSide
<1> QED
  BY <1>1, <1>2, <1>3, <1>4, Steps, Zenon
     DEF CreateLB, UpdateLB, DeleteLB, ToggleDisable, OtherEnvoyEvent, SyncLB, SyncEnvoyLB,
         LBSkip, LBCleanup, LBBegin, LBAllocate, LBRemoveFinalizer, reconcileService,
         updateLoadBalancerStatus, EnvoyClear, EnvoyBegin, EnvoyAllocate, EnvoyMap, lbSide

\* Services are removed by cleanup and written by reconcileService, for the
\* object the worker has read.
LEMMA ServicesWritten ==
  ASSUME Types, SpecsFollow, [Next]_vars, NEW l \in LBs
  PROVE  \/ svc'[l] \in {svc[l], Absent}
         \/ /\ reconcileService /\ l = lcur /\ lb[l] # Absent
            /\ IsObject(lb[l]) => svc'[l] = Port(l)
<1>1. CASE UNCHANGED svc
  BY <1>1
<1>2. ASSUME NEW m \in LBs, LBCleanup(m)
      PROVE  svc'[l] \in {svc[l], Absent}
  BY <1>2 DEF LBCleanup, Types, ApiTypes
<1>3. CASE reconcileService
  <2>1. lcur \in LBs /\ IsObject(lobj) /\ WasOnce(lobj, lb[lcur])
    BY <1>3, ObjectIsObject, Zenon DEF reconcileService, Types, LBWorkerTypes, SpecsFollow
  <2>2. svc'[l] = svc[l] \/ (l = lcur /\ svc'[l] = TargetPort(lcur, lobj.spec))
    BY <1>3, <2>1 DEF reconcileService, Types, ApiTypes
  <2> QED BY <1>3, <2>1, <2>2 DEF WasOnce, Port
<1>4. CASE UNCHANGED vars
  BY <1>1, <1>4 DEF vars, lbSide
<1> QED
  BY <1>1, <1>2, <1>3, <1>4, Steps, Zenon
     DEF CreateLB, UpdateLB, DeleteLB, ToggleDisable, OtherEnvoyEvent, SyncLB, SyncService,
         ServiceStatusChanged, SyncEnvoyLB, LBSkip, LBBegin, LBAllocate, LBRemoveFinalizer,
         updateLoadBalancerStatus, EnvoyClear, EnvoyBegin, EnvoyAllocate, EnvoyMap, Restart,
         lbSide

\* The table changes when cleanup releases an endpoint, when a worker allocates
\* for an object it has read, and when LoadState fills it.
LEMMA TableChanges ==
  ASSUME Types, SpecsFollow, [Next]_vars
  PROVE  \/ UNCHANGED portLookup
         \/ \E l \in LBs : LBCleanup(l)
         \/ /\ UNCHANGED <<lb, svc, cSvc>>
            /\ \E l \in LBs, k \in PortKeys :
                 SpecOf(lb[l], k) /\ (AllocatePorts(l, {k}) \/ AllocatePortsSpins(l, {k}))
         \/ Restart
<1>1. ASSUME NEW l \in LBs, LBAllocate(l)
      PROVE  /\ UNCHANGED <<lb, svc, cSvc>> /\ ltodo[l] \in PortKeys /\ SpecOf(lb[l], ltodo[l])
             /\ AllocatePorts(l, {ltodo[l]}) \/ AllocatePortsSpins(l, {ltodo[l]})
  BY <1>1 DEF LBAllocate, Types, LBWorkerTypes, SpecsFollow
<1>2. ASSUME NEW l \in LBs, EnvoyAllocate(l)
      PROVE  /\ UNCHANGED <<lb, svc, cSvc>> /\ elist[l] \in PortKeys /\ SpecOf(lb[l], elist[l])
             /\ AllocatePorts(l, {elist[l]}) \/ AllocatePortsSpins(l, {elist[l]})
  BY <1>2, Zenon DEF EnvoyAllocate, Types, EnvoyTypes, SpecsFollow, lbSide
<1>3. CASE UNCHANGED vars
  BY <1>3 DEF vars, allocVars
<1> QED
  BY <1>1, <1>2, <1>3, Steps, Zenon
     DEF CreateLB, UpdateLB, DeleteLB, ToggleDisable, OtherEnvoyEvent, SyncLB, SyncService,
         ServiceStatusChanged, SyncEnvoyLB, LBSkip, LBBegin, LBRemoveFinalizer,
         reconcileService, updateLoadBalancerStatus, EnvoyClear, EnvoyBegin, EnvoyMap,
         allocVars

\* Nothing belongs to a LoadBalancer that was never created.
LEMMA UnbornStep ==
  ASSUME MaxUpdates = 0, Counts, Types, SpecsFollow, Unborn, [Next]_vars
  PROVE  Unborn'
<1> SUFFICES ASSUME NEW l \in LBs, lb'[l] = Absent
             PROVE  svc'[l] = Absent /\ cSvc'[l] = Absent /\ l \notin DOMAIN portLookup'
  BY DEF Unborn
<1>1. lb[l] = Absent /\ ~IsObject(lb[l])
  BY ObjectsAge DEF AgedTo, IsObject
<1>2. svc[l] = Absent /\ cSvc[l] = Absent /\ l \notin DOMAIN portLookup
  BY <1>1 DEF Unborn
<1>3. svc'[l] = Absent /\ cSvc'[l] = Absent
  BY <1>1, <1>2, ServicesWritten, ServicesRead
<1>4. l \notin DOMAIN portLookup'
  <2>1. ASSUME NEW m \in LBs, LBCleanup(m)
        PROVE  l \notin DOMAIN portLookup'
    BY <1>2, <2>1 DEF LBCleanup, DeallocateEndpoints
  <2>2. ASSUME NEW m \in LBs, NEW k \in PortKeys, SpecOf(lb[m], k),
               AllocatePorts(m, {k}) \/ AllocatePortsSpins(m, {k}), UNCHANGED lb
        PROVE  l \notin DOMAIN portLookup'
    BY <1>1, <1>2, <2>2, AllocateGrows, Zenon DEF SpecOf
  <2>3. CASE Restart
    BY <1>1, <2>3, Zenon DEF Restart, LoadState
  <2> QED BY <1>2, <2>1, <2>2, <2>3, TableChanges, Zenon
<1> QED BY <1>3, <1>4

\* An object that keeps its spec keeps its port while the table stays.
LEMMA PortKept ==
  ASSUME NEW l \in LBs, lb'[l].spec = lb[l].spec, UNCHANGED portLookup
  PROVE  Known(l)' = Known(l) /\ Port(l)' = Port(l)
BY DEF Known, Port, TargetPort, Lookup, Entry

\* What LoadState knows of an object is the recorded target port.
LEMMA LoadedPort ==
  ASSUME Types, Restart, NEW l \in LBs, IsObject(lb[l])
  PROVE  /\ Known(l)' => lb[l].status # NoStatus /\ Port(l)' = lb[l].status.target
         /\ lb[l].status # NoStatus /\ lb[l].status.up = lb[l].spec => Known(l)'
<1>1. lb' = lb /\ portLookup' = LoadState
  BY DEF Restart
<1>2. l \in DOMAIN LoadState /\ LoadState[l] =
        IF lb[l].status # NoStatus /\ lb[l].status.up = lb[l].spec
          THEN [k \in {lb[l].spec} |-> lb[l].status.target] ELSE EmptyMap
  BY DEF LoadState
<1>3. Entry(portLookup', l) = LoadState[l]
  BY <1>1, <1>2 DEF Entry
<1>4. CASE lb[l].status # NoStatus /\ lb[l].status.up = lb[l].spec
  <2>1. lb[l].status.target # NoPort
    BY <1>4, NoPortAssumption
       DEF Types, ApiTypes, Maybe, IsObject, Objects, Statuses, TargetPorts
  <2>2. Known(l)' /\ Lookup(l, lb[l].spec)' = lb[l].status.target
    BY <1>1, <1>2, <1>3, <1>4 DEF Known, Lookup
  <2> QED BY <1>1, <1>4, <2>1, <2>2 DEF Port, TargetPort
<1>5. CASE ~(lb[l].status # NoStatus /\ lb[l].status.up = lb[l].spec)
  BY <1>1, <1>2, <1>3, <1>5 DEF Known, EmptyMap
<1> QED BY <1>4, <1>5, Zenon

\* Services and statuses keep following the table.
LEMMA ServicesFollowStep ==
  ASSUME MaxUpdates = 0, PortInv, [Next]_vars
  PROVE  ServicesFollow'
<1> SUFFICES ASSUME NEW l \in LBs, IsObject(lb'[l])
             PROVE  ServiceFollows(l)'
  BY DEF ServicesFollow
<1> USE DEF PortInv
<1>1. /\ AgedTo(lb[l], lb'[l])
      /\ lb[l] # Absent => IsObject(lb[l]) /\ lb'[l].spec = lb[l].spec /\ ServiceFollows(l)
  BY ObjectsAge DEF AgedTo, IsObject, ServicesFollow
<1>2. lb'[l].status # NoStatus =>
        lb'[l].status.target \in TargetPorts /\ lb'[l].status.target # Absent
  <2>1. lb'[l] \in Objects
    BY TypesStep DEF Types, ApiTypes, Maybe, IsObject
  <2> QED BY <2>1, MarkersAssumption DEF Objects, Statuses
<1>3. CASE lb[l] = Absent
  <2>1. lb'[l].status = NoStatus
    <3>1. ~updateLoadBalancerStatus
      BY <1>1, <1>3 DEF updateLoadBalancerStatus, Types, ApiTypes, IsObject
    <3> QED BY <1>3, <3>1, StatusKept
  <2>2. svc'[l] = Absent
    BY <1>3, ServicesWritten DEF Unborn
  <2>3. cSvc'[l] = Absent
    BY <1>3, ServicesRead DEF Unborn
  <2>4. UNCHANGED portLookup
    BY <1>3, TableChanges, Zenon DEF LBCleanup, Restart, IsObject
  <2>5. ~Known(l)'
    BY <1>3, <2>4 DEF Known, Entry, EmptyMap, Unborn
  <2> QED BY <2>1, <2>2, <2>3, <2>5, Zenon DEF ServiceFollows
<1>4. CASE lb[l] # Absent
  <2>0. IsObject(lb[l]) /\ lb'[l].spec = lb[l].spec /\ ServiceFollows(l)
    BY <1>1, <1>4
  <2>1. CASE Restart
    <3>1. lb' = lb /\ svc' = svc /\ cSvc' = svc
      BY <2>1 DEF Restart
    <3> QED BY <2>0, <2>1, <3>1, LoadedPort, Zenon DEF ServiceFollows
  <2>2. ASSUME NEW m \in LBs, LBCleanup(m)
        PROVE  ServiceFollows(l)'
    <3>1. /\ lb' = lb /\ cSvc' = cSvc
          /\ portLookup' = [x \in DOMAIN portLookup \ {m} |-> portLookup[x]]
      BY <2>2 DEF LBCleanup, DeallocateEndpoints
    <3>2. CASE l = m
      <4>1. svc'[l] = Absent
        BY <2>2, <3>2 DEF LBCleanup, Types, ApiTypes
      <4>2. ~Known(l)'
        BY <3>1, <3>2 DEF Known, Entry, EmptyMap
      <4> QED BY <1>2, <2>0, <3>1, <4>1, <4>2, Zenon DEF ServiceFollows
    <3>3. CASE l # m
      <4>1. svc'[l] = svc[l]
        BY <2>2, <3>3 DEF LBCleanup, Types, ApiTypes
      <4>2. /\ Entry(portLookup', l) = Entry(portLookup, l)
            /\ l \in DOMAIN portLookup => portLookup'[l] = portLookup[l]
        BY <3>1, <3>3 DEF Entry
      <4>3. Known(l)' = Known(l) /\ Port(l)' = Port(l)
        BY <3>1, <4>2, Zenon DEF Known, Port, TargetPort, Lookup, Entry, EmptyMap
      <4> QED BY <2>0, <3>1, <4>1, <4>3, Zenon DEF ServiceFollows
    <3> QED BY <3>2, <3>3
  <2>3. ASSUME NEW m \in LBs, NEW k \in PortKeys, SpecOf(lb[m], k), UNCHANGED <<lb, svc, cSvc>>,
               AllocatePorts(m, {k}) \/ AllocatePortsSpins(m, {k})
        PROVE  ServiceFollows(l)'
    <3>1. /\ Known(l) => Known(l)' /\ Port(l)' = Port(l)
          /\ lb' = lb /\ svc' = svc /\ cSvc' = cSvc
      BY <2>0, <2>3, AllocateGrows, Zenon
    <3> QED BY <2>0, <3>1, Zenon DEF ServiceFollows
  <2>4. CASE UNCHANGED portLookup /\ ~Restart
    <3>1. Known(l)' = Known(l) /\ Port(l)' = Port(l)
      BY <2>0, <2>4, PortKept
    <3>2. CASE updateLoadBalancerStatus /\ lb' # lb /\ l = lcur
      <4>1. /\ svc' = svc /\ cSvc' = cSvc /\ lb[l] \in Objects /\ lpc = "status"
            /\ lb' = [lb EXCEPT ![l] = [@ EXCEPT !.status = [up |-> lobj.spec, target |-> cSvc[l]]]]
        BY <2>0, <3>2 DEF updateLoadBalancerStatus, Types, ApiTypes, Maybe, IsObject
      <4>2. lb'[l].status = [up |-> lobj.spec, target |-> cSvc[l]]
        BY <4>1 DEF Types, ApiTypes, Objects
      <4>3. IsObject(lobj) /\ WasOnce(lobj, lb[l])
        BY <3>2, <4>1, ObjectIsObject DEF Types, LBWorkerTypes, SpecsFollow
      <4>4. lobj.spec = lb[l].spec
        BY <2>0, <4>3 DEF WasOnce
      <4>5. Known(l) /\ svc[l] \in {Port(l), Absent}
        BY <2>0, <3>2, <4>1 DEF WorkerKnows
      <4> QED BY <1>2, <2>0, <3>1, <4>1, <4>2, <4>4, <4>5 DEF ServiceFollows
    <3>3. CASE ~(updateLoadBalancerStatus /\ lb' # lb /\ l = lcur)
      <4>1. lb'[l].status = lb[l].status
        <5>1. CASE updateLoadBalancerStatus
          BY <3>3, <5>1 DEF updateLoadBalancerStatus, Types, ApiTypes
        <5>2. CASE ~updateLoadBalancerStatus
          BY <2>0, <5>2, StatusKept
        <5> QED BY <5>1, <5>2
      <4>2. CASE reconcileService /\ l = lcur
        <5>1. cSvc' = cSvc /\ Known(l) /\ TargetPort(l, lobj.spec) = Port(l)
          BY <2>0, <4>2, ObjectIsObject, Zenon
             DEF reconcileService, WorkerKnows, Types, LBWorkerTypes, SpecsFollow, WasOnce, Port
        <5>2. CASE cSvc[l] = Port(l)
          <6>1. svc' = svc
            BY <4>2, <5>1, <5>2, Zenon DEF reconcileService
          <6> QED BY <2>0, <3>1, <4>1, <5>1, <6>1, Zenon DEF ServiceFollows
        <5>3. CASE cSvc[l] # Port(l) /\ svc' = svc
          BY <2>0, <3>1, <4>1, <5>1, <5>3, Zenon DEF ServiceFollows
        <5>4. CASE svc' # svc
          <6>1. svc'[l] = Port(l)
            BY <4>2, <5>1, <5>4 DEF reconcileService, Types, ApiTypes
          <6> QED BY <2>0, <3>1, <4>1, <5>1, <6>1, Zenon DEF ServiceFollows
        <5> QED BY <5>2, <5>3, <5>4
      <4>3. CASE ~(reconcileService /\ l = lcur)
        <5>1. svc'[l] \in {svc[l], Absent} /\ cSvc'[l] \in {cSvc[l], svc[l]}
          BY <4>3, ServicesWritten, ServicesRead, Zenon
        <5> QED BY <1>2, <2>0, <3>1, <4>1, <5>1, Zenon DEF ServiceFollows
      <4> QED BY <4>2, <4>3
    <3> QED BY <3>2, <3>3
  <2> QED BY <2>1, <2>2, <2>3, <2>4, TableChanges, Zenon
<1> QED BY <1>3, <1>4

\* The worker keeps knowing the port it has allocated.
LEMMA WorkerKnowsStep ==
  ASSUME MaxUpdates = 0, PortInv, [Next]_vars
  PROVE  WorkerKnows'
<1> SUFFICES ASSUME lpc' # "idle", IsObject(lb'[lcur'])
             PROVE  /\ lpc' = "alloc" => lcur' \in DOMAIN ltodo' \/ Known(lcur)'
                    /\ lpc' \in {"service", "status"} => Known(lcur)'
                    /\ lpc' = "status" => svc'[lcur'] \in {Port(lcur)', Absent}
  BY DEF WorkerKnows
<1> USE DEF PortInv
<1>1. ASSUME lpc # "idle", lcur' = lcur
      PROVE  /\ lcur \in LBs /\ IsObject(lb[lcur]) /\ lb'[lcur].spec = lb[lcur].spec
             /\ lobj.spec = lb[lcur].spec
  <2>1. lcur \in LBs /\ IsObject(lobj) /\ WasOnce(lobj, lb[lcur]) /\ AgedTo(lb[lcur], lb'[lcur])
    BY <1>1, ObjectIsObject, ObjectsAge, Zenon DEF Types, LBWorkerTypes, SpecsFollow
  <2> QED BY <1>1, <2>1 DEF WasOnce, AgedTo, IsObject
<1>2. CASE UNCHANGED <<lpc, lcur, ltodo, svc>>
  <2>1. lcur \in LBs /\ IsObject(lb[lcur]) /\ lb'[lcur].spec = lb[lcur].spec
    BY <1>1, <1>2
  <2>2. CASE UNCHANGED portLookup
    <3>1. Known(lcur)' = Known(lcur) /\ Port(lcur)' = Port(lcur)
      BY <1>2, <2>1, <2>2 DEF Known, Port, TargetPort, Lookup, Entry
    <3> QED BY <1>2, <2>1, <3>1 DEF WorkerKnows
  <2>3. ASSUME NEW m \in LBs, NEW k \in PortKeys, SpecOf(lb[m], k), UNCHANGED <<lb, svc, cSvc>>,
               AllocatePorts(m, {k}) \/ AllocatePortsSpins(m, {k})
        PROVE  Known(lcur) => Known(lcur)' /\ Port(lcur)' = Port(lcur)
    <3>1. lcur' = lcur
      BY <1>2
    <3>2. \A l \in LBs : IsObject(lb[l]) /\ Known(l) => Known(l)' /\ Port(l)' = Port(l)
      BY <2>3, AllocateGrows, Zenon
    <3> QED BY <2>1, <3>1, <3>2, Zenon DEF Known, Port, TargetPort, Lookup
  <2>4. ASSUME NEW m \in LBs, LBCleanup(m)
        PROVE  lpc' = "unfinal"
    BY <2>4, Zenon DEF LBCleanup
  <2>5. CASE Restart
    BY <2>5, Zenon DEF Restart, LBIdle
  <2> QED BY <1>2, <2>1, <2>2, <2>3, <2>4, <2>5, TableChanges, Zenon DEF WorkerKnows
<1>3. ASSUME NEW m \in LBs, LBAllocate(m)
      PROVE  /\ lpc' = "alloc" => lcur' \in DOMAIN ltodo' \/ Known(lcur)'
             /\ lpc' = "service" => Known(lcur)'
             /\ lpc' \in {"alloc", "service"}
  <2>1. /\ lcur' = lcur /\ lb' = lb /\ lpc = "alloc" /\ m \in DOMAIN ltodo
        /\ ltodo[m] \in PortKeys /\ SpecOf(lb[m], ltodo[m])
        /\ AllocatePorts(m, {ltodo[m]}) \/ AllocatePortsSpins(m, {ltodo[m]})
    BY <1>3 DEF LBAllocate, Types, LBWorkerTypes, SpecsFollow
  <2>2. lcur \in LBs /\ IsObject(lb[lcur])
    BY <1>1, <2>1, Zenon
  <2>3. /\ \A l \in LBs : IsObject(lb[l]) /\ Known(l) => Known(l)'
        /\ AllocatePorts(m, {ltodo[m]}) /\ IsObject(lb[m]) => Known(m)'
    BY <2>1, AllocateGrows, Zenon
  <2>4. \A l \in LBs : l = lcur => (Known(l)' <=> Known(lcur)')
    BY <2>1, Zenon DEF Known
  <2>5. lcur \in DOMAIN ltodo \/ Known(lcur)
    BY <2>1, <2>2, Zenon DEF WorkerKnows
  <2>6. CASE AllocatePorts(m, {ltodo[m]}) /\ ltodo' = [n \in DOMAIN ltodo \ {m} |-> ltodo[n]]
             /\ lpc' = IF DOMAIN ltodo = {m} THEN "service" ELSE "alloc"
    <3>1. lcur = m => Known(lcur)'
      BY <2>2, <2>3, <2>4, <2>6, Zenon
    <3>2. Known(lcur) => Known(lcur)'
      BY <2>2, <2>3, <2>4
    <3> QED BY <2>1, <2>5, <2>6, <3>1, <3>2, Zenon
  <2>7. CASE UNCHANGED <<ltodo, lpc>>
    <3>1. Known(lcur) => Known(lcur)'
      BY <2>2, <2>3, <2>4
    <3> QED BY <2>1, <2>5, <2>7, <3>1, Zenon
  <2> QED BY <1>3, <2>6, <2>7 DEF LBAllocate
<1>4. ASSUME NEW m \in LBs, LBBegin(m)
      PROVE  lpc' = "alloc" /\ lcur' \in DOMAIN ltodo'
  BY <1>4 DEF LBBegin, Live
<1>5. ASSUME NEW m \in LBs, LBCleanup(m)
      PROVE  lpc' = "unfinal"
  BY <1>5 DEF LBCleanup
<1>6. CASE reconcileService
  <2>1. /\ lpc' = "status" /\ lcur' = lcur /\ lpc = "service"
        /\ lb' = lb /\ portLookup' = portLookup
    BY <1>6 DEF reconcileService, LBRetry, LBIdle, allocVars
  <2>2. /\ lcur \in LBs /\ IsObject(lb[lcur]) /\ Known(lcur)
        /\ TargetPort(lcur, lobj.spec) = Port(lcur)
    BY <1>1, <2>1 DEF WorkerKnows, Port
  <2>3. Known(lcur)' = Known(lcur) /\ Port(lcur)' = Port(lcur)
    BY <2>1 DEF Known, Port, TargetPort, Lookup, Entry
  <2>4. CASE cSvc[lcur] = Port(lcur)
    <3>1. svc' = svc
      BY <1>6, <2>2, <2>4, Zenon DEF reconcileService
    <3>2. svc[lcur] \in {Port(lcur), Absent}
      BY <2>2, <2>4 DEF ServicesFollow, ServiceFollows
    <3> QED BY <2>1, <2>2, <2>3, <3>1, <3>2, Zenon
  <2>5. CASE cSvc[lcur] # Port(lcur)
    <3>1. svc' = [svc EXCEPT ![lcur] = Port(lcur)]
      BY <1>6, <2>1, <2>2, <2>5, Zenon DEF reconcileService, LBRetry, LBIdle
    <3>2. svc'[lcur] = Port(lcur)
      BY <2>2, <3>1 DEF Types, ApiTypes
    <3> QED BY <2>1, <2>2, <2>3, <3>2
  <2> QED BY <2>4, <2>5
<1>7. CASE LBRemoveFinalizer \/ updateLoadBalancerStatus \/ Restart
  BY <1>7 DEF LBRemoveFinalizer, updateLoadBalancerStatus, Restart, LBDone, LBRetry, LBIdle
<1>8. CASE UNCHANGED vars
  BY <1>2, <1>8 DEF vars, lbSide, lbWorker
<1> QED
  BY <1>2, <1>3, <1>4, <1>5, <1>6, <1>7, <1>8, Steps, Zenon
     DEF CreateLB, UpdateLB, DeleteLB, ToggleDisable, OtherEnvoyEvent, SyncLB, SyncService,
         ServiceStatusChanged, SyncEnvoyLB, LBSkip, EnvoyClear, EnvoyBegin, EnvoyAllocate,
         EnvoyMap, lbSide, lbWorker

\* Nothing exists at first.
LEMMA PortInitially == Init => PortInv
<1> SUFFICES ASSUME Init PROVE PortInv
  OBVIOUS
<1>1. Types
  BY Zenon DEF Init, AllocInit, Types, Tables, ApiTypes, Maybe, LBWorkerTypes, EnvoyTypes, Switches,
         EmptyMap
<1>2. Counts
  BY DEF Init, Counts
<1>3. SpecsFollow
  BY DEF Init, SpecsFollow, WasOnce, IsObject, EmptyMap
<1>4. Unborn
  BY DEF Init, AllocInit, Unborn
<1>5. ServicesFollow
  BY DEF Init, ServicesFollow, IsObject
<1>6. WorkerKnows
  BY DEF Init, WorkerKnows
<1> QED BY <1>1, <1>2, <1>3, <1>4, <1>5, <1>6 DEF PortInv

\* The port invariant is inductive.
LEMMA PortInvStep ==
  ASSUME MaxUpdates = 0, PortInv, [Next]_vars
  PROVE  PortInv'
BY TypesStep, CountsStep, SpecsFollowStep, UnbornStep, ServicesFollowStep, WorkerKnowsStep
   DEF PortInv

\* While specs do not change (no UpdateLB), a target port that updateLoadBalancerStatus
\* has recorded is never replaced by another one: not by reconcileService with a stale
\* cache, not by a restart, whose LoadState restores it, not when disabling load
\* balancing releases and redraws it.
THEOREM RecordedPortsAreStable ==
  ASSUME MaxUpdates = 0
  PROVE  Spec => RecordedPortStable
<1>1. PortInv /\ [Next]_vars => PortInv'
  BY PortInvStep
<1>2. PortInv /\ [Next]_vars => [RecordedKept]_vars
  <2> SUFFICES ASSUME PortInv, [Next]_vars, NEW l \in LBs, IsObject(lb[l]),
                      lb[l].status = [up |-> lb[l].spec, target |-> svc[l]]
               PROVE  svc'[l] \in {svc[l], Absent}
    BY DEF RecordedKept
  <2>1. lb[l].spec \in PortKeys /\ svc[l] \in TargetPorts \cup {Absent}
    BY DEF PortInv, Types, ApiTypes, Maybe, IsObject, Objects
  <2>2. lb[l].status # NoStatus
    BY <2>1, MarkersAssumption
  <2>3. svc[l] = Port(l)
    <3>1. lb[l].status.target = svc[l]
      OBVIOUS
    <3> QED BY <2>2, <3>1, Zenon DEF PortInv, ServicesFollow, ServiceFollows
  <2> QED BY <2>3, ServicesWritten DEF PortInv
<1> QED BY <1>1, <1>2, PortInitially, PTL DEF Spec, RecordedPortStable

-----------------------------------------------------------------------------
(* The published ports, as long as load balancing stays enabled and the    *)
(* process restarts at most once.                                          *)

\* Before the first restart, all that was written came from the table.
FreshRun ==
  restarts = 0 =>
    \A l \in LBs : Live(lb[l]) =>
      /\ svc[l] # Absent => Known(l) /\ svc[l] = Port(l)
      /\ cSvc[l] # Absent => Known(l) /\ cSvc[l] = Port(l)
      /\ lb[l].status # NoStatus => Known(l) /\ lb[l].status.target = Port(l)

DistinctPorts ==
  \A l, m \in LBs :
    l # m /\ Live(lb[l]) /\ Live(lb[m]) /\ Known(l) /\ Known(m) => Port(l) # Port(m)

\* A mapped listener has the port of the table, and the Envoy reconciler maps an
\* object after it has allocated its port.
Mapped(f) ==
  \A l \in DOMAIN f : lb[l] # Absent /\ (Live(lb[l]) => Known(l) /\ f[l].port = Port(l))

EnvoyKnows ==
  /\ epc = "alloc" => \A l \in DOMAIN elist \ etodo : Live(lb[l]) => Known(l)
  /\ epc = "map" => \A l \in DOMAIN elist : Live(lb[l]) => Known(l)

ListenInv ==
  /\ PortInv /\ TableExact /\ ~disabled /\ restarts \in {0, 1}
  /\ FreshRun /\ DistinctPorts /\ Mapped(emap) /\ Mapped(snapshot) /\ EnvoyKnows

\* Without toggles, only objects being deleted are cleaned up.
LEMMA LivePorts ==
  ASSUME MaxUpdates = 0, PortInv, ~disabled, [Next]_vars, ~Restart,
         NEW l \in LBs, Live(lb'[l])
  PROVE  \/ lb[l] = Absent /\ ~Known(l)'
         \/ /\ Live(lb[l])
            /\ Known(l) => Known(l)' /\ Port(l)' = Port(l)
<1> USE DEF PortInv
<1>1. \/ lb[l] = Absent
      \/ Live(lb[l]) /\ IsObject(lb[l]) /\ lb'[l].spec = lb[l].spec
  BY ObjectsAge DEF AgedTo, Live
<1>2. CASE lb[l] = Absent
  <2>1. UNCHANGED portLookup
    BY <1>2, TableChanges, Zenon DEF LBCleanup, Live, IsObject
  <2> QED BY <1>2, <2>1 DEF Known, Entry, EmptyMap, Unborn
<1>3. CASE lb[l] # Absent
  <2>1. CASE UNCHANGED portLookup
    BY <1>1, <1>3, <2>1, PortKept
  <2>2. ASSUME NEW m \in LBs, LBCleanup(m)
        PROVE  Known(l)' = Known(l) /\ Port(l)' = Port(l)
    <3>1. /\ lb' = lb /\ portLookup' = [x \in DOMAIN portLookup \ {m} |-> portLookup[x]]
          /\ IsObject(cLB[m]) /\ cLB[m].deleting
      BY <2>2, Zenon DEF LBCleanup, DeallocateEndpoints
    <3>2. l # m
      BY <3>1, <1>1, <1>3, Zenon DEF SpecsFollow, WasOnce
    <3>3. /\ Entry(portLookup', l) = Entry(portLookup, l)
          /\ l \in DOMAIN portLookup => portLookup'[l] = portLookup[l]
      BY <3>1, <3>2, Zenon DEF Entry
    <3> QED BY <3>1, <3>3, Zenon DEF Known, Port, TargetPort, Lookup, Entry, EmptyMap
  <2>3. ASSUME NEW m \in LBs, NEW k \in PortKeys, SpecOf(lb[m], k), UNCHANGED <<lb, svc, cSvc>>,
               AllocatePorts(m, {k}) \/ AllocatePortsSpins(m, {k})
        PROVE  Known(l) => Known(l)' /\ Port(l)' = Port(l)
    BY <1>1, <1>3, <2>3, AllocateGrows, Zenon
  <2> QED BY <1>1, <1>3, <2>1, <2>2, <2>3, TableChanges, Zenon
<1> QED BY <1>2, <1>3, Zenon

\* A port that is new in the table was free, and only one is new in a step.
LEMMA NewPort ==
  ASSUME MaxUpdates = 0, PortInv, ~disabled, [Next]_vars, ~Restart,
         NEW l \in LBs, Live(lb'[l]), ~(Live(lb[l]) /\ Known(l)), Known(l)'
  PROVE  /\ Port(l)' \in Ports \ portLookupReverse
         /\ \A m \in LBs : m # l /\ Live(lb'[m]) /\ Known(m)' => Live(lb[m]) /\ Known(m)
<1> USE DEF PortInv
<1>1. Live(lb[l]) /\ ~Known(l) /\ IsObject(lb[l]) /\ IsObject(lb'[l]) /\ lb[l] # Absent
  BY LivePorts DEF Live, IsObject
<1>2. lb'[l].spec = lb[l].spec
  BY <1>1, ObjectsAge, Zenon DEF AgedTo
<1>3. ~UNCHANGED portLookup
  BY <1>1, <1>2, PortKept
<1>4. \A m \in LBs : ~LBCleanup(m)
  <2> SUFFICES ASSUME NEW m \in LBs, LBCleanup(m) PROVE FALSE
    BY Zenon
  <2>1. /\ lb' = lb /\ portLookup' = [x \in DOMAIN portLookup \ {m} |-> portLookup[x]]
    BY DEF LBCleanup, DeallocateEndpoints
  <2> QED BY <1>1, <2>1, Zenon DEF Known, Entry, EmptyMap
<1>5. PICK n \in LBs, k \in PortKeys :
        SpecOf(lb[n], k) /\ UNCHANGED lb /\ (AllocatePorts(n, {k}) \/ AllocatePortsSpins(n, {k}))
  BY <1>3, <1>4, TableChanges, Zenon
<1>6. \A m \in LBs : IsObject(lb[m]) /\ ~Known(m) /\ Known(m)' =>
        m = n /\ Port(m)' \in Ports \ portLookupReverse
  BY <1>5, AllocateGrows, Zenon
<1> QED BY <1>1, <1>5, <1>6 DEF Live

\* A port of the table is in the reverse table.
LEMMA KnownIsTaken ==
  ASSUME TableExact, Types, NEW l \in LBs, Known(l)
  PROVE  Port(l) \in portLookupReverse
<1> DEFINE k == lb[l].spec
<1>1. l \in DOMAIN portLookup /\ k \in DOMAIN portLookup[l]
  BY DEF Known, Entry, EmptyMap
<1>2. portLookup[l][k] \in TargetPorts /\ Lookup(l, k) = portLookup[l][k]
  BY <1>1 DEF Types, Tables, Lookup, Entry
<1>3. Port(l) = portLookup[l][k]
  BY <1>2, NoPortAssumption DEF Port, TargetPort, TargetPorts
<1>4. portLookup[l][k] \in PortsOf(portLookup, l)
  BY <1>1 DEF PortsOf, Entry
<1> QED BY <1>1, <1>3, <1>4 DEF TableExact, ReverseExact, TakenPorts

\* A draw avoids the ports of the others, and LoadState restores distinct ports.
LEMMA DistinctPortsStep ==
  ASSUME MaxUpdates = 0, MaxRestarts \in {0, 1}, ListenInv, [Next]_vars
  PROVE  DistinctPorts'
<1> USE DEF ListenInv
<1>0. Types
  BY DEF PortInv
<1>1. CASE Restart
  <2> SUFFICES ASSUME NEW l \in LBs, NEW m \in LBs, l # m, Live(lb'[l]), Live(lb'[m]),
                      Known(l)', Known(m)'
               PROVE  Port(l)' # Port(m)'
    BY DEF DistinctPorts
  <2>1. restarts = 0 /\ lb' = lb
    BY <1>1 DEF Restart
  <2>2. ASSUME NEW n \in LBs, Live(lb'[n]), Known(n)'
        PROVE  Live(lb[n]) /\ Known(n) /\ Port(n)' = Port(n)
    BY <1>0, <1>1, <2>1, <2>2, LoadedPort, Zenon DEF FreshRun, Live
  <2> QED BY <2>2 DEF DistinctPorts
<1>2. CASE ~Restart
  <2> SUFFICES ASSUME NEW l \in LBs, NEW m \in LBs, l # m, Live(lb'[l]), Live(lb'[m]),
                      Known(l)', Known(m)'
               PROVE  Port(l)' # Port(m)'
    BY DEF DistinctPorts
  <2>1. ASSUME NEW n \in LBs, Live(lb'[n]), Live(lb[n]), Known(n)
        PROVE  Port(n)' = Port(n) /\ Port(n) \in portLookupReverse
    BY <1>0, <1>2, <2>1, LivePorts, KnownIsTaken, Zenon DEF Live, IsObject
  <2>2. CASE Live(lb[l]) /\ Known(l) /\ Live(lb[m]) /\ Known(m)
    BY <2>1, <2>2, Zenon DEF DistinctPorts
  <2>3. CASE ~(Live(lb[l]) /\ Known(l))
    BY <1>2, <2>1, <2>3, NewPort, Zenon
  <2>4. CASE ~(Live(lb[m]) /\ Known(m))
    BY <1>2, <2>1, <2>4, NewPort, Zenon
  <2> QED BY <2>2, <2>3, <2>4
<1> QED BY <1>1, <1>2

\* After a restart the process is no longer in its first run.
LEMMA RestartCounts ==
  ASSUME restarts \in Nat, Restart
  PROVE  restarts' # 0
<1>1. restarts' = restarts + 1
  BY Zenon DEF Restart
<1> QED BY <1>1

\* In the first run of the process the workers write only ports of the table.
LEMMA FreshRunStep ==
  ASSUME MaxUpdates = 0, ListenInv, [Next]_vars
  PROVE  FreshRun'
<1>0. restarts \in Nat
  BY DEF ListenInv, PortInv, Counts
<1> USE DEF ListenInv
<1> SUFFICES ASSUME restarts' = 0, NEW l \in LBs, Live(lb'[l])
             PROVE  /\ svc'[l] # Absent => Known(l)' /\ svc'[l] = Port(l)'
                    /\ cSvc'[l] # Absent => Known(l)' /\ cSvc'[l] = Port(l)'
                    /\ lb'[l].status # NoStatus => Known(l)' /\ lb'[l].status.target = Port(l)'
  BY Zenon DEF FreshRun
<1>1. ~Restart /\ restarts = 0
  <2>1. ~Restart
    BY <1>0, RestartCounts, Zenon
  <2>2. restarts' = restarts
    BY <2>1, Steps, Zenon
       DEF CreateLB, UpdateLB, DeleteLB, ToggleDisable, OtherEnvoyEvent, SyncLB, SyncService,
           ServiceStatusChanged, SyncEnvoyLB, LBSkip, LBCleanup, LBBegin, LBAllocate,
           LBRemoveFinalizer, reconcileService, updateLoadBalancerStatus, EnvoyClear,
           EnvoyBegin, EnvoyAllocate, EnvoyMap, bounds, vars
  <2> QED BY <2>1, <2>2
<1>2. CASE lb[l] = Absent
  <2>1. svc'[l] = Absent /\ cSvc'[l] = Absent
    BY <1>2, ServicesWritten, ServicesRead, Zenon DEF PortInv, Unborn
  <2>2. lb'[l].status = NoStatus
    <3>1. ~updateLoadBalancerStatus
      BY <1>2 DEF updateLoadBalancerStatus, PortInv, Types, ApiTypes, IsObject, Live
    <3> QED BY <1>2, <3>1, StatusKept DEF PortInv, Live
  <2> QED BY <2>1, <2>2, Zenon
<1>3. CASE lb[l] # Absent
  <2>1. Live(lb[l]) /\ (Known(l) => Known(l)' /\ Port(l)' = Port(l))
    BY <1>1, <1>3, LivePorts
  <2>2. /\ svc[l] # Absent => Known(l) /\ svc[l] = Port(l)
        /\ cSvc[l] # Absent => Known(l) /\ cSvc[l] = Port(l)
        /\ lb[l].status # NoStatus => Known(l) /\ lb[l].status.target = Port(l)
    BY <1>1, <2>1, Zenon DEF FreshRun
  <2>3. svc'[l] # Absent => Known(l)' /\ svc'[l] = Port(l)'
    <3>1. CASE svc'[l] \in {svc[l], Absent}
      BY <2>1, <2>2, <3>1
    <3>2. CASE reconcileService /\ l = lcur /\ (IsObject(lb[l]) => svc'[l] = Port(l))
      <4>1. Known(l)
        BY <2>1, <3>2, Zenon DEF PortInv, WorkerKnows, reconcileService, Live
      <4> QED BY <2>1, <3>2, <4>1 DEF Live
    <3> QED BY <3>1, <3>2, ServicesWritten, Zenon DEF PortInv
  <2>4. cSvc'[l] # Absent => Known(l)' /\ cSvc'[l] = Port(l)'
    BY <2>1, <2>2, ServicesRead, Zenon DEF PortInv
  <2>5. lb'[l].status # NoStatus => Known(l)' /\ lb'[l].status.target = Port(l)'
    <3>1. CASE ~updateLoadBalancerStatus
      BY <2>1, <2>2, <3>1, StatusKept, Zenon DEF PortInv, Live
    <3>2. CASE updateLoadBalancerStatus
      <4>1. CASE lb'[l] = lb[l]
        BY <2>1, <2>2, <4>1
      <4>2. CASE lb'[l] # lb[l]
        <5>1. /\ IsObject(cSvc[l]) /\ lb[l] \in Objects
              /\ lb' = [lb EXCEPT ![l] = [@ EXCEPT !.status =
                                           [up |-> lobj.spec, target |-> cSvc[l]]]]
          BY <2>1, <3>2, <4>2
             DEF updateLoadBalancerStatus, PortInv, Types, ApiTypes, Maybe, IsObject, Live
        <5>2. lb'[l].status.target = cSvc[l] /\ cSvc[l] # Absent
          BY <5>1 DEF PortInv, Types, ApiTypes, Objects, IsObject
        <5> QED BY <2>1, <2>2, <5>2, Zenon
      <4> QED BY <4>1, <4>2, Zenon
    <3> QED BY <3>1, <3>2
  <2> QED BY <2>3, <2>4, <2>5, Zenon
<1> QED BY <1>2, <1>3, Zenon

\* An object whose port is known while it is live remains so.
LEMMA KnownKept ==
  ASSUME MaxUpdates = 0, PortInv, ~disabled, [Next]_vars, ~Restart,
         NEW l \in LBs, lb[l] # Absent, Live(lb[l]) => Known(l)
  PROVE  lb'[l] # Absent /\ (Live(lb'[l]) => Live(lb[l]) /\ Known(l)' /\ Port(l)' = Port(l))
<1>1. lb'[l] # Absent
  BY ObjectsAge DEF AgedTo, PortInv
<1> QED BY <1>1, LivePorts

\* MapSnapshot looks up ports that are in the table.
LEMMA MappedStep ==
  ASSUME MaxUpdates = 0, ListenInv, [Next]_vars
  PROVE  Mapped(emap)' /\ Mapped(snapshot)'
<1> USE DEF ListenInv
<1>1. CASE Restart
  BY <1>1, Zenon DEF Restart, EnvoyDone, EmptyMap, Mapped
<1>2. CASE ~Restart
  <2>1. ASSUME NEW l \in LBs, lb[l] # Absent, Live(lb[l]) => Known(l)
        PROVE  lb'[l] # Absent /\ (Live(lb'[l]) => Live(lb[l]) /\ Known(l)' /\ Port(l)' = Port(l))
    BY <1>2, <2>1, KnownKept, Zenon
  <2>2. DOMAIN emap \subseteq LBs /\ DOMAIN snapshot \subseteq LBs /\ DOMAIN elist \subseteq LBs
    BY DEF PortInv, Types, EnvoyTypes
  <2>3. ASSUME NEW l \in DOMAIN emap
        PROVE  lb'[l] # Absent /\ (Live(lb'[l]) => Known(l)' /\ emap[l].port = Port(l)')
    BY <2>1, <2>2, <2>3 DEF Mapped
  <2>4. ASSUME NEW l \in DOMAIN snapshot
        PROVE  lb'[l] # Absent /\ (Live(lb'[l]) => Known(l)' /\ snapshot[l].port = Port(l)')
    BY <2>1, <2>2, <2>4, Zenon DEF Mapped
  <2>5. emap' \in {emap, EmptyMap} => Mapped(emap)'
    BY <2>3 DEF Mapped, EmptyMap
  <2>6. snapshot' \in {snapshot, EmptyMap} => Mapped(snapshot)'
    BY <2>4 DEF Mapped, EmptyMap
  <2>7. ASSUME NEW l \in LBs, EnvoyMap(l)
        PROVE  Mapped(emap)' /\ Mapped(snapshot)'
    <3> DEFINE mapped == [m \in DOMAIN emap \cup {l} |->
                            IF m = l THEN [up |-> elist[l], port |-> TargetPort(l, elist[l])]
                            ELSE emap[m]]
    <3>1. l \in DOMAIN elist /\ epc = "map" /\ SpecOf(lb[l], elist[l])
      BY <2>7 DEF EnvoyMap, PortInv, Types, EnvoyTypes, SpecsFollow
    <3>2. lb[l] # Absent /\ (Live(lb[l]) => Known(l) /\ TargetPort(l, elist[l]) = Port(l))
      BY <3>1, Zenon DEF SpecOf, EnvoyKnows, Port, Live
    <3>3. lb'[l] # Absent /\ (Live(lb'[l]) => Known(l)' /\ mapped[l].port = Port(l)')
      BY <2>1, <3>2, Zenon
    <3>4. \A m \in DOMAIN mapped :
            lb'[m] # Absent /\ (Live(lb'[m]) => Known(m)' /\ mapped[m].port = Port(m)')
      <4> TAKE m \in DOMAIN mapped
      <4>1. CASE m = l
        BY <3>3, <4>1, Zenon
      <4>2. CASE m # l
        <5>1. m \in DOMAIN emap /\ mapped[m] = emap[m]
          BY <4>2, Zenon
        <5> QED BY <2>3, <5>1, Zenon
      <4> QED BY <4>1, <4>2, ZenonT(30)
    <3>5. \/ snapshot' = mapped /\ emap' = EmptyMap
          \/ emap' = mapped /\ snapshot' = snapshot
      BY <2>7 DEF EnvoyMap, EnvoyDone
    <3> HIDE DEF mapped
    <3> QED BY <2>5, <2>6, <3>4, <3>5, Zenon DEF Mapped
  <2>8. CASE emap' \in {emap, EmptyMap} /\ snapshot' \in {snapshot, EmptyMap}
    BY <2>5, <2>6, <2>8
  <2> QED
    BY <1>2, <2>7, <2>8, Steps, Zenon
       DEF CreateLB, UpdateLB, DeleteLB, ToggleDisable, OtherEnvoyEvent, SyncLB, SyncService,
           ServiceStatusChanged, SyncEnvoyLB, LBSkip, LBCleanup, LBBegin, LBAllocate,
           LBRemoveFinalizer, reconcileService, updateLoadBalancerStatus, EnvoyClear,
           EnvoyBegin, EnvoyAllocate, envoySide, envoyWorker, vars
<1> QED BY <1>1, <1>2

\* The Envoy reconciler allocates a port for all it has listed before it maps.
LEMMA EnvoyKnowsStep ==
  ASSUME MaxUpdates = 0, ListenInv, [Next]_vars
  PROVE  EnvoyKnows'
<1> USE DEF ListenInv
<1>1. CASE Restart
  BY <1>1, Zenon DEF Restart, EnvoyDone, EnvoyKnows
<1>2. CASE EnvoyBegin
  BY <1>2, Zenon DEF EnvoyBegin, EnvoyKnows
<1>3. CASE ~Restart /\ ~EnvoyBegin
  <2>1. ASSUME NEW l \in DOMAIN elist, Live(lb[l]) => Known(l)
        PROVE  l \in LBs /\ (Live(lb'[l]) => Known(l)')
    <3>1. l \in LBs /\ lb[l] # Absent
      BY Zenon DEF PortInv, Types, EnvoyTypes, SpecsFollow, SpecOf
    <3> QED BY <1>3, <2>1, <3>1, KnownKept
  <2>2. CASE UNCHANGED <<epc, elist, etodo>>
    BY <2>1, <2>2 DEF EnvoyKnows
  <2>3. ASSUME NEW l \in LBs, EnvoyAllocate(l)
        PROVE  EnvoyKnows'
    <3>1. /\ epc = "alloc" /\ l \in etodo /\ l \in DOMAIN elist /\ elist' = elist /\ lb' = lb
          /\ elist[l] \in PortKeys /\ SpecOf(lb[l], elist[l])
      BY <2>3, Zenon DEF EnvoyAllocate, PortInv, Types, EnvoyTypes, SpecsFollow, lbSide
    <3>2. CASE /\ AllocatePorts(l, {elist[l]})
               /\ IF etodo = {l} THEN epc' = "map" /\ etodo' = DOMAIN elist
                  ELSE UNCHANGED epc /\ etodo' = etodo \ {l}
      <4>1. Live(lb'[l]) => Known(l)'
        BY <3>1, <3>2, AllocateGrows, Zenon DEF PortInv, Live
      <4>2. \A m \in (DOMAIN elist \ etodo) \cup {l} : Live(lb'[m]) => Known(m)'
        BY <2>1, <3>1, <4>1, Zenon DEF EnvoyKnows
      <4> QED BY <3>1, <3>2, <4>2, Zenon DEF EnvoyKnows
    <3>3. CASE UNCHANGED <<etodo, epc>>
      BY <2>2, <3>1, <3>3
    <3> QED BY <2>3, <3>2, <3>3 DEF EnvoyAllocate
  <2>4. ASSUME NEW l \in LBs, EnvoyMap(l)
        PROVE  EnvoyKnows'
    <3>1. CASE epc' = "idle"
      BY <3>1, Zenon DEF EnvoyKnows
    <3>2. CASE UNCHANGED <<epc, elist>> /\ epc = "map"
      BY <2>1, <3>2, Zenon DEF EnvoyKnows
    <3> QED BY <2>4, <3>1, <3>2 DEF EnvoyMap, EnvoyDone
  <2> QED
    BY <1>3, <2>2, <2>3, <2>4, Steps, ZenonT(30)
       DEF CreateLB, UpdateLB, DeleteLB, ToggleDisable, OtherEnvoyEvent, SyncLB, SyncService,
           ServiceStatusChanged, SyncEnvoyLB, LBSkip, LBCleanup, LBBegin, LBAllocate,
           LBRemoveFinalizer, reconcileService, updateLoadBalancerStatus, EnvoyClear,
           envoySide, envoyWorker, vars
<1> QED BY <1>1, <1>2, <1>3

\* While specs do not change and load balancing stays enabled, two live LoadBalancers
\* are never published on one Envoy port: not when both reconcilers allocate, not with
\* stale lists, not when a deleted one's port is drawn again, and not across one
\* restart.  A second restart is excluded: a port drawn but not recorded before the
\* first one is drawn again by another LoadBalancer, a status update that reads the
\* Service from a stale cache may record it all the same, and the second LoadState
\* then gives one port to both.
THEOREM ListenersAreDistinct ==
  ASSUME MaxUpdates = 0, MaxToggles = 0, MaxRestarts \in {0, 1}
  PROVE  Spec => []DistinctListeners
<1>1. Init => ListenInv
  <2> SUFFICES ASSUME Init PROVE ListenInv
    OBVIOUS
  <2>1. PortInv
    BY PortInitially
  <2>2. TableExact
    BY DEF Init, AllocInit, TableExact, ReverseExact, SpinsOnlyWhenExhausted, TakenPorts
  <2>3. ~disabled /\ restarts \in {0, 1} /\ Mapped(emap) /\ Mapped(snapshot) /\ EnvoyKnows
    BY DEF Init, Mapped, EnvoyKnows, EmptyMap
  <2>4. FreshRun /\ DistinctPorts
    BY DEF Init, FreshRun, DistinctPorts, Live, IsObject
  <2> QED BY <2>1, <2>2, <2>3, <2>4 DEF ListenInv
<1>2. ListenInv /\ [Next]_vars => ListenInv'
  <2> SUFFICES ASSUME ListenInv, [Next]_vars PROVE ListenInv'
    OBVIOUS
  <2>1. PortInv' /\ TableExact'
    BY PortInvStep, TableExactStep DEF ListenInv
  <2>2. disabled' = disabled
    <3>1. ~ToggleDisable
      BY DEF ToggleDisable, ListenInv, PortInv, Counts
    <3> QED
      BY <3>1, Steps, Zenon
         DEF CreateLB, UpdateLB, DeleteLB, OtherEnvoyEvent, SyncLB, SyncService,
             ServiceStatusChanged, SyncEnvoyLB, LBSkip, LBCleanup, LBBegin, LBAllocate,
             LBRemoveFinalizer, reconcileService, updateLoadBalancerStatus, EnvoyClear,
             EnvoyBegin, EnvoyAllocate, EnvoyMap, Restart, lbSide, vars
  <2>3. restarts' \in {0, 1}
    <3>1. Restart => restarts = 0 /\ restarts' = 1
      BY DEF Restart, ListenInv
    <3>2. ~Restart => restarts' = restarts
      BY Steps, Zenon
         DEF CreateLB, UpdateLB, DeleteLB, ToggleDisable, OtherEnvoyEvent, SyncLB, SyncService,
             ServiceStatusChanged, SyncEnvoyLB, LBSkip, LBCleanup, LBBegin, LBAllocate,
             LBRemoveFinalizer, reconcileService, updateLoadBalancerStatus, EnvoyClear,
             EnvoyBegin, EnvoyAllocate, EnvoyMap, bounds, vars
    <3> QED BY <3>1, <3>2 DEF ListenInv
  <2>4. FreshRun' /\ DistinctPorts' /\ Mapped(emap)' /\ Mapped(snapshot)' /\ EnvoyKnows'
    BY FreshRunStep, DistinctPortsStep, MappedStep, EnvoyKnowsStep
  <2> QED BY <2>1, <2>2, <2>3, <2>4 DEF ListenInv
<1>3. ListenInv => DistinctListeners
  <2> SUFFICES ASSUME ListenInv, NEW l \in DOMAIN snapshot, NEW m \in DOMAIN snapshot, l # m,
                      Live(lb[l]), Live(lb[m])
               PROVE  snapshot[l].port # snapshot[m].port
    BY DEF DistinctListeners
  <2>1. l \in LBs /\ m \in LBs
    BY DEF ListenInv, PortInv, Types, EnvoyTypes
  <2> QED BY <2>1, ZenonT(30) DEF ListenInv, Mapped, DistinctPorts
<1> QED BY <1>1, <1>2, <1>3, PTL DEF Spec
==============================================================================
