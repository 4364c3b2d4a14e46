---------------------- MODULE LoadBalancerManager_proofs ----------------------
(***************************************************************************)
(* The shared reconciler state of the manager, for any number of           *)
(* LoadBalancers, ports and deletions: ownership of Services while load    *)
(* balancing is switched at most once; types and an exact reverse table.   *)
(***************************************************************************)
EXTENDS LoadBalancerManager, TLAPS

Maybe(S) == S \cup {Absent, Gone}

\* Every value of the lookup table can be a target port.
TableOK == \A e \in DOMAIN portLookup : \A k \in DOMAIN portLookup[e] :
             portLookup[e][k] \in TargetPorts

OwnType ==
  /\ TableOK
  /\ lb \in [LBs -> Maybe(Objects)] /\ cLB \in [LBs -> Maybe(Objects)]
  /\ svc \in [LBs -> TargetPorts \cup {Absent}] /\ cSvc \in [LBs -> TargetPorts \cup {Absent}]
  /\ lpc \in {"idle", "unfinal", "alloc", "service", "status"}
  /\ lpc # "idle" => lcur \in LBs /\ lobj \in Objects
  /\ disabled \in BOOLEAN /\ toggles \in Nat

Guarded(l) == IsObject(lb[l]) /\ lb[l].fin
Ended(o) == o # Absent /\ ~Live(o)

\* What keeps a Service owned.  A worker past its first step has stored the
\* finalizer; a cleanup past its first step has removed the Service and, unless
\* load balancing is disabled, works on an object the cache knows to be ending;
\* a cache never shows a deletion too early; and while load balancing has not
\* been disabled a finalizer in the cache is still there.
OwnInv ==
  /\ OwnType
  /\ NoOrphanService
  /\ disabled => toggles > 0
  /\ lpc \in {"alloc", "service", "status"} => Guarded(lcur)
  /\ lpc = "unfinal" => svc[lcur] = Absent /\ (disabled \/ Ended(cLB[lcur]))
  /\ \A l \in LBs : Ended(cLB[l]) => Ended(lb[l])
  /\ ~disabled => \A l \in LBs : Live(cLB[l]) /\ cLB[l].fin => Guarded(l)

-----------------------------------------------------------------------------
\* A successful Lookup, and the fallback, give a target port (CreateServicePorts).
LEMMA TargetPortType ==
  ASSUME TableOK, NEW l \in LBs, NEW k \in PortKeys
  PROVE  TargetPort(l, k) \in TargetPorts
BY DEF TableOK, TargetPort, Lookup, Entry, EmptyMap, TargetPorts

\* Objects are told apart from the markers of absence.
LEMMA ObjectIsObject == \A o \in Objects : IsObject(o)
BY MarkersAssumption DEF IsObject

\* Allocation keeps the table's values target ports.
LEMMA AllocateTable ==
  ASSUME TableOK, NEW l \in LBs, NEW k,
         AllocatePorts(l, {k}) \/ AllocatePortsSpins(l, {k})
  PROVE  TableOK'
<1>1. CASE AllocatePorts(l, {k})
  <2>1. PICK drawn \in [KeysToDraw(l, {k}) -> allocatePort] :
          SetEntry(l, [j \in {k} |-> IF j \in DOMAIN drawn THEN drawn[j]
                                     ELSE Entry(portLookup, l)[j]])
    BY <1>1 DEF AllocatePorts
  <2>2. \A j \in {k} : (IF j \in DOMAIN drawn THEN drawn[j]
                        ELSE Entry(portLookup, l)[j]) \in TargetPorts
    BY DEF KeysToDraw, allocatePort, TargetPorts, Entry, EmptyMap, TableOK
  <2> QED BY <2>1, <2>2 DEF SetEntry, TableOK
<1>2. CASE AllocatePortsSpins(l, {k})
  BY <1>2 DEF AllocatePortsSpins, SetEntry, Entry, EmptyMap, TableOK
<1> QED BY <1>1, <1>2

\* The initial state.
LEMMA OwnInit == Init => OwnInv
<1> SUFFICES ASSUME Init PROVE OwnInv OBVIOUS
<1>1. OwnType
  BY Zenon DEF Init, AllocInit, OwnType, TableOK, Maybe
<1>2. \A l \in LBs : ~IsObject(lb[l]) /\ ~IsObject(svc[l]) /\ lb[l] = Absent /\ cLB[l] = Absent
  BY DEF Init, IsObject
<1> QED BY <1>1, <1>2 DEF Init, OwnInv, NoOrphanService, Ended, Live
-----------------------------------------------------------------------------
\* What the writes make of an object.
LEMMA ObjectUpdates ==
  ASSUME NEW o \in Objects
  PROVE  /\ IsObject(o)
         /\ \A b \in BOOLEAN : /\ [o EXCEPT !.fin = b] \in Objects
                               /\ [o EXCEPT !.fin = b].fin = b
                               /\ [o EXCEPT !.fin = b].deleting = o.deleting
         /\ /\ [o EXCEPT !.deleting = TRUE] \in Objects
            /\ [o EXCEPT !.deleting = TRUE].fin = o.fin
            /\ [o EXCEPT !.deleting = TRUE].deleting
BY ObjectIsObject, Zenon DEF Objects

\* A tenant's change of the spec (UpdateLB) leaves the rest of the object alone.
LEMMA SpecWrite ==
  ASSUME NEW o \in Objects, NEW k \in PortKeys
  PROVE  /\ [o EXCEPT !.spec = k] \in Objects
         /\ [o EXCEPT !.spec = k].fin = o.fin
         /\ [o EXCEPT !.spec = k].deleting = o.deleting
BY DEF Objects

\* So does the status patch of updateLoadBalancerStatus.
LEMMA StatusWrite ==
  ASSUME NEW o \in Objects, NEW st \in Statuses
  PROVE  /\ [o EXCEPT !.status = st] \in Objects
         /\ [o EXCEPT !.status = st].fin = o.fin
         /\ [o EXCEPT !.status = st].deleting = o.deleting
BY DEF Objects

\* The part of the invariant that a step of one LoadBalancer's object must keep:
\* a change that keeps the finalizer and does not revive the object.
LEMMA GentleWrite ==
  ASSUME OwnInv, NEW l \in LBs, NEW o \in Objects,
         lb' = [lb EXCEPT ![l] = o],
         IsObject(lb[l]), lb[l].fin => o.fin, lb[l].deleting => o.deleting,
         UNCHANGED <<portLookup, svc, disabled, cLB, cSvc, toggles>>,
         OwnType',
         lpc' \in {"alloc", "service", "status"} => lb'[lcur'].fin /\ IsObject(lb'[lcur']),
         lpc' = "unfinal" => svc[lcur'] = Absent /\ (disabled \/ Ended(cLB[lcur']))
  PROVE  OwnInv'
<1> USE DEF OwnInv, OwnType
<1>1. \A m \in LBs : lb'[m] = IF m = l THEN o ELSE lb[m]
  OBVIOUS
<1>2. IsObject(o)
  BY ObjectIsObject
<1>3. \A m \in LBs : Guarded(m) => Guarded(m)'
  BY <1>1, <1>2 DEF Guarded
<1>4. \A m \in LBs : Ended(lb[m]) => Ended(lb[m])'
  BY <1>1, <1>2 DEF Ended, Live, IsObject
<1>5. NoOrphanService'
  BY <1>3 DEF NoOrphanService, Guarded
<1> QED BY <1>3, <1>4, <1>5 DEF Guarded, Ended, Live
\* A step that changes nothing the invariant speaks of but the worker's place
\* and the table.
LEMMA QuietStep ==
  ASSUME OwnInv, TableOK', UNCHANGED <<lb, svc, disabled, cLB, toggles>>,
         cSvc' \in [LBs -> TargetPorts \cup {Absent}],
         \/ UNCHANGED <<lpc, lcur, lobj>>
         \/ lpc' = "idle"
         \/ /\ lpc \in {"alloc", "service"} /\ lpc' \in {"alloc", "service", "status"}
            /\ UNCHANGED <<lcur, lobj>>
  PROVE  OwnInv'
BY DEF OwnInv, OwnType, NoOrphanService, Guarded, Ended, Live

\* CreateLB: a new object has no Service and the cache has not seen it.
LEMMA CreateInv ==
  ASSUME OwnInv, NEW l \in LBs, NEW k \in PortKeys, CreateLB(l, k)
  PROVE  OwnInv'
<1> DEFINE o == [spec |-> k, fin |-> FALSE, deleting |-> FALSE, status |-> NoStatus]
<1>1. o \in Objects /\ IsObject(o) /\ ~o.deleting
  BY ObjectIsObject, Zenon DEF Objects, Statuses
<1>2. /\ lb[l] = Absent /\ lb' = [lb EXCEPT ![l] = o]
      /\ UNCHANGED <<portLookup, svc, disabled, cLB, cSvc, lpc, lcur, lobj, toggles>>
  BY DEF CreateLB, allocVars, lbWorker, bounds
<1> HIDE DEF o
<1>3. \A m \in LBs : lb'[m] = IF m = l THEN o ELSE lb[m]
  BY <1>2 DEF OwnInv, OwnType
<1>4. OwnType'
  BY <1>1, <1>2 DEF OwnInv, OwnType, TableOK, Maybe
<1>5. ~IsObject(lb[l]) /\ ~Guarded(l) /\ ~Ended(lb[l])
  BY <1>2 DEF IsObject, Guarded, Ended
<1>6. \A m \in LBs : Guarded(m) => Guarded(m)'
  BY <1>3, <1>5 DEF Guarded
<1>7. \A m \in LBs : Ended(lb[m]) => Ended(lb[m])'
  BY <1>3, <1>5 DEF Ended, Live
<1>8. NoOrphanService'
  BY <1>2, <1>6 DEF OwnInv, NoOrphanService, Guarded
<1> QED BY <1>2, <1>4, <1>6, <1>7, <1>8 DEF OwnInv, OwnType, Ended, Live

\* UpdateLB changes the spec only.
LEMMA UpdateInv ==
  ASSUME OwnInv, NEW l \in LBs, NEW k \in PortKeys, UpdateLB(l, k)
  PROVE  OwnInv'
<1> DEFINE o == [lb[l] EXCEPT !.spec = k]
<1>1. lb[l] \in Objects /\ IsObject(lb[l])
  BY DEF UpdateLB, Live, IsObject, OwnInv, OwnType, Maybe
<1>2. o \in Objects /\ o.fin = lb[l].fin /\ o.deleting = lb[l].deleting
  BY <1>1, SpecWrite
<1>3. /\ lb' = [lb EXCEPT ![l] = o]
      /\ UNCHANGED <<portLookup, svc, disabled, cLB, cSvc, lpc, lcur, lobj, toggles>>
  BY DEF UpdateLB, allocVars, lbWorker
<1> HIDE DEF o
<1>4. OwnType'
  BY <1>2, <1>3 DEF OwnInv, OwnType, TableOK, Maybe
<1>5. lpc' \in {"alloc", "service", "status"} => lb'[lcur'].fin /\ IsObject(lb'[lcur'])
  BY <1>1, <1>2, <1>3, ObjectIsObject DEF OwnInv, OwnType, Guarded
<1> QED BY <1>1, <1>2, <1>3, <1>4, <1>5, GentleWrite, Zenon DEF OwnInv
\* DeleteLB: with the finalizer the object stays, marked; without it, it has no
\* Service and goes at once.
LEMMA DeleteInv ==
  ASSUME OwnInv, NEW l \in LBs, DeleteLB(l)
  PROVE  OwnInv'
<1>1. lb[l] \in Objects /\ IsObject(lb[l]) /\ Live(lb[l])
  BY DEF DeleteLB, Live, IsObject, OwnInv, OwnType, Maybe
<1>2. UNCHANGED <<portLookup, svc, disabled, cLB, cSvc, lpc, lcur, lobj, toggles>>
  BY DEF DeleteLB, allocVars, lbWorker, bounds
<1>3. CASE lb[l].fin
  <2> DEFINE o == [lb[l] EXCEPT !.deleting = TRUE]
  <2>1. o \in Objects /\ o.fin = lb[l].fin /\ o.deleting
    BY <1>1, ObjectUpdates
  <2>2. lb' = [lb EXCEPT ![l] = o]
    BY <1>3 DEF DeleteLB
  <2> HIDE DEF o
  <2>3. OwnType'
    BY <1>2, <2>1, <2>2 DEF OwnInv, OwnType, TableOK, Maybe
  <2>4. lpc' \in {"alloc", "service", "status"} => lb'[lcur'].fin /\ IsObject(lb'[lcur'])
    BY <1>1, <1>2, <2>1, <2>2, ObjectIsObject DEF OwnInv, OwnType, Guarded
  <2> QED BY <1>1, <1>2, <2>1, <2>2, <2>3, <2>4, GentleWrite, Zenon DEF OwnInv
<1>4. CASE ~lb[l].fin
  <2>1. lb' = [lb EXCEPT ![l] = Gone]
    BY <1>4 DEF DeleteLB
  <2>2. \A m \in LBs : lb'[m] = IF m = l THEN Gone ELSE lb[m]
    BY <2>1 DEF OwnInv, OwnType
  <2>3. OwnType'
    BY <1>2, <2>1 DEF OwnInv, OwnType, TableOK, Maybe
  <2>4. \A m \in LBs : Guarded(m) => Guarded(m)'
    BY <1>4, <2>2 DEF Guarded
  <2>5. Ended(Gone)
    BY MarkersAssumption DEF Ended, Live, IsObject
  <2>6. \A m \in LBs : Ended(lb[m]) => Ended(lb[m])'
    BY <2>2, <2>5 DEF Ended, Live
  <2>7. NoOrphanService'
    BY <1>2, <2>4 DEF OwnInv, NoOrphanService, Guarded
  <2> QED BY <1>2, <2>3, <2>4, <2>6, <2>7 DEF OwnInv, OwnType, Ended, Live
<1> QED BY <1>3, <1>4

\* ToggleDisable: with one switch at most, load balancing is never enabled again.
LEMMA ToggleInv ==
  ASSUME OwnInv, MaxToggles \in {0, 1}, ToggleDisable
  PROVE  OwnInv'
<1>1. toggles \in Nat /\ toggles < MaxToggles /\ (disabled => toggles > 0)
  BY DEF ToggleDisable, OwnInv, OwnType
<1>2. ~(toggles > 0) /\ toggles' = toggles + 1 /\ toggles' \in Nat /\ toggles' > 0
  BY <1>1 DEF ToggleDisable
<1>3. ~disabled /\ disabled' = ~disabled
  BY <1>1, <1>2, Zenon DEF ToggleDisable
<1>4. UNCHANGED <<portLookup, lb, svc, cLB, cSvc, lpc, lcur, lobj>>
  BY DEF ToggleDisable, allocVars, lbWorker
<1>5. disabled' /\ disabled' \in BOOLEAN
  BY <1>3, Zenon
<1>6. OwnType'
  BY <1>2, <1>4, <1>5 DEF OwnInv, OwnType, TableOK
<1> QED BY <1>2, <1>4, <1>5, <1>6 DEF OwnInv, NoOrphanService, Guarded, Ended, Live

\* SyncLB: the cache takes the stored object.
LEMMA SyncInv ==
  ASSUME OwnInv, NEW l \in LBs, SyncLB(l)
  PROVE  OwnInv'
<1>1. /\ UNCHANGED <<portLookup, lb, svc, disabled, cSvc, lpc, lcur, lobj, toggles>>
      /\ cLB' = [cLB EXCEPT ![l] = lb[l]]
  BY DEF SyncLB, allocVars, lbWorker, bounds
<1>2. \A m \in LBs : cLB'[m] = IF m = l THEN lb[m] ELSE cLB[m]
  BY <1>1 DEF OwnInv, OwnType
<1>3. OwnType'
  BY <1>1 DEF OwnInv, OwnType, TableOK
<1>4. \A m \in LBs : Ended(cLB[m]) => Ended(cLB'[m])
  BY <1>2 DEF OwnInv
<1>5. \A m \in LBs : Ended(cLB'[m]) => Ended(lb[m])
  BY <1>2 DEF OwnInv
<1>6. ~disabled => \A m \in LBs : Live(cLB'[m]) /\ cLB'[m].fin => Guarded(m)
  BY <1>2 DEF OwnInv, Guarded, Live
<1> QED BY <1>1, <1>3, <1>4, <1>5, <1>6 DEF OwnInv, OwnType, NoOrphanService, Guarded, Ended, Live

\* cleanup's first step removes the Service.
LEMMA CleanupInv ==
  ASSUME OwnInv, NEW l \in LBs, LBCleanup(l)
  PROVE  OwnInv'
<1>1. /\ svc' = [svc EXCEPT ![l] = Absent]
      /\ lpc' = "unfinal" /\ lcur' = l /\ lobj' = cLB[l]
      /\ UNCHANGED <<lb, disabled, cLB, cSvc, toggles>>
      /\ portLookup' = [x \in DOMAIN portLookup \ {l} |-> portLookup[x]]
      /\ IsObject(cLB[l]) /\ (cLB[l].deleting \/ disabled)
  BY DEF LBCleanup, DeallocateEndpoints, bounds
<1>2. cLB[l] \in Objects /\ cLB[l] # Absent
  BY <1>1 DEF OwnInv, OwnType, Maybe, IsObject
<1>3. \A m \in LBs : svc'[m] = IF m = l THEN Absent ELSE svc[m]
  BY <1>1 DEF OwnInv, OwnType
<1>4. OwnType'
  BY <1>1, <1>2 DEF OwnInv, OwnType, TableOK
<1>5. disabled \/ Ended(cLB[l])
  BY <1>1, <1>2 DEF Ended, Live
<1>6. NoOrphanService'
  BY <1>1, <1>3 DEF OwnInv, NoOrphanService, IsObject
<1> QED BY <1>1, <1>3, <1>4, <1>5, <1>6 DEF OwnInv, OwnType, Guarded, Ended, Live
\* cleanup's last step: the object without its finalizer has no Service, and no
\* cache that still shows the finalizer will be acted upon.
LEMMA RemoveFinalizerInv ==
  ASSUME OwnInv, LBRemoveFinalizer
  PROVE  OwnInv'
<1>1. /\ UNCHANGED <<portLookup, svc, disabled, cLB, cSvc, toggles>>
      /\ lpc = "unfinal" /\ lpc' = "idle" /\ lcur \in LBs /\ lobj \in Objects
  BY DEF LBRemoveFinalizer, LBDone, LBRetry, LBIdle, allocVars, bounds, OwnInv, OwnType
<1>2. CASE lb[lcur] # lobj
  <2>1. UNCHANGED lb
    BY <1>2 DEF LBRemoveFinalizer
  <2> QED BY <1>1, <2>1, QuietStep DEF OwnInv, OwnType, TableOK
<1>3. CASE lb[lcur] = lobj
  <2> DEFINE o == RemoveFinalizers(lobj)
  <2>1. lb' = [lb EXCEPT ![lcur] = o]
    BY <1>3 DEF LBRemoveFinalizer
  <2>2. o \in Maybe(Objects)
    BY <1>1, ObjectUpdates, Zenon DEF RemoveFinalizers, Maybe
  <2>3. Ended(lobj) => Ended(o)
    BY <1>1, ObjectIsObject, MarkersAssumption DEF RemoveFinalizers, Ended, Live, IsObject
  <2> HIDE DEF o
  <2>4. \A m \in LBs : lb'[m] = IF m = lcur THEN o ELSE lb[m]
    BY <2>1 DEF OwnInv, OwnType
  <2>5. OwnType'
    BY <1>1, <2>1, <2>2 DEF OwnInv, OwnType, TableOK
  <2>6. svc[lcur] = Absent /\ (disabled \/ Ended(cLB[lcur])) /\ ~IsObject(svc[lcur])
    BY <1>1 DEF OwnInv, IsObject
  <2>7. \A m \in LBs : m # lcur => (Guarded(m) => Guarded(m)')
    BY <2>4 DEF Guarded
  <2>8. NoOrphanService'
    BY <1>1, <2>6, <2>7 DEF OwnInv, NoOrphanService, Guarded
  <2>9. \A m \in LBs : Ended(lb[m]) => Ended(lb'[m])
    BY <1>3, <2>3, <2>4
  <2>10. ~disabled => ~Live(cLB[lcur])
    BY <2>6 DEF Ended
  <2>11. ~disabled => \A m \in LBs : Live(cLB[m]) /\ cLB[m].fin => Guarded(m)'
    BY <2>7, <2>10 DEF OwnInv
  <2> QED BY <1>1, <2>5, <2>8, <2>9, <2>11 DEF OwnInv, Guarded, Ended, Live
<1> QED BY <1>2, <1>3

\* The first step of a reconciliation stores the finalizer, or relies on the
\* cache for it.
LEMMA BeginInv ==
  ASSUME OwnInv, NEW l \in LBs, LBBegin(l)
  PROVE  OwnInv'
<1> DEFINE o == [cLB[l] EXCEPT !.fin = TRUE]
<1>1. /\ UNCHANGED <<portLookup, svc, disabled, cLB, cSvc, toggles>>
      /\ lpc' = "alloc" /\ lcur' = l /\ lobj' = o
      /\ Live(cLB[l]) /\ ~disabled
      /\ StoreFinalizer(l)
  BY DEF LBBegin, allocVars, bounds
<1>2. cLB[l] \in Objects
  BY <1>1 DEF OwnInv, OwnType, Maybe, Live, IsObject
<1>3. o \in Objects /\ o.fin /\ o.deleting = cLB[l].deleting /\ IsObject(o)
  BY <1>2, ObjectUpdates, ObjectIsObject, Zenon
<1>4. CASE cLB[l].fin
  <2>1. UNCHANGED lb /\ Guarded(l)
    BY <1>1, <1>4 DEF StoreFinalizer, OwnInv
  <2>2. OwnType'
    BY <1>1, <1>3, <2>1 DEF OwnInv, OwnType, TableOK
  <2> QED BY <1>1, <2>1, <2>2 DEF OwnInv, NoOrphanService, Guarded, Ended, Live
<1>5. CASE ~cLB[l].fin
  <2>1. lb' = [lb EXCEPT ![l] = o] /\ lb[l] = cLB[l]
    BY <1>1, <1>5, Zenon DEF StoreFinalizer
  <2> HIDE DEF o
  <2>2. OwnType'
    BY <1>1, <1>3, <2>1 DEF OwnInv, OwnType, TableOK, Maybe
  <2>3. lb'[l] = o
    BY <2>1 DEF OwnInv, OwnType
  <2>4. IsObject(lb[l])
    BY <1>1, <2>1 DEF Live
  <2> QED BY <1>1, <1>3, <2>1, <2>2, <2>3, <2>4, GentleWrite, Zenon
<1> QED BY <1>4, <1>5

\* reconcileService creates and updates Services of guarded objects only.
LEMMA ServiceInv ==
  ASSUME OwnInv, reconcileService
  PROVE  OwnInv'
<1> DEFINE desired == TargetPort(lcur, lobj.spec)
<1>1. /\ lpc = "service" /\ lcur \in LBs /\ lobj \in Objects
      /\ UNCHANGED <<portLookup, lb, disabled, cLB, cSvc, toggles>>
  BY DEF reconcileService, OwnInv, OwnType, allocVars, bounds
<1>2. desired \in TargetPorts
  BY <1>1, TargetPortType DEF Objects, OwnInv, OwnType
<1>3. \/ UNCHANGED svc /\ lpc' = "idle"
      \/ lpc' = "status" /\ UNCHANGED <<lcur, lobj>>
         /\ svc' \in {svc, [svc EXCEPT ![lcur] = desired]}
  BY DEF reconcileService, LBRetry, LBIdle
<1> HIDE DEF desired
<1>4. CASE UNCHANGED svc
  BY <1>1, <1>3, <1>4, QuietStep, Zenon DEF OwnInv, OwnType, TableOK
<1>5. CASE /\ lpc' = "status" /\ UNCHANGED <<lcur, lobj>>
           /\ svc' = [svc EXCEPT ![lcur] = desired]
  <2>1. \A m \in LBs : svc'[m] = IF m = lcur THEN desired ELSE svc[m]
    BY <1>5 DEF OwnInv, OwnType
  <2>2. OwnType'
    BY <1>1, <1>2, <1>5, SMTT(20) DEF OwnInv, OwnType, TableOK
  <2>3. NoOrphanService'
    BY <1>1, <2>1 DEF OwnInv, NoOrphanService, Guarded
  <2> QED BY <1>1, <1>5, <2>2, <2>3 DEF OwnInv, Guarded, Ended, Live
<1> QED BY <1>3, <1>4, <1>5
\* updateLoadBalancerStatus changes nothing but the status.
LEMMA StatusInv ==
  ASSUME OwnInv, updateLoadBalancerStatus
  PROVE  OwnInv'
<1> DEFINE updated == [up |-> lobj.spec, target |-> cSvc[lcur]]
           o == [lb[lcur] EXCEPT !.status = updated]
<1>1. /\ lcur \in LBs /\ lobj \in Objects /\ lpc' = "idle"
      /\ UNCHANGED <<portLookup, svc, disabled, cLB, cSvc, toggles>>
  BY DEF updateLoadBalancerStatus, LBDone, LBRetry, LBIdle, OwnInv, OwnType, allocVars, bounds
<1>2. CASE UNCHANGED lb
  BY <1>1, <1>2, QuietStep DEF OwnInv, OwnType, TableOK
<1>3. CASE lb' # lb
  <2>1. /\ IsObject(cSvc[lcur]) /\ IsObject(lb[lcur])
        /\ lb' = [lb EXCEPT ![lcur] = o]
    BY <1>3 DEF updateLoadBalancerStatus
  <2>2. lobj.spec \in PortKeys /\ cSvc[lcur] \in TargetPorts /\ lb[lcur] \in Objects
    BY <1>1, <2>1 DEF Objects, OwnInv, OwnType, Maybe, IsObject
  <2>3. updated \in Statuses
    BY <2>2 DEF Statuses
  <2> HIDE DEF updated
  <2>4. o \in Objects /\ o.fin = lb[lcur].fin /\ o.deleting = lb[lcur].deleting
    BY <2>2, <2>3, StatusWrite
  <2> HIDE DEF o
  <2>5. OwnType'
    BY <1>1, <2>1, <2>4 DEF OwnInv, OwnType, TableOK, Maybe
  <2> QED BY <1>1, <2>1, <2>4, <2>5, GentleWrite, Zenon
<1> QED BY <1>2, <1>3

\* A restart reads the truth into the caches and the statuses into the table.
LEMMA RestartInv ==
  ASSUME OwnInv, Restart
  PROVE  OwnInv'
<1>1. /\ portLookup' = LoadState /\ cLB' = lb /\ cSvc' = svc /\ lpc' = "idle"
      /\ UNCHANGED <<lb, svc, disabled, toggles>>
  BY DEF Restart, LBIdle
<1>2. \A l \in LBs : IsObject(lb[l]) => lb[l].status \in Statuses
  BY DEF OwnInv, OwnType, Maybe, IsObject, Objects
<1>3. \A e \in DOMAIN LoadState : \A k \in DOMAIN LoadState[e] : LoadState[e][k] \in TargetPorts
  <2> SUFFICES ASSUME NEW e \in DOMAIN LoadState, NEW k \in DOMAIN LoadState[e]
               PROVE  LoadState[e][k] \in TargetPorts
    OBVIOUS
  <2>1. e \in LBs /\ IsObject(lb[e])
    BY DEF LoadState
  <2>2. lb[e].status # NoStatus /\ LoadState[e][k] = lb[e].status.target
    BY <2>1 DEF LoadState, EmptyMap
  <2> QED BY <1>2, <2>1, <2>2 DEF Statuses
<1>4. TableOK'
  BY <1>1, <1>3 DEF TableOK
<1> QED BY <1>1, <1>4, SMTT(20) DEF OwnInv, OwnType, NoOrphanService, Guarded, Ended, Live

\* The steps of the Envoy reconciler, of the informers it and the Services have,
\* and of AllocatePortsForLoadBalancers touch no object of the API server.
LEMMA QuietActions ==
  ASSUME OwnInv,
         \/ \E l \in LBs : \/ SyncService(l) \/ ServiceStatusChanged(l) \/ SyncEnvoyLB(l)
                           \/ LBSkip(l) \/ LBAllocate(l) \/ EnvoyAllocate(l) \/ EnvoyMap(l)
         \/ OtherEnvoyEvent \/ EnvoyClear \/ EnvoyBegin
  PROVE  OwnInv'
<1> USE DEF OwnInv, OwnType
<1>1. ASSUME NEW l \in LBs, SyncService(l) \/ ServiceStatusChanged(l)
      PROVE  OwnInv'
  BY <1>1, QuietStep, Zenon DEF SyncService, ServiceStatusChanged, TableOK, allocVars, lbWorker, bounds
<1>2. ASSUME NEW l \in LBs, SyncEnvoyLB(l) \/ LBSkip(l) \/ EnvoyMap(l)
      PROVE  OwnInv'
  BY <1>2, QuietStep, Zenon
     DEF SyncEnvoyLB, LBSkip, EnvoyMap, TableOK, allocVars, lbSide, lbWorker, bounds
<1>3. ASSUME NEW l \in LBs, LBAllocate(l)
      PROVE  OwnInv'
  <2>1. TableOK'
    BY <1>3, AllocateTable, Zenon DEF LBAllocate
  <2>2. lpc = "alloc" /\ lpc' \in {"alloc", "service"}
    BY <1>3 DEF LBAllocate
  <2>3. UNCHANGED <<lb, svc, disabled, cLB, cSvc, lcur, lobj, toggles>>
    BY <1>3 DEF LBAllocate, bounds
  <2> QED BY <2>1, <2>2, <2>3, QuietStep
<1>4. ASSUME NEW l \in LBs, EnvoyAllocate(l)
      PROVE  OwnInv'
  <2>1. TableOK'
    BY <1>4, AllocateTable, Zenon DEF EnvoyAllocate
  <2> QED BY <1>4, <2>1, QuietStep, Zenon DEF EnvoyAllocate, lbSide, lbWorker, bounds
<1>5. ASSUME OtherEnvoyEvent \/ EnvoyClear \/ EnvoyBegin
      PROVE  OwnInv'
  BY <1>5, QuietStep, Zenon DEF OtherEnvoyEvent, EnvoyClear, EnvoyBegin, TableOK, allocVars, lbSide,
                         lbWorker, bounds
<1> QED BY <1>1, <1>2, <1>3, <1>4, <1>5, Zenon

-----------------------------------------------------------------------------
\* Every step keeps the invariant.
LEMMA OwnStep ==
  ASSUME MaxToggles \in {0, 1}, OwnInv, [Next]_vars
  PROVE  OwnInv'
<1>1. CASE UNCHANGED vars
  BY <1>1, QuietStep DEF OwnInv, OwnType, TableOK, vars, allocVars, lbSide, lbWorker, bounds
<1>2. CASE Environment
  BY <1>2, CreateInv, UpdateInv, DeleteInv, ToggleInv, RestartInv, QuietActions DEF Environment
<1>3. CASE Informers
  BY <1>3, SyncInv, QuietActions DEF Informers
<1>4. CASE \E l \in LBs : LBStart(l)
  BY <1>4, CleanupInv, BeginInv, QuietActions DEF LBStart
<1>5. CASE LBContinue
  BY <1>5, RemoveFinalizerInv, ServiceInv, StatusInv, QuietActions DEF LBContinue
<1>6. CASE EnvoyStep
  BY <1>6, QuietActions DEF EnvoyStep
<1> QED BY <1>1, <1>2, <1>3, <1>4, <1>5, <1>6, SMTT(20) DEF Next

\* reconcileService never leaves a Service behind whose LoadBalancer could go
\* away without cleanup, as long as L4 load balancing is disabled at most once
\* and not enabled again: a cleanup that was under way while it was disabled may
\* take the finalizer of a Service that is written after it is enabled again.
THEOREM ServicesAreOwned ==
  ASSUME MaxToggles \in {0, 1}
  PROVE  Spec => []NoOrphanService
<1>1. OwnInv => NoOrphanService
  BY DEF OwnInv
<1> QED BY <1>1, OwnInit, OwnStep, PTL DEF Spec

-----------------------------------------------------------------------------
(* Types.                                                                  *)

Tables ==
  /\ \A e \in DOMAIN portLookup :
       /\ e \in LBs
       /\ \A k \in DOMAIN portLookup[e] : k \in PortKeys /\ portLookup[e][k] \in TargetPorts
  /\ mu \in {"free", "spinning"}

ApiTypes ==
  /\ lb \in [LBs -> Maybe(Objects)] /\ cLB \in [LBs -> Maybe(Objects)]
  /\ eLB \in [LBs -> Maybe(Objects)]
  /\ svc \in [LBs -> TargetPorts \cup {Absent}] /\ cSvc \in [LBs -> TargetPorts \cup {Absent}]

LBWorkerTypes ==
  /\ lq \subseteq LBs
  /\ lpc \in {"idle", "unfinal", "alloc", "service", "status"}
  /\ lpc # "idle" => lcur \in LBs /\ lobj \in Objects
  /\ \A l \in DOMAIN ltodo : l \in LBs /\ ltodo[l] \in PortKeys

Listeners == [up : PortKeys, port : TargetPorts]

EnvoyTypes ==
  /\ epc \in {"idle", "alloc", "map"}
  /\ \A l \in DOMAIN elist : l \in LBs /\ elist[l] \in PortKeys
  /\ etodo \subseteq DOMAIN elist
  /\ \A l \in DOMAIN emap : l \in LBs /\ emap[l] \in Listeners
  /\ \A l \in DOMAIN snapshot : l \in LBs /\ snapshot[l] \in Listeners

Switches == disabled \in BOOLEAN /\ eq \in BOOLEAN

Types == Tables /\ ApiTypes /\ LBWorkerTypes /\ EnvoyTypes /\ Switches

\* The steps of the model, one by one.
LEMMA Steps ==
  ASSUME Next
  PROVE  \/ \E l \in LBs, k \in PortKeys : CreateLB(l, k) \/ UpdateLB(l, k)
         \/ \E l \in LBs : DeleteLB(l)
         \/ ToggleDisable \/ Restart \/ OtherEnvoyEvent
         \/ \E l \in LBs : SyncLB(l) \/ SyncService(l) \/ ServiceStatusChanged(l) \/ SyncEnvoyLB(l)
         \/ \E l \in LBs : LBSkip(l) \/ LBCleanup(l) \/ LBBegin(l) \/ LBAllocate(l)
         \/ LBRemoveFinalizer \/ reconcileService \/ updateLoadBalancerStatus
         \/ EnvoyClear \/ EnvoyBegin \/ \E l \in LBs : EnvoyAllocate(l) \/ EnvoyMap(l)
BY DEF Next, Environment, Informers, LBStart, LBContinue, EnvoyStep

\* An allocation gives known keys to ports, and leaves the other entries.
LEMMA AllocateTables ==
  ASSUME Tables, NEW l \in LBs, NEW k \in PortKeys,
         AllocatePorts(l, {k}) \/ AllocatePortsSpins(l, {k})
  PROVE  Tables'
<1>1. CASE AllocatePorts(l, {k})
  <2>1. PICK drawn \in [KeysToDraw(l, {k}) -> allocatePort] :
          SetEntry(l, [j \in {k} |-> IF j \in DOMAIN drawn THEN drawn[j]
                                     ELSE Entry(portLookup, l)[j]])
    BY <1>1 DEF AllocatePorts
  <2>2. \A j \in {k} : (IF j \in DOMAIN drawn THEN drawn[j]
                        ELSE Entry(portLookup, l)[j]) \in TargetPorts
    BY DEF KeysToDraw, allocatePort, TargetPorts, Entry, EmptyMap, Tables
  <2>3. mu' \in {"free", "spinning"}
    BY <1>1, SMTT(20) DEF AllocatePorts, Tables
  <2> QED BY <2>1, <2>2, <2>3 DEF SetEntry, Tables
<1>2. CASE AllocatePortsSpins(l, {k})
  BY <1>2 DEF AllocatePortsSpins, SetEntry, Entry, EmptyMap, Tables
<1> QED BY <1>1, <1>2

\* The ports LoadState restores were recorded.
LEMMA LoadedTables ==
  ASSUME ApiTypes
  PROVE  \A e \in DOMAIN LoadState :
           /\ e \in LBs
           /\ \A k \in DOMAIN LoadState[e] : k \in PortKeys /\ LoadState[e][k] \in TargetPorts
<1> SUFFICES ASSUME NEW e \in DOMAIN LoadState
             PROVE  e \in LBs /\ \A k \in DOMAIN LoadState[e] :
                                   k \in PortKeys /\ LoadState[e][k] \in TargetPorts
  OBVIOUS
<1>1. e \in LBs /\ IsObject(lb[e])
  BY DEF LoadState
<1>2. lb[e].spec \in PortKeys /\ lb[e].status \in Statuses
  BY <1>1 DEF ApiTypes, Maybe, IsObject, Objects
<1>3. ASSUME NEW k \in DOMAIN LoadState[e]
      PROVE  k = lb[e].spec /\ lb[e].status # NoStatus /\ LoadState[e][k] = lb[e].status.target
  BY <1>1 DEF LoadState, EmptyMap
<1> QED BY <1>1, <1>2, <1>3 DEF Statuses

\* The table.
LEMMA TablesStep ==
  ASSUME Types, Next
  PROVE  Tables'
<1>1. ASSUME NEW l \in LBs, LBAllocate(l)
      PROVE  Tables'
  BY <1>1, AllocateTables DEF LBAllocate, Types, LBWorkerTypes
<1>2. ASSUME NEW l \in LBs, EnvoyAllocate(l)
      PROVE  Tables'
  BY <1>2, AllocateTables DEF EnvoyAllocate, Types, EnvoyTypes
<1>3. ASSUME NEW l \in LBs, LBCleanup(l)
      PROVE  Tables'
  BY <1>3 DEF LBCleanup, DeallocateEndpoints, Types, Tables
<1>4. CASE Restart
  BY <1>4, LoadedTables, Zenon DEF Restart, Types, Tables
<1>5. CASE UNCHANGED allocVars
  BY <1>5 DEF allocVars, Types, Tables
<1> QED
  BY <1>1, <1>2, <1>3, <1>4, <1>5, Steps, Zenon
     DEF CreateLB, UpdateLB, DeleteLB, ToggleDisable, OtherEnvoyEvent, SyncLB, SyncService,
         ServiceStatusChanged, SyncEnvoyLB, LBSkip, LBBegin, LBRemoveFinalizer,
         reconcileService, updateLoadBalancerStatus, EnvoyClear, EnvoyBegin, EnvoyMap

\* The objects of the API server and the caches.
LEMMA ApiStep ==
  ASSUME Types, Next
  PROVE  ApiTypes'
<1> USE DEF Types, ApiTypes, Maybe
<1>1. ASSUME NEW l \in LBs, NEW k \in PortKeys, CreateLB(l, k)
      PROVE  ApiTypes'
  <2>1. [spec |-> k, fin |-> FALSE, deleting |-> FALSE, status |-> NoStatus] \in Objects
    BY DEF Objects, Statuses
  <2> QED BY <1>1, <2>1 DEF CreateLB, envoySide
<1>2. ASSUME NEW l \in LBs, NEW k \in PortKeys, UpdateLB(l, k)
      PROVE  ApiTypes'
  <2>1. lb[l] \in Objects /\ lb' = [lb EXCEPT ![l] = [lb[l] EXCEPT !.spec = k]]
    BY <1>2 DEF UpdateLB, Live, IsObject
  <2>2. [lb[l] EXCEPT !.spec = k] \in Objects
    BY <2>1, SpecWrite
  <2> QED BY <1>2, <2>1, <2>2 DEF UpdateLB, envoySide
<1>3. ASSUME NEW l \in LBs, DeleteLB(l)
      PROVE  ApiTypes'
  <2>1. lb[l] \in Objects
    BY <1>3 DEF DeleteLB, Live, IsObject
  <2>2. [lb[l] EXCEPT !.deleting = TRUE] \in Objects
    BY <2>1, ObjectUpdates
  <2>3. lb' \in {[lb EXCEPT ![l] = [lb[l] EXCEPT !.deleting = TRUE]], [lb EXCEPT ![l] = Gone]}
    BY <1>3, Zenon DEF DeleteLB
  <2> QED BY <1>3, <2>2, <2>3 DEF DeleteLB, envoySide
<1>4. CASE LBRemoveFinalizer
  <2>1. lcur \in LBs /\ lobj \in Objects
    BY <1>4 DEF LBRemoveFinalizer, LBWorkerTypes
  <2>2. RemoveFinalizers(lobj) \in Objects \cup {Gone}
    BY <2>1, ObjectUpdates, Zenon DEF RemoveFinalizers
  <2>3. lb' = lb \/ lb' = [lb EXCEPT ![lcur] = RemoveFinalizers(lobj)]
    BY <1>4 DEF LBRemoveFinalizer
  <2> QED BY <1>4, <2>2, <2>3 DEF LBRemoveFinalizer, envoySide
<1>5. ASSUME NEW l \in LBs, LBBegin(l)
      PROVE  ApiTypes'
  <2>1. cLB[l] \in Objects /\ (lb' = lb \/ lb' = [lb EXCEPT ![l] = [cLB[l] EXCEPT !.fin = TRUE]])
    BY <1>5, Zenon DEF LBBegin, Live, IsObject, StoreFinalizer
  <2>2. [cLB[l] EXCEPT !.fin = TRUE] \in Objects
    BY <2>1, ObjectUpdates, Zenon
  <2> QED BY <1>5, <2>1, <2>2, Zenon DEF LBBegin, envoySide
<1>6. CASE reconcileService
  <2>1. lcur \in LBs /\ lobj.spec \in PortKeys /\ TableOK
    BY <1>6 DEF reconcileService, LBWorkerTypes, Objects, Tables, TableOK
  <2>2. TargetPort(lcur, lobj.spec) \in TargetPorts
    BY <2>1, TargetPortType
  <2>3. svc' = svc \/ svc' = [svc EXCEPT ![lcur] = TargetPort(lcur, lobj.spec)]
    BY <1>6 DEF reconcileService
  <2> QED BY <1>6, <2>2, <2>3, Zenon DEF reconcileService, envoySide
<1>7. CASE updateLoadBalancerStatus
  <2> DEFINE updated == [up |-> lobj.spec, target |-> cSvc[lcur]]
  <2>1. CASE lb' # lb
    <3>1. /\ IsObject(cSvc[lcur]) /\ IsObject(lb[lcur]) /\ lcur \in LBs
          /\ lb' = [lb EXCEPT ![lcur] = [lb[lcur] EXCEPT !.status = updated]]
      BY <1>7, <2>1 DEF updateLoadBalancerStatus, LBWorkerTypes
    <3>2. updated \in Statuses /\ lb[lcur] \in Objects
      BY <1>7, <3>1 DEF updateLoadBalancerStatus, LBWorkerTypes, Statuses, Objects, IsObject
    <3> HIDE DEF updated
    <3>3. [lb[lcur] EXCEPT !.status = updated] \in Objects
      BY <3>2, StatusWrite
    <3> QED BY <1>7, <3>1, <3>3 DEF updateLoadBalancerStatus, envoySide
  <2>2. CASE lb' = lb
    BY <1>7, <2>2, Zenon DEF updateLoadBalancerStatus, envoySide
  <2> QED BY <2>1, <2>2
<1>8. ASSUME NEW l \in LBs, SyncLB(l) \/ SyncService(l) \/ ServiceStatusChanged(l)
                              \/ SyncEnvoyLB(l) \/ LBCleanup(l)
      PROVE  ApiTypes'
  BY <1>8 DEF SyncLB, SyncService, ServiceStatusChanged, SyncEnvoyLB, LBCleanup, envoySide, lbSide
<1>9. CASE Restart
  BY <1>9 DEF Restart
<1>10. CASE UNCHANGED <<lb, cLB, eLB, svc, cSvc>>
  BY <1>10
<1> QED
  BY <1>1, <1>2, <1>3, <1>4, <1>5, <1>6, <1>7, <1>8, <1>9, <1>10, Steps, Zenon
     DEF ToggleDisable, OtherEnvoyEvent, LBSkip, LBAllocate, EnvoyClear, EnvoyBegin,
         EnvoyAllocate, EnvoyMap, lbSide, envoySide

\* The worker of the LoadBalancer reconciler and its queue.
LEMMA LBWorkerStep ==
  ASSUME Types, Next
  PROVE  LBWorkerTypes'
<1> USE DEF Types, LBWorkerTypes
<1>1. CASE LBIdle /\ lq' \subseteq LBs
  BY <1>1 DEF LBIdle, EmptyMap
<1>2. ASSUME NEW l \in LBs, LBCleanup(l)
      PROVE  LBWorkerTypes'
  <2>1. cLB[l] \in Objects
    BY <1>2 DEF LBCleanup, IsObject, ApiTypes, Maybe
  <2> QED BY <1>2, <2>1 DEF LBCleanup, EmptyMap
<1>3. ASSUME NEW l \in LBs, LBBegin(l)
      PROVE  LBWorkerTypes'
  <2>1. \A m \in LBs : IsObject(cLB[m]) => cLB[m] \in Objects /\ cLB[m].spec \in PortKeys
    BY DEF IsObject, ApiTypes, Maybe, Objects
  <2>2. [cLB[l] EXCEPT !.fin = TRUE] \in Objects
    BY <1>3, <2>1, ObjectUpdates, Zenon DEF LBBegin, Live
  <2> QED BY <1>3, <2>1, <2>2 DEF LBBegin
<1>4. ASSUME NEW l \in LBs, LBAllocate(l)
      PROVE  LBWorkerTypes'
  BY <1>4 DEF LBAllocate
<1>5. CASE LBRemoveFinalizer \/ updateLoadBalancerStatus
  BY <1>1, <1>5, Zenon DEF LBRemoveFinalizer, updateLoadBalancerStatus, LBDone, LBRetry
<1>6. CASE reconcileService
  BY <1>1, <1>6, Zenon DEF reconcileService, LBRetry
<1>7. CASE Restart
  BY <1>1, <1>7 DEF Restart
<1>8. ASSUME UNCHANGED lbWorker, lq' \subseteq LBs
      PROVE  LBWorkerTypes'
  BY <1>8, Zenon DEF lbWorker
<1>9. ASSUME NEW l \in LBs, SyncLB(l) \/ SyncService(l) \/ ServiceStatusChanged(l)
                              \/ SyncEnvoyLB(l) \/ LBSkip(l)
      PROVE  UNCHANGED lbWorker /\ lq' \subseteq LBs
  BY <1>9, Zenon DEF SyncLB, SyncService, ServiceStatusChanged, SyncEnvoyLB, LBSkip, lbSide
<1>10. CASE UNCHANGED <<lbWorker, lq>>
  BY <1>8, <1>10
<1>11. CASE ToggleDisable
  BY <1>8, <1>11, Zenon DEF ToggleDisable
<1> QED
  BY <1>2, <1>3, <1>4, <1>5, <1>6, <1>7, <1>8, <1>9, <1>10, <1>11, Steps, Zenon
     DEF CreateLB, UpdateLB, DeleteLB, OtherEnvoyEvent, EnvoyClear, EnvoyBegin,
         EnvoyAllocate, EnvoyMap, lbSide

\* The worker of the Envoy reconciler and the snapshot.
LEMMA EnvoyWorkerStep ==
  ASSUME Types, Next
  PROVE  EnvoyTypes'
<1> USE DEF Types, EnvoyTypes
<1>1. CASE EnvoyClear
  BY <1>1 DEF EnvoyClear, envoyWorker, EmptyMap
<1>2. CASE EnvoyBegin
  <2>1. \A m \in LBs : IsObject(eLB[m]) => eLB[m].spec \in PortKeys
    BY DEF IsObject, ApiTypes, Maybe, Objects
  <2>2. \A m \in DOMAIN ListLoadBalancers : m \in LBs /\ ListLoadBalancers[m] \in PortKeys
    BY <2>1 DEF ListLoadBalancers, Live
  <2> QED BY <1>2, <2>2 DEF EnvoyBegin, EmptyMap
<1>3. ASSUME NEW l \in LBs, EnvoyAllocate(l)
      PROVE  EnvoyTypes'
  BY <1>3 DEF EnvoyAllocate
<1>4. ASSUME NEW l \in LBs, EnvoyMap(l)
      PROVE  EnvoyTypes'
  <2> DEFINE mapped == [m \in DOMAIN emap \cup {l} |->
                          IF m = l THEN [up |-> elist[l], port |-> TargetPort(l, elist[l])]
                          ELSE emap[m]]
  <2>1. elist[l] \in PortKeys /\ TableOK
    BY <1>4 DEF EnvoyMap, Tables, TableOK
  <2>2. [up |-> elist[l], port |-> TargetPort(l, elist[l])] \in Listeners
    BY <2>1, TargetPortType, Zenon DEF Listeners
  <2>3. \A m \in DOMAIN mapped : m \in LBs /\ mapped[m] \in Listeners
    BY <2>2, ZenonT(30)
  <2>4. \/ snapshot' = mapped /\ EnvoyDone
        \/ emap' = mapped /\ etodo' = etodo \ {l} /\ UNCHANGED <<snapshot, epc, elist>>
    BY <1>4 DEF EnvoyMap
  <2> HIDE DEF mapped
  <2> QED BY <2>3, <2>4, Zenon DEF EnvoyDone, EmptyMap
<1>5. CASE Restart
  BY <1>5 DEF Restart, EnvoyDone, EmptyMap
<1>6. CASE UNCHANGED <<envoyWorker, snapshot>>
  BY <1>6 DEF envoyWorker
<1> QED
  BY <1>1, <1>2, <1>3, <1>4, <1>5, <1>6, Steps, Zenon
     DEF CreateLB, UpdateLB, DeleteLB, ToggleDisable, OtherEnvoyEvent, SyncLB, SyncService,
         ServiceStatusChanged, SyncEnvoyLB, LBSkip, LBCleanup, LBBegin, LBAllocate,
         LBRemoveFinalizer, reconcileService, updateLoadBalancerStatus, envoySide

\* The switch and the Envoy reconciler's queue.
LEMMA SwitchesStep ==
  ASSUME Types, Next
  PROVE  Switches'
<1> USE DEF Types, Switches
<1>1. CASE ToggleDisable
  <2>1. disabled' \in BOOLEAN
    BY <1>1, Zenon DEF ToggleDisable
  <2>2. UNCHANGED eq
    BY <1>1 DEF ToggleDisable, envoySide
  <2> QED BY <2>1, <2>2
<1>2. CASE UNCHANGED disabled /\ eq' \in BOOLEAN
  BY <1>2
<1> QED
  BY <1>1, <1>2, Steps, Zenon
     DEF CreateLB, UpdateLB, DeleteLB, OtherEnvoyEvent, SyncLB, SyncService, Restart,
         ServiceStatusChanged, SyncEnvoyLB, LBSkip, LBCleanup, LBBegin, LBAllocate,
         LBRemoveFinalizer, reconcileService, updateLoadBalancerStatus, EnvoyClear,
         EnvoyBegin, EnvoyAllocate, EnvoyMap, envoySide, lbSide

\* Every step keeps the types.
LEMMA TypesStep ==
  ASSUME Types, [Next]_vars
  PROVE  Types'
<1>1. CASE Next
  BY <1>1, TablesStep, ApiStep, LBWorkerStep, EnvoyWorkerStep, SwitchesStep DEF Types
<1>2. CASE UNCHANGED vars
  BY <1>2, Zenon DEF Types, Tables, ApiTypes, LBWorkerTypes, EnvoyTypes, Switches, vars, allocVars,
              lbSide, lbWorker, envoySide, envoyWorker
<1> QED BY <1>1, <1>2

\* Types hold throughout.
LEMMA TypesInvariant == Spec => []Types
<1>1. Init => Types
  BY ZenonT(30) DEF Init, AllocInit, Types, Tables, ApiTypes, Maybe, LBWorkerTypes, EnvoyTypes, Switches,
         EmptyMap
<1>2. Types /\ [Next]_vars => Types'
  BY TypesStep
<1> QED BY <1>1, <1>2, PTL DEF Spec

\* The objects, the caches, the two workers and the port table they share keep their
\* types: whatever reconcileService writes and LoadState reads back is a target port.
THEOREM LBTypes == Spec => []TypeOK
<1>1. Types => TypeOK
  BY DEF Types, Tables, ApiTypes, Maybe, LBWorkerTypes, EnvoyTypes, Listeners, Switches, TypeOK
<1> QED BY <1>1, TypesInvariant, PTL

-----------------------------------------------------------------------------
(* The table of ports, in the manager.                                     *)

TableExact == ReverseExact /\ SpinsOnlyWhenExhausted

\* A call that spins leaves every port where it is.
LEMMA SpinLeavesPorts ==
  ASSUME NEW l, NEW K, AllocatePortsSpins(l, K)
  PROVE  TakenPorts(portLookup') = TakenPorts(portLookup)
<1>1. \A e : PortsOf(portLookup', e) = PortsOf(portLookup, e)
  BY DEF AllocatePortsSpins, SetEntry, PortsOf, Entry
<1>2. DOMAIN portLookup' = DOMAIN portLookup \cup {l}
  BY ZenonT(30) DEF AllocatePortsSpins, SetEntry
<1>3. l \notin DOMAIN portLookup => PortsOf(portLookup, l) = {}
  BY DEF PortsOf, Entry, EmptyMap
<1> QED BY <1>1, <1>2, <1>3, ZenonT(30) DEF TakenPorts

\* Both reconcilers and LoadState leave the reverse table exact.
LEMMA TableExactStep ==
  ASSUME TableExact, [Next]_vars
  PROVE  TableExact'
<1> USE DEF TableExact, ReverseExact, SpinsOnlyWhenExhausted
<1>1. ASSUME NEW l, NEW K, AllocatePorts(l, K)
      PROVE  TableExact'
  BY <1>1 DEF AllocatePorts, recomputeAvailablePorts
<1>2. ASSUME NEW l, NEW K, AllocatePortsSpins(l, K)
      PROVE  TableExact'
  <2>1. Ports \subseteq TakenPorts(portLookup) /\ portLookupReverse' = portLookupReverse
    BY <1>2, Zenon DEF AllocatePortsSpins, allocatePort
  <2> QED BY <1>2, <2>1, SpinLeavesPorts
<1>3. ASSUME NEW l \in LBs, LBCleanup(l)
      PROVE  TableExact'
  BY <1>3 DEF LBCleanup, DeallocateEndpoints, recomputeAvailablePorts
<1>4. CASE Restart
  BY <1>4, Zenon DEF Restart, recomputeAvailablePorts
<1>5. CASE UNCHANGED allocVars
  BY <1>5 DEF allocVars
<1>6. ASSUME NEW l \in LBs, LBAllocate(l) \/ EnvoyAllocate(l)
      PROVE  TableExact'
  BY <1>1, <1>2, <1>6 DEF LBAllocate, EnvoyAllocate
<1>7. CASE UNCHANGED vars
  BY <1>5, <1>7 DEF vars
<1> QED
  BY <1>3, <1>4, <1>5, <1>6, <1>7, Steps, Zenon
     DEF CreateLB, UpdateLB, DeleteLB, ToggleDisable, OtherEnvoyEvent, SyncLB, SyncService,
         ServiceStatusChanged, SyncEnvoyLB, LBSkip, LBBegin, LBRemoveFinalizer,
         reconcileService, updateLoadBalancerStatus, EnvoyClear, EnvoyBegin, EnvoyMap

\* ... throughout.
LEMMA TableExactInvariant == Spec => []TableExact
<1>1. Init => TableExact
  BY DEF Init, AllocInit, TableExact, ReverseExact, SpinsOnlyWhenExhausted, TakenPorts
<1> QED BY <1>1, TableExactStep, PTL DEF Spec

\* In the manager, with two reconcilers, cleanups and restarts, the mutex is lost to
\* an endless draw only when every port of the range is in the table.
THEOREM ManagerSpinsOnlyWhenExhausted == Spec => []SpinsOnlyWhenExhausted
<1>1. TableExact => SpinsOnlyWhenExhausted
  BY DEF TableExact
<1> QED BY <1>1, TableExactInvariant, PTL
==============================================================================
