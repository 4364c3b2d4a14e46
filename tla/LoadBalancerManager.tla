------------------------- MODULE LoadBalancerManager -------------------------
(***************************************************************************)
(* One KubeLB manager process and the API server it works on: the          *)
(* LoadBalancer reconciler (its own controller-runtime manager and cache)  *)
(* and the Envoy control plane reconciler (a second manager with a second  *)
(* cache) share the PortAllocator.  The first writes Services, whose       *)
(* target ports Envoy must listen on; the second writes the Envoy snapshot *)
(* that decides which ports Envoy listens on.                              *)
(*                                                                         *)
(* LoadBalancers are those of one snapshot: a tenant namespace in the      *)
(* shared topology, the whole cluster in the global one.  A LoadBalancer   *)
(* has one endpoints entry with one port, so its endpoint key names it;    *)
(* several ports per endpoint are the subject of PortAllocator.  It has no *)
(* hostname, so configureHostname is not called.                           *)
(***************************************************************************)
EXTENDS PortAllocator, Naturals

CONSTANTS Absent,       \* an object that has not been created
          Gone,         \* an object that has been removed
          NoStatus,     \* status.service of a LoadBalancer before it is written
          MaxUpdates,   \* bound: changes of a LoadBalancer's spec
          MaxDeletes,   \* bound: LoadBalancers that are deleted
          MaxToggles,   \* bound: switches of spec.loadBalancer.disable
          MaxRestarts   \* bound: restarts of the manager process

LBs == EndpointKeys

VARIABLES lb,        \* API server: LoadBalancer objects
          svc,       \* API server: target port of each LoadBalancer's Service
          disabled,  \* API server: Config or Tenant disables L4 load balancing
          cLB, cSvc, \* cache of the LoadBalancer reconciler's manager
          eLB,       \* cache of the Envoy reconciler's manager
          lq,        \* work queue of the LoadBalancer reconciler
          lpc, lcur, lobj, ltodo,  \* its worker: step, key, object read, LBs to allocate for
          eq,        \* work queue of the Envoy reconciler: something to do
          epc, elist, etodo, emap, \* its worker: step, listed specs, LBs left, listeners mapped
          snapshot,  \* EnvoyCache: LB -> upstream port and listener port
          updates, toggles, restarts

lbWorker == <<lpc, lcur, lobj, ltodo>>
envoyWorker == <<epc, elist, etodo, emap>>
lbSide == <<lb, svc, disabled, cLB, cSvc, lq, lbWorker>>
envoySide == <<eLB, eq, envoyWorker, snapshot>>
bounds == <<updates, toggles, restarts>>
vars == <<allocVars, lbSide, envoySide, bounds>>

\* An unallocated port falls back to the endpoint's own port, its port key.
TargetPorts == Ports \cup PortKeys
Statuses == [up : PortKeys, target : TargetPorts] \cup {NoStatus}
Objects == [spec : PortKeys, fin : BOOLEAN, deleting : BOOLEAN, status : Statuses]

ASSUME MarkersAssumption == /\ Absent # Gone
                            /\ {Absent, Gone} \cap (Objects \cup TargetPorts) = {}
                            /\ NoStatus \notin [up : PortKeys, target : TargetPorts \cup {Absent}]

IsObject(o) == o \notin {Absent, Gone}
Live(o) == IsObject(o) /\ ~o.deleting

\* Lookup with the callers' fallback (CreateServicePorts, MapSnapshot).
TargetPort(l, k) == IF Lookup(l, k) = NoPort THEN k ELSE Lookup(l, k)

-----------------------------------------------------------------------------
(* The environment: tenant clusters and administrators.                    *)

CreateLB(l, k) ==
  /\ lb[l] = Absent
  /\ lb' = [lb EXCEPT ![l] = [spec |-> k, fin |-> FALSE, deleting |-> FALSE,
                              status |-> NoStatus]]
  /\ UNCHANGED <<allocVars, svc, disabled, cLB, cSvc, lq, lbWorker, envoySide, bounds>>

UpdateLB(l, k) ==
  /\ updates < MaxUpdates
  /\ Live(lb[l]) /\ lb[l].spec # k
  /\ lb' = [lb EXCEPT ![l].spec = k]
  /\ updates' = updates + 1
  /\ UNCHANGED <<allocVars, svc, disabled, cLB, cSvc, lq, lbWorker, envoySide,
                 toggles, restarts>>

DeleteLB(l) ==
  /\ Cardinality({m \in LBs : lb[m] # Absent /\ ~Live(lb[m])}) < MaxDeletes
  /\ Live(lb[l])
  /\ lb' = [lb EXCEPT ![l] = IF @.fin THEN [@ EXCEPT !.deleting = TRUE] ELSE Gone]
  /\ UNCHANGED <<allocVars, svc, disabled, cLB, cSvc, lq, lbWorker, envoySide, bounds>>

\* Config and Tenant events enqueue every LoadBalancer in the cache.
ToggleDisable ==
  /\ toggles < MaxToggles
  /\ disabled' = ~disabled
  /\ toggles' = toggles + 1
  /\ lq' = lq \cup {l \in LBs : IsObject(cLB[l])}
  /\ UNCHANGED <<allocVars, lb, svc, cLB, cSvc, lbWorker, envoySide, updates, restarts>>

-----------------------------------------------------------------------------
(* Informers.  A cache catches up with the newest version of an object.    *)

SyncLB(l) ==
  /\ cLB[l] # lb[l]
  /\ cLB' = [cLB EXCEPT ![l] = lb[l]]
  /\ lq' = lq \cup {l}
  /\ UNCHANGED <<allocVars, lb, svc, disabled, cSvc, lbWorker, envoySide, bounds>>

\* filterServicesPredicate passes created and deleted Services, and updates only
\* when the Service's status changed: an update of the ports is not an event.
filterServicesPredicate(l) == ~IsObject(cSvc[l]) \/ ~IsObject(svc[l])

SyncService(l) ==
  /\ cSvc[l] # svc[l]
  /\ cSvc' = [cSvc EXCEPT ![l] = svc[l]]
  /\ lq' = IF filterServicesPredicate(l) THEN lq \cup {l} ELSE lq
  /\ UNCHANGED <<allocVars, lb, svc, disabled, cLB, lbWorker, envoySide, bounds>>

\* The cloud provider updates the status of a Service.
ServiceStatusChanged(l) ==
  /\ IsObject(svc[l])
  /\ cSvc' = [cSvc EXCEPT ![l] = svc[l]]
  /\ lq' = lq \cup {l}
  /\ UNCHANGED <<allocVars, lb, svc, disabled, cLB, lbWorker, envoySide, bounds>>

SyncEnvoyLB(l) ==
  /\ eLB[l] # lb[l]
  /\ eLB' = [eLB EXCEPT ![l] = lb[l]]
  /\ eq' = TRUE
  /\ UNCHANGED <<allocVars, lbSide, envoyWorker, snapshot, bounds>>

\* A Route, Addresses, Config or Tenant event of the namespace.
OtherEnvoyEvent ==
  /\ ~eq /\ eq' = TRUE
  /\ UNCHANGED <<allocVars, lbSide, eLB, envoyWorker, snapshot, bounds>>
-----------------------------------------------------------------------------
(* LoadBalancerReconciler.Reconcile, one worker.  A read returns what the  *)
(* cache holds; a write based on an object that has changed since fails    *)
(* with a conflict; an error puts the key back into the queue.             *)

LBIdle == lpc' = "idle" /\ lcur' = Absent /\ lobj' = Absent /\ ltodo' = EmptyMap
LBDone == LBIdle /\ UNCHANGED lq
LBRetry == LBIdle /\ lq' = lq \cup {lcur}

\* Nothing to do: the object is not in the cache, or load balancing is
\* disabled and was not set up for it.
LBSkip(l) ==
  /\ lpc = "idle" /\ l \in lq
  /\ \/ ~IsObject(cLB[l])
     \/ IsObject(cLB[l]) /\ ~cLB[l].fin /\ disabled
  /\ lq' = lq \ {l}
  /\ UNCHANGED <<allocVars, lb, svc, disabled, cLB, cSvc, lbWorker, envoySide, bounds>>

\* cleanup: the ports are released and the Service is deleted (NotFound is
\* fine).  Only the second of these survives a crash, so they are one step.
LBCleanup(l) ==
  /\ lpc = "idle" /\ l \in lq
  /\ IsObject(cLB[l]) /\ cLB[l].fin /\ (cLB[l].deleting \/ disabled)
  /\ DeallocateEndpoints({l})
  /\ svc' = [svc EXCEPT ![l] = Absent]
  /\ lpc' = "unfinal" /\ lcur' = l /\ lobj' = cLB[l] /\ ltodo' = EmptyMap
  /\ lq' = lq \ {l}
  /\ UNCHANGED <<lb, disabled, cLB, cSvc, envoySide, bounds>>

\* Mutated form: one of the finalizers is left in place.
KeepFinalizer(o) == o

\* RemoveFinalizer and Update: the API server then removes a LoadBalancer that
\* is being deleted.
RemoveFinalizers(o) == IF o.deleting THEN Gone ELSE [o EXCEPT !.fin = FALSE]

\* cleanup, last step; the Update conflicts when the object was changed.
LBRemoveFinalizer ==
  /\ lpc = "unfinal"
  /\ IF lb[lcur] = lobj
       THEN lb' = [lb EXCEPT ![lcur] = RemoveFinalizers(@)] /\ LBDone
       ELSE UNCHANGED lb /\ LBRetry
  /\ UNCHANGED <<allocVars, svc, disabled, cLB, cSvc, envoySide, bounds>>

\* Mutated form: the finalizer is added to the object in memory only.
ForgetFinalizer(l) == UNCHANGED lb

StoreFinalizer(l) ==
  /\ cLB[l].fin \/ lb[l] = cLB[l]
  /\ lb' = IF cLB[l].fin THEN lb ELSE [lb EXCEPT ![l].fin = TRUE]

\* The reconcilable path: get, list, and store the finalizer.  When that Update
\* conflicts the key stays queued and nothing changes, so this step waits for
\* the cache.
LBBegin(l) ==
  /\ lpc = "idle" /\ l \in lq
  /\ Live(cLB[l]) /\ ~disabled
  /\ StoreFinalizer(l)
  /\ lpc' = "alloc" /\ lcur' = l /\ lobj' = [cLB[l] EXCEPT !.fin = TRUE]
  /\ ltodo' = [m \in {n \in LBs : IsObject(cLB[n])} |-> cLB[m].spec]
  /\ lq' = lq \ {l}
  /\ UNCHANGED <<allocVars, svc, disabled, cLB, cSvc, envoySide, bounds>>

\* AllocatePortsForLoadBalancers: one locked AllocatePorts per listed
\* LoadBalancer, those being deleted included, in the list's arbitrary order.
LBAllocate(l) ==
  /\ lpc = "alloc" /\ l \in DOMAIN ltodo
  /\ \/ /\ AllocatePorts(l, {ltodo[l]})
        /\ ltodo' = [m \in DOMAIN ltodo \ {l} |-> ltodo[m]]
        /\ lpc' = IF DOMAIN ltodo = {l} THEN "service" ELSE "alloc"
     \/ AllocatePortsSpins(l, {ltodo[l]}) /\ UNCHANGED <<ltodo, lpc>>
  /\ UNCHANGED <<lb, svc, disabled, cLB, cSvc, lq, lcur, lobj, envoySide, bounds>>

\* reconcileService: create when the cache has no Service, update when it has
\* another target port.
reconcileService ==
  LET desired == TargetPort(lcur, lobj.spec)
      current == cSvc[lcur] = desired
  IN /\ lpc = "service"
     /\ IF current \/ svc[lcur] = cSvc[lcur]
          THEN /\ svc' = IF current THEN svc ELSE [svc EXCEPT ![lcur] = desired]
               /\ lpc' = "status" /\ UNCHANGED <<lq, lcur, lobj, ltodo>>
          ELSE UNCHANGED svc /\ LBRetry
     /\ UNCHANGED <<allocVars, lb, disabled, cLB, cSvc, envoySide, bounds>>

\* The Service is read again, from the cache, and updateLoadBalancerStatus pairs
\* its target port with the upstream port of the spec read at the start.  The
\* patch carries no version; it fails only when the LoadBalancer is gone.
updateLoadBalancerStatus ==
  LET updated == [up |-> lobj.spec, target |-> cSvc[lcur]]
      upToDate == lobj.status = updated
                  \/ (IsObject(cLB[lcur]) /\ cLB[lcur].status = updated)
  IN /\ lpc = "status"
     /\ IF IsObject(cSvc[lcur]) /\ upToDate THEN UNCHANGED lb /\ LBDone
        ELSE IF IsObject(cSvc[lcur]) /\ IsObject(cLB[lcur]) /\ IsObject(lb[lcur])
          THEN lb' = [lb EXCEPT ![lcur].status = updated] /\ LBDone
          ELSE UNCHANGED lb /\ LBRetry
     /\ UNCHANGED <<allocVars, svc, disabled, cLB, cSvc, envoySide, bounds>>

-----------------------------------------------------------------------------
(* EnvoyCPReconciler.Reconcile, one worker.  Every key of the queue leads  *)
(* to the same work on the one snapshot.                                   *)

EnvoyDone == epc' = "idle" /\ elist' = EmptyMap /\ etodo' = {} /\ emap' = EmptyMap

ListLoadBalancers == [l \in {m \in LBs : Live(eLB[m])} |-> eLB[l].spec]

\* No LoadBalancer left: ClearSnapshot.
EnvoyClear ==
  /\ epc = "idle" /\ eq
  /\ DOMAIN ListLoadBalancers = {}
  /\ eq' = FALSE /\ snapshot' = EmptyMap
  /\ UNCHANGED <<allocVars, lbSide, eLB, envoyWorker, bounds>>

\* List; ensureEnvoyProxy follows, so the list is used after calls of the API.
EnvoyBegin ==
  /\ epc = "idle" /\ eq
  /\ DOMAIN ListLoadBalancers # {}
  /\ eq' = FALSE
  /\ epc' = "alloc" /\ elist' = ListLoadBalancers /\ etodo' = DOMAIN elist' /\ emap' = EmptyMap
  /\ UNCHANGED <<allocVars, lbSide, eLB, snapshot, bounds>>

EnvoyAllocate(l) ==
  /\ epc = "alloc" /\ l \in etodo
  /\ \/ /\ AllocatePorts(l, {elist[l]})
        /\ IF etodo = {l} THEN epc' = "map" /\ etodo' = DOMAIN elist
           ELSE UNCHANGED epc /\ etodo' = etodo \ {l}
     \/ AllocatePortsSpins(l, {elist[l]}) /\ UNCHANGED <<etodo, epc>>
  /\ UNCHANGED <<lbSide, eLB, eq, elist, emap, snapshot, bounds>>

\* MapSnapshot looks up one port after the other, without the mutex, and
\* updateCache then publishes the snapshot.
EnvoyMap(l) ==
  LET mapped == [m \in DOMAIN emap \cup {l} |->
                   IF m = l THEN [up |-> elist[l], port |-> TargetPort(l, elist[l])]
                   ELSE emap[m]]
  IN /\ epc = "map" /\ l \in etodo
     /\ IF etodo = {l}
          THEN snapshot' = mapped /\ EnvoyDone
          ELSE /\ emap' = mapped /\ etodo' = etodo \ {l}
               /\ UNCHANGED <<snapshot, epc, elist>>
     /\ UNCHANGED <<allocVars, lbSide, eLB, eq, bounds>>

-----------------------------------------------------------------------------
\* Mutated forms: nothing is restored, and UpstreamTargetPort is restored instead
\* of TargetPort.
LoadNothing == [l \in {} |-> EmptyMap]
LoadUpstream ==
  [l \in {m \in LBs : IsObject(lb[m])} |->
     IF lb[l].status # NoStatus THEN [k \in {lb[l].spec} |-> lb[l].status.up] ELSE EmptyMap]

\* LoadState: a LoadBalancer's port is restored when its status was written for
\* the upstream port its spec has now.
LoadState ==
  [l \in {m \in LBs : IsObject(lb[m])} |->
     IF lb[l].status # NoStatus /\ lb[l].status.up = lb[l].spec
       THEN [k \in {lb[l].spec} |-> lb[l].status.target] ELSE EmptyMap]

\* The process dies and starts again: LoadState, then the caches are filled by
\* a list, which enqueues every object; the Config enqueues the snapshot.
Restart ==
  /\ restarts < MaxRestarts
  /\ restarts' = restarts + 1
  /\ portLookup' = LoadState
  /\ recomputeAvailablePorts
  /\ mu' = "free"
  /\ cLB' = lb /\ cSvc' = svc /\ eLB' = lb
  /\ lq' = {l \in LBs : IsObject(lb[l]) \/ IsObject(svc[l])}
  /\ eq' = TRUE
  /\ LBIdle /\ EnvoyDone
  /\ snapshot' = EmptyMap
  /\ UNCHANGED <<lb, svc, disabled, updates, toggles>>

Init ==
  /\ AllocInit
  /\ lb = [l \in LBs |-> Absent] /\ svc = [l \in LBs |-> Absent]
  /\ disabled = FALSE
  /\ cLB = lb /\ cSvc = svc /\ eLB = lb
  /\ lq = {} /\ eq = TRUE
  /\ lpc = "idle" /\ lcur = Absent /\ lobj = Absent /\ ltodo = EmptyMap
  /\ epc = "idle" /\ elist = EmptyMap /\ etodo = {} /\ emap = EmptyMap
  /\ snapshot = EmptyMap
  /\ updates = 0 /\ toggles = 0 /\ restarts = 0

Environment ==
  \/ \E l \in LBs, k \in PortKeys : CreateLB(l, k) \/ UpdateLB(l, k)
  \/ \E l \in LBs : DeleteLB(l) \/ ServiceStatusChanged(l)
  \/ ToggleDisable \/ OtherEnvoyEvent \/ Restart

Informers == \E l \in LBs : SyncLB(l) \/ SyncService(l) \/ SyncEnvoyLB(l)

LBStart(l) == LBSkip(l) \/ LBCleanup(l) \/ LBBegin(l)
LBContinue ==
  \/ LBRemoveFinalizer \/ reconcileService \/ updateLoadBalancerStatus
  \/ \E l \in LBs : LBAllocate(l)

EnvoyStep == EnvoyClear \/ EnvoyBegin
             \/ \E l \in LBs : EnvoyAllocate(l) \/ EnvoyMap(l)

Next == Environment \/ Informers \/ (\E l \in LBs : LBStart(l)) \/ LBContinue \/ EnvoyStep

Spec == Init /\ [][Next]_vars
\* Informers deliver, the processes run, and the work queue is FIFO: a queued key
\* is served again and again.  Nothing is assumed of the environment.
Fairness ==
  /\ \A l \in LBs : /\ WF_vars(SyncLB(l)) /\ WF_vars(SyncService(l)) /\ WF_vars(SyncEnvoyLB(l))
                    /\ SF_vars(LBStart(l))
  /\ WF_vars(LBContinue) /\ WF_vars(EnvoyStep)

FairSpec == Spec /\ Fairness

-----------------------------------------------------------------------------
\* The values the API objects, the caches, the two workers and the shared table
\* can take; a target port is an allocated port or the endpoint's own port.
TypeOK ==
  /\ \A e \in DOMAIN portLookup :
       e \in LBs /\ \A k \in DOMAIN portLookup[e] : k \in PortKeys /\ portLookup[e][k] \in TargetPorts
  /\ mu \in {"free", "spinning"}
  /\ lb \in [LBs -> Objects \cup {Absent, Gone}]
  /\ cLB \in [LBs -> Objects \cup {Absent, Gone}]
  /\ eLB \in [LBs -> Objects \cup {Absent, Gone}]
  /\ svc \in [LBs -> TargetPorts \cup {Absent}]
  /\ cSvc \in [LBs -> TargetPorts \cup {Absent}]
  /\ lq \subseteq LBs
  /\ lpc \in {"idle", "unfinal", "alloc", "service", "status"}
  /\ lpc # "idle" => lcur \in LBs /\ lobj \in Objects
  /\ \A l \in DOMAIN ltodo : l \in LBs /\ ltodo[l] \in PortKeys
  /\ epc \in {"idle", "alloc", "map"}
  /\ \A l \in DOMAIN elist : l \in LBs /\ elist[l] \in PortKeys
  /\ etodo \subseteq DOMAIN elist
  /\ \A l \in DOMAIN emap : l \in LBs /\ emap[l] \in [up : PortKeys, port : TargetPorts]
  /\ \A l \in DOMAIN snapshot : l \in LBs /\ snapshot[l] \in [up : PortKeys, port : TargetPorts]
  /\ disabled \in BOOLEAN /\ eq \in BOOLEAN

\* A Service exists only while its LoadBalancer does and carries the finalizer
\* that will remove the Service with it.
NoOrphanService ==
  \A l \in LBs : IsObject(svc[l]) => IsObject(lb[l]) /\ lb[l].fin

\* Two LoadBalancers in use are never published on the same Envoy port: the
\* traffic of one would reach the other.
DistinctListeners ==
  \A l, m \in DOMAIN snapshot :
    l # m /\ Live(lb[l]) /\ Live(lb[m]) => snapshot[l].port # snapshot[m].port

RecordedKept ==
  \A l \in LBs :
    IsObject(lb[l]) /\ lb[l].status = [up |-> lb[l].spec, target |-> svc[l]]
      => svc'[l] \in {svc[l], Absent}

\* While specs do not change, a target port that the status has recorded stays
\* the Service's target port for life, across restarts (LoadState) and whatever
\* happens to other LoadBalancers.
RecordedPortStable == [][RecordedKept]_vars

\* A LoadBalancer that is being deleted goes away, and its Service with it.
DeletionCompletes ==
  \A l \in LBs : (IsObject(lb[l]) /\ lb[l].deleting) ~> (lb[l] = Gone /\ svc[l] = Absent)

Served(l) == /\ l \in DOMAIN snapshot
             /\ snapshot[l] = [up |-> lb[l].spec, port |-> svc[l]]

\* Once the tenants stop, Envoy listens on exactly the target port of every
\* Service and forwards to the LoadBalancer's current upstream port.
Converges == <>[](~disabled => \A l \in LBs : Live(lb[l]) => Served(l))

\* ... and the status names the Service's target port.
StatusConverges ==
  <>[](~disabled => \A l \in LBs : Live(lb[l]) =>
         lb[l].status = [up |-> lb[l].spec, target |-> svc[l]])
==============================================================================
