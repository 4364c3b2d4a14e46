---------------------------- MODULE RouteManager ----------------------------
(***************************************************************************)
(* The Route reconciler of the manager.  A Route carries a layer 7         *)
(* resource of a tenant cluster (Ingress, Gateway, HTTPRoute, GRPCRoute)   *)
(* with the Services it refers to.  The reconciler allocates a listener    *)
(* port per Service, generates the Services (in the global topology each   *)
(* with a bridge Service in the controller's namespace), records them in   *)
(* the Route's status and generates the resource itself.                   *)
(*                                                                         *)
(* The name of a generated Service depends on the tenant's Service alone,  *)
(* so Routes of one tenant that refer to the same Service share it; the    *)
(* port is the Route's own.  The second manager's Envoy reconciler         *)
(* allocates from the same table for the Routes in its cache.  A Service   *)
(* has one port and keeps its type.  Tenant and Config exist (see          *)
(* TenantLifecycle).                                                       *)
(***************************************************************************)
EXTENDS PortAllocator, Naturals, Sequences, FiniteSets, Functions

CONSTANTS Routes, Svcs,   \* Routes of one tenant, Services of its cluster
          AsIs,           \* those that are not of type ClusterIP: the CCM sends them as
                          \* they are, without the labels that say where they come from
          PortKey,        \* the port of a Service, "<port>-<protocol>"
          Absent,         \* an object that has not been created
          Gone,           \* an object that has been removed
          MaxEvents       \* bound: spec changes, switches of disable and restarts, together

VARIABLES topology,   \* "shared" or "global", does not change
          route,      \* API server: Routes
          svc,        \* API server: target port of the generated Services
          l7,         \* API server: the generated resources, the Services they refer to
          disabled,   \* Config or Tenant disables the Routes' kind
          cRoute, cSvc, cL7,  \* cache of the Route reconciler's manager
          eRoute,     \* cache of the Envoy reconciler's manager: Services of live Routes
          rq,         \* work queue of the Route reconciler
          pc, cur, obj, todo,  \* its worker: step, key, object read, what is left of a loop
          updates, toggles, restarts

caches == <<cRoute, cSvc, cL7, eRoute>>
worker == <<pc, cur, obj, todo>>
bounds == <<updates, toggles, restarts>>
vars == <<allocVars, route, svc, l7, disabled, caches, rq, worker, bounds>>

\* In the global topology a Service has a bridge in the controller's namespace.
Parts == IF topology = "global" THEN {"service", "bridge"} ELSE {"service"}
Generated == Svcs \X {"service", "bridge"}

\* An entry of the status has the key "<namespace>/<name>" the labels of the
\* generated Service give: those of the tenant's Service, as in the spec, or, without
\* labels, its own.  Its value names the generated Service.
StatusKeys == Svcs \X {"service", "bridge", "generated"}
StatusKey(g) == IF g[2] = "service" /\ g[1] \in AsIs THEN <<g[1], "generated">> ELSE g
GeneratedName(k) == IF k[2] = "generated" THEN <<k[1], "service">> ELSE k

Statuses == UNION {[S -> Ports] : S \in SUBSET StatusKeys}
Objects == [services : SUBSET Svcs, status : Statuses, fin : BOOLEAN, deleting : BOOLEAN]
Resources == [services : SUBSET Svcs]

ASSUME AsIsAssumption == AsIs \subseteq Svcs
ASSUME KeysAssumption == EndpointKeys = Svcs \X Routes /\ PortKeys = {PortKey}
\* There are finitely many Routes.
ASSUME RoutesAssumption == \A R \in SUBSET Routes : Cardinality(R) \in Nat
ASSUME MarkersAssumption ==
  Absent # Gone /\ {Absent, Gone} \cap (Objects \cup Ports \cup Resources) = {}

IsObject(o) == o \notin {Absent, Gone}
Live(o) == IsObject(o) /\ ~o.deleting

\* Mutated form: the parts of the key are swapped.
endpointKeySwapped(s, r) == <<r, s>>

\* EnvoyEndpointRoutePattern: Service and name of the Route's source.
endpointKey(s, r) == <<s, r>>

Target(s, r) == Lookup(endpointKey(s, r), PortKey)

Without(f, k) == [x \in DOMAIN f \ {k} |-> f[x]]
With(f, k, v) == [x \in DOMAIN f \cup {k} |-> IF x = k THEN v ELSE f[x]]

-----------------------------------------------------------------------------
(* The CCM and administrators.                                             *)

Event == updates + toggles + restarts < MaxEvents

CreateRoute(r) ==
  /\ route[r] = Absent
  /\ \E S \in SUBSET Svcs \ {{}} :
       route' = [route EXCEPT ![r] = [services |-> S, status |-> [g \in {} |-> NoPort],
                                      fin |-> FALSE, deleting |-> FALSE]]
  /\ UNCHANGED <<allocVars, svc, l7, disabled, caches, rq, worker, bounds>>

UpdateRoute(r) ==
  /\ Event /\ Live(route[r])
  /\ \E S \in SUBSET Svcs \ {route[r].services} : route' = [route EXCEPT ![r].services = S]
  /\ updates' = updates + 1
  /\ UNCHANGED <<allocVars, svc, l7, disabled, caches, rq, worker, toggles, restarts>>

DeleteRoute(r) ==
  /\ Live(route[r])
  /\ route' = [route EXCEPT ![r] = IF @.fin THEN [@ EXCEPT !.deleting = TRUE] ELSE Gone]
  /\ UNCHANGED <<allocVars, svc, l7, disabled, caches, rq, worker, bounds>>

-----------------------------------------------------------------------------
(* Informers and the garbage collector.                                    *)

\* Routes in any order, and a queue to which those are added that it has not.
InOrder(R) == Injection(1..Cardinality(R), R)
Enqueued(q, R) == {q \o s : s \in InOrder(R \ Range(q))}
CachedRoutes == {r \in Routes : IsObject(cRoute[r])}

\* enqueueRoutesForConfig, enqueueRoutesForTenant: every Route of the cache.
ToggleDisable ==
  /\ Event
  /\ disabled' = ~disabled
  /\ toggles' = toggles + 1
  /\ rq' \in Enqueued(rq, CachedRoutes)
  /\ UNCHANGED <<allocVars, route, svc, l7, caches, worker, updates, restarts>>

\* Every ten hours the informers deliver Config and Tenant once more.
Resync ==
  /\ CachedRoutes \ Range(rq) # {}
  /\ rq' \in Enqueued(rq, CachedRoutes)
  /\ UNCHANGED <<allocVars, route, svc, l7, disabled, caches, worker, bounds>>

\* GenerationChangedPredicate: changes of status and finalizers are no events.
GenerationChanged(o, n) ==
  IsObject(o) /\ IsObject(n) => <<o.services, o.deleting>> # <<n.services, n.deleting>>

SyncRoute(r) ==
  /\ cRoute[r] # route[r]
  /\ cRoute' = [cRoute EXCEPT ![r] = route[r]]
  /\ IF GenerationChanged(cRoute[r], route[r]) THEN rq' \in Enqueued(rq, {r}) ELSE UNCHANGED rq
  /\ UNCHANGED <<allocVars, route, svc, l7, disabled, cSvc, cL7, eRoute, worker, bounds>>

\* Generated Services are not watched.
SyncService(g) ==
  /\ cSvc[g] # svc[g]
  /\ cSvc' = [cSvc EXCEPT ![g] = svc[g]]
  /\ UNCHANGED <<allocVars, route, svc, l7, disabled, cRoute, cL7, eRoute, rq, worker, bounds>>

\* Owns: a change of the generated resource enqueues its Route.
SyncResource(r) ==
  /\ cL7[r] # l7[r]
  /\ cL7' = [cL7 EXCEPT ![r] = l7[r]]
  /\ rq' \in Enqueued(rq, {r})
  /\ UNCHANGED <<allocVars, route, svc, l7, disabled, cRoute, cSvc, eRoute, worker, bounds>>

CollectGarbage(r) ==
  /\ route[r] = Gone /\ l7[r] # Absent
  /\ l7' = [l7 EXCEPT ![r] = Absent]
  /\ UNCHANGED <<allocVars, route, svc, disabled, caches, rq, worker, bounds>>

\* ListLoadBalancersAndRoutes leaves out Routes that are being deleted.
Listed(r) == IF Live(route[r]) THEN route[r].services ELSE {}

SyncEnvoy(r) ==
  /\ eRoute[r] # Listed(r)
  /\ eRoute' = [eRoute EXCEPT ![r] = Listed(r)]
  /\ UNCHANGED <<allocVars, route, svc, l7, disabled, cRoute, cSvc, cL7, rq, worker, bounds>>

\* EnvoyCPReconciler: ports for the Routes it lists, disabled ones too.
EnvoyAllocate(r, s) ==
  /\ s \in eRoute[r]
  /\ AllocatePorts(endpointKey(s, r), {PortKey})
  /\ UNCHANGED <<route, svc, l7, disabled, caches, rq, worker, bounds>>

-----------------------------------------------------------------------------
(* RouteReconciler.Reconcile, one worker.                                  *)

Read(r, o, p, t) == cur' = r /\ obj' = o /\ pc' = p /\ todo' = t
Goto(p, t) == pc' = p /\ todo' = t /\ UNCHANGED cur
Idle == Read(Absent, Absent, "idle", {})
Done == Idle /\ UNCHANGED rq
Retry == Idle /\ rq' \in Enqueued(rq, {cur})

\* Mutated form: a Route that is disabled is only skipped.
CleanupIfDeleted(o) == o.fin /\ o.deleting

CleanupNeeded(o) == o.fin /\ (o.deleting \/ disabled)

\* Not in the cache, cleaned up already, or disabled.
Skip ==
  /\ pc = "idle" /\ rq # <<>>
  /\ LET o == cRoute[Head(rq)] IN
       IsObject(o) => ~CleanupNeeded(o) /\ (o.deleting \/ disabled)
  /\ rq' = Tail(rq)
  /\ UNCHANGED <<allocVars, route, svc, l7, disabled, caches, worker, bounds>>

\* The entries whose keys are not those of Services of the spec: of Services it no
\* longer refers to, of bridges, and of Services used as they are.
NotDesired(o) == DOMAIN o.status \ (o.services \X {"service"})

\* The finalizer is stored; the Update fails when the Route has changed.
Begin ==
  LET r == Head(rq)
      o == cRoute[r]
      f == [o EXCEPT !.fin = TRUE]
  IN
  /\ pc = "idle" /\ rq # <<>>
  /\ Live(o) /\ ~disabled
  /\ IF o.fin \/ route[r] = o
       THEN /\ route' = IF o.fin THEN route ELSE [route EXCEPT ![r] = f]
            /\ Read(r, f, "orphans", NotDesired(o)) /\ rq' = Tail(rq)
       ELSE UNCHANGED <<route, worker>> /\ rq' \in Enqueued(Tail(rq), {r})
  /\ UNCHANGED <<allocVars, svc, l7, disabled, caches, bounds>>

\* A bridge stays as long as its Service is recorded; the entries are visited in
\* any order.
BridgeInUse(k) ==
  k[2] = "bridge" /\ \E j \in DOMAIN obj.status : GeneratedName(j) = <<k[1], "service">>

\* cleanupOrphanedServices, one entry.  The endpoint key it releases is made from
\* the generated name, which no entry of the port table has.
cleanupOrphanedServices ==
  /\ pc = "orphans" /\ todo # {}
  /\ \E k \in todo :
       /\ IF BridgeInUse(k) THEN UNCHANGED <<svc, obj>>
          ELSE /\ svc' = [svc EXCEPT ![GeneratedName(k)] = Absent]
               /\ obj' = [obj EXCEPT !.status = Without(@, k)]
       /\ Goto("orphans", todo \ {k})
  /\ UNCHANGED <<allocVars, route, l7, disabled, caches, rq, bounds>>

ManageServices ==
  /\ pc = "orphans" /\ todo = {}
  /\ Goto("allocate", obj.services)
  /\ UNCHANGED <<allocVars, route, svc, l7, disabled, caches, rq, obj, bounds>>

AllocatePortsForRoutes ==
  /\ pc = "allocate"
  /\ IF todo = {} THEN Goto("apply", obj.services \X Parts) /\ UNCHANGED allocVars
     ELSE \E s \in todo : AllocatePorts(endpointKey(s, cur), {PortKey})
                          /\ Goto("allocate", todo \ {s})
  /\ UNCHANGED <<route, svc, l7, disabled, caches, rq, obj, bounds>>

\* The write succeeds when the cache shows the object as it is.
CreateOrUpdateService(g, port) ==
  svc' = IF cSvc[g] = svc[g] THEN [svc EXCEPT ![g] = port] ELSE svc

\* Mutated form: a generated Service is not recorded in the status.
NotRecorded(status, g, port) == status

updateServiceStatus(status, g, port) == With(status, StatusKey(g), port)

\* The bridge first.  An error is logged and recorded, not returned.
ApplyService ==
  /\ pc = "apply" /\ todo # {}
  /\ \E g \in todo :
       /\ g[2] = "service" => <<g[1], "bridge">> \notin todo
       /\ CreateOrUpdateService(g, Target(g[1], cur))
       /\ obj' = [obj EXCEPT !.status = updateServiceStatus(@, g, Target(g[1], cur))]
       /\ Goto("apply", todo \ {g})
  /\ UNCHANGED <<allocVars, route, l7, disabled, caches, rq, bounds>>

\* A merge patch: the entries in which the new status differs from the cached one.
MergePatch(stored, cached, new) ==
  LET dropped == DOMAIN cached \ DOMAIN new
      changed == {g \in DOMAIN new : g \in DOMAIN cached => cached[g] # new[g]}
  IN [g \in (DOMAIN stored \ dropped) \cup changed |-> IF g \in changed THEN new[g] ELSE stored[g]]

\* UpdateRouteStatus; the patch has no resource version and answers with the
\* stored object, with which manageRoutes goes on.
UpdateRouteStatus ==
  LET status == MergePatch(route[cur].status, cRoute[cur].status, obj.status)
      patched == [route EXCEPT ![cur].status = status]
  IN
  /\ pc = "apply" /\ todo = {}
  /\ IF IsObject(cRoute[cur]) /\ IsObject(route[cur])
       THEN route' = patched /\ obj' = patched[cur] /\ Goto("route", {}) /\ UNCHANGED rq
       ELSE UNCHANGED route /\ Retry
  /\ UNCHANGED <<allocVars, svc, l7, disabled, caches, bounds>>

\* CreateOrUpdateIngress and its siblings: the write succeeds when the cache shows
\* the resource as it is.
CreateOrUpdateResource(r, S) ==
  l7' = IF cL7[r] = l7[r] THEN [l7 EXCEPT ![r] = [services |-> S]] ELSE l7

\* The error of a failed write is dropped; the second UpdateRouteStatus leaves the
\* Services as they are.
manageRoutes ==
  /\ pc = "route"
  /\ CreateOrUpdateResource(cur, obj.services)
  /\ IF IsObject(cRoute[cur]) /\ IsObject(route[cur]) THEN Done ELSE Retry
  /\ UNCHANGED <<allocVars, route, svc, disabled, caches, bounds>>

CleanupBegin ==
  /\ pc = "idle" /\ rq # <<>>
  /\ LET o == cRoute[Head(rq)] IN
       /\ IsObject(o) /\ CleanupNeeded(o)
       /\ Read(Head(rq), o, "cleanup", DOMAIN o.status) /\ rq' = Tail(rq)
  /\ UNCHANGED <<allocVars, route, svc, l7, disabled, caches, bounds>>

\* cleanup: the recorded Services, in any order.
CleanupService ==
  /\ pc = "cleanup" /\ todo # {}
  /\ \E k \in todo : /\ svc' = [svc EXCEPT ![GeneratedName(k)] = Absent]
                     /\ Goto("cleanup", todo \ {k})
  /\ UNCHANGED <<allocVars, route, l7, disabled, caches, rq, obj, bounds>>

DeallocatePortsForRoute ==
  /\ pc = "cleanup" /\ todo = {}
  /\ DeallocateEndpoints({endpointKey(s, cur) : s \in obj.services})
  /\ Goto("unfinal", {})
  /\ UNCHANGED <<route, svc, l7, disabled, caches, rq, obj, bounds>>

\* Mutated form: a deleted Route keeps its finalizer.
UnfinalizeOnlyDisabled(o) == IF o.deleting THEN o ELSE [o EXCEPT !.fin = FALSE]

WithoutFinalizer(o) == IF o.deleting THEN Gone ELSE [o EXCEPT !.fin = FALSE]

RemoveFinalizer ==
  /\ pc = "unfinal"
  /\ IF route[cur] = obj THEN route' = [route EXCEPT ![cur] = WithoutFinalizer(@)] /\ Done
     ELSE UNCHANGED route /\ Retry
  /\ UNCHANGED <<allocVars, svc, l7, disabled, caches, bounds>>

\* LoadState, for Routes: the target port recorded under the key of each Service of
\* the spec.  A Service used as it is has no such entry and gets no port here.
LoadState ==
  portLookup' =
    [e \in {x \in EndpointKeys : IsObject(route[x[2]]) /\ x[1] \in route[x[2]].services} |->
       LET status == route[e[2]].status
           recorded == <<e[1], "service">>
       IN [k \in {p \in PortKeys : recorded \in DOMAIN status} |-> status[recorded]]]

\* Both managers start with fresh caches; every Route is queued.
Restart ==
  /\ Event
  /\ LoadState /\ recomputeAvailablePorts /\ UNCHANGED mu
  /\ cRoute' = route /\ cSvc' = svc /\ cL7' = l7 /\ eRoute' = [r \in Routes |-> Listed(r)]
  /\ rq' \in InOrder({r \in Routes : IsObject(route[r])}) /\ Idle
  /\ restarts' = restarts + 1
  /\ UNCHANGED <<route, svc, l7, disabled, updates, toggles>>

RouteReconciler ==
  \/ Skip \/ Begin \/ cleanupOrphanedServices \/ ManageServices \/ AllocatePortsForRoutes
  \/ ApplyService \/ UpdateRouteStatus \/ manageRoutes
  \/ CleanupBegin \/ CleanupService \/ DeallocatePortsForRoute \/ RemoveFinalizer

Init ==
  /\ AllocInit /\ topology \in {"shared", "global"}
  /\ route = [r \in Routes |-> Absent] /\ svc = [g \in Generated |-> Absent]
  /\ l7 = [r \in Routes |-> Absent] /\ disabled = FALSE
  /\ cRoute = route /\ cSvc = svc /\ cL7 = l7 /\ eRoute = [r \in Routes |-> {}]
  /\ rq = <<>> /\ pc = "idle" /\ cur = Absent /\ obj = Absent /\ todo = {}
  /\ updates = 0 /\ toggles = 0 /\ restarts = 0

Environment ==
  \/ \E r \in Routes : CreateRoute(r) \/ UpdateRoute(r) \/ DeleteRoute(r)
  \/ ToggleDisable \/ Restart

Informers ==
  \/ Resync \/ \E g \in Generated : SyncService(g)
  \/ \E r \in Routes : SyncRoute(r) \/ SyncResource(r) \/ SyncEnvoy(r) \/ CollectGarbage(r)

EnvoyReconciler == \E r \in Routes, s \in Svcs : EnvoyAllocate(r, s)

Next == Environment \/ Informers \/ EnvoyReconciler \/ RouteReconciler

Spec == Init /\ [][Next /\ UNCHANGED topology]_<<vars, topology>>

\* Informers, the garbage collector and the reconcilers run.  Nothing is assumed of
\* the CCM, of administrators or of restarts.
Fairness ==
  /\ WF_vars(Resync) /\ \A g \in Generated : WF_vars(SyncService(g))
  /\ \A r \in Routes : /\ WF_vars(SyncRoute(r)) /\ WF_vars(SyncResource(r))
                       /\ WF_vars(SyncEnvoy(r)) /\ WF_vars(CollectGarbage(r))
  /\ WF_vars(EnvoyReconciler) /\ WF_vars(RouteReconciler)

FairSpec == Spec /\ Fairness

-----------------------------------------------------------------------------
\* The values of the API objects, the caches, the queue and the worker.
TypeOK ==
  /\ AllocTypeOK /\ topology \in {"shared", "global"}
  /\ route \in [Routes -> Objects \cup {Absent, Gone}]
  /\ cRoute \in [Routes -> Objects \cup {Absent, Gone}]
  /\ eRoute \in [Routes -> SUBSET Svcs] /\ disabled \in BOOLEAN
  /\ svc \in [Generated -> Ports \cup {Absent}] /\ cSvc \in [Generated -> Ports \cup {Absent}]
  /\ l7 \in [Routes -> Resources \cup {Absent}] /\ cL7 \in [Routes -> Resources \cup {Absent}]
  /\ rq \in Seq(Routes) /\ cur \in Routes \cup {Absent} /\ obj \in Objects \cup {Absent}
  /\ pc \in {"idle", "orphans", "allocate", "apply", "route", "cleanup", "unfinal"}
  /\ todo \subseteq Svcs \cup StatusKeys

\* A Service whose port a restart finds in the status, or no restart has come yet.
Remembered(s) == s \in AsIs => restarts = 0

\* While no spec changes and nothing is switched off, what a Route's status records
\* stays recorded, with the same listener port: through reconciliations from stale
\* caches, the Envoy reconciler's allocations, another Route's cleanup and restarts
\* at any point, before or after the port was recorded.  A Service used as it is
\* keeps its entry and can get another port after a restart: it is recorded under a
\* key by which LoadState does not look it up.
RecordedServicesKept ==
  updates' = 0 /\ toggles' = 0 =>
    \A r \in Routes : IsObject(route[r]) /\ IsObject(route'[r]) =>
      \A k \in DOMAIN route[r].status :
        /\ k \in DOMAIN route'[r].status
        /\ Remembered(k[1])' => route'[r].status[k] = route[r].status[k]
RecordedServiceStable == [][RecordedServicesKept]_vars

Uses(r, s) == Live(route[r]) /\ s \in route[r].services

\* The generated Service has the listener port of a Route that uses it.
Serves(g) == \E q \in Routes : Uses(q, g[1]) /\ svc[g] = Target(g[1], q)

\* For a live, enabled Route the generated resource ends up as the spec has it, and
\* every Service it refers to recorded in its status and generated, in all its parts,
\* with the listener port of one of the Routes that use it - also when another
\* Route's cleanup has deleted it.  Errors of the writes are dropped.  A Service used
\* as it is does not come to rest: every reconciliation takes it for orphaned and
\* deletes it before it generates it again, which fails on a stale cache.  Each of its
\* parts is back again and again.
Converges ==
  /\ <>[](~disabled => \A r \in Routes :
            /\ Live(route[r]) => l7[r] = [services |-> route[r].services]
            /\ \A s \in Svcs : Uses(r, s) => \A p \in Parts :
                 /\ StatusKey(<<s, p>>) \in DOMAIN route[r].status
                 /\ s \notin AsIs => Serves(<<s, p>>))
  /\ \A g \in AsIs \X {"service", "bridge"} :
       []<>(~disabled /\ g[2] \in Parts /\ (\E r \in Routes : Uses(r, g[1])) => Serves(g))

\* A deleted Route goes away, and with it the resource generated from it.
DeletionCompletes ==
  <>[](\A r \in Routes : IsObject(route[r]) => ~route[r].deleting)
  /\ <>[](\A r \in Routes : route[r] = Gone => l7[r] = Absent)

\* A Service that no enabled Route refers to is left only when a spec change, a
\* restart or a second switch of disable came between its creation and its entry in
\* the status of a Route with a finalizer.
LeftNothing ==
  <>[](updates = 0 /\ restarts = 0 /\ toggles < 2 =>
         \A g \in Generated :
           svc[g] # Absent => ~disabled /\ \E r \in Routes : Uses(r, g[1]))

\* "We need to take care of removing the services while ensuring that the services
\* are not being used by other routes": cleanup deletes no Service that another
\* live, enabled Route refers to.
KeepsSharedServices ==
  [][pc = "cleanup" /\ ~disabled =>
       \A g \in Generated : svc[g] # Absent /\ svc'[g] = Absent =>
         \A r \in Routes \ {cur} : ~Uses(r, g[1])]_vars

\* "Service is not desired, so delete it": cleanupOrphanedServices deletes no Service
\* that the Route's spec refers to.
OrphansOnly ==
  [][pc = "orphans" =>
       \A g \in Generated : svc[g] # Absent /\ svc'[g] = Absent => g[1] \notin obj.services]_vars
==============================================================================
