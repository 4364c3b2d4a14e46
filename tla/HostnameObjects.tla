--------------------------- MODULE HostnameObjects ---------------------------
(***************************************************************************)
(* The hostname of a LoadBalancer: configureHostname publishes it in the    *)
(* status and creates an Ingress or an HTTPRoute for it; cleanup removes    *)
(* them.  LoadBalancerManager has the Service and the ports of the same     *)
(* reconciler.                                                              *)
(*                                                                          *)
(* A hostname is <<"spec", n>> when the tenant has chosen it, and           *)
(* <<"random", n>> when it was generated: a name that is not in use.  The   *)
(* version of an object is its value.                                       *)
(***************************************************************************)
EXTENDS Naturals

CONSTANTS HostnameSettings,    \* settings of Tenant and Config
          SpecHosts,           \* values of spec.hostname
          NoLB, GoneLB,        \* a LoadBalancer before and after its life
          NoRoute,             \* an Ingress or HTTPRoute that does not exist
          Inherit,             \* a field that the Tenant leaves to the Config
          MaxHostSettings,     \* bound: changes of settings
          MaxIncidents         \* bound: changes of spec.hostname, and restarts

ASSUME HostBounds == {MaxHostSettings, MaxIncidents} \subseteq Nat

VARIABLES lb, cLB,             \* the LoadBalancer: API server and cache
          route, cRoute,       \* kind -> hostname it serves: API server and cache
          settings,            \* Tenant and Config
          topology,            \* "shared" or "global"; never changes
          lbQueued,            \* the LoadBalancer is in the work queue
          at, mine, using, hostname, \* worker: step, its LoadBalancer, settings, hostname
          hostSettings, incidents

hostAPI == <<lb, route>>
hostCache == <<cLB, cRoute>>
hostWorker == <<at, mine, using, hostname>>
hostBounds == <<hostSettings, incidents>>
hostVars == <<hostAPI, hostCache, settings, topology, lbQueued, hostWorker, hostBounds>>

NoHost == <<"none", 0>>
RouteKinds == {"Ingress", "HTTPRoute"}
Exists(o) == o \notin {NoLB, GoneLB}
Alive(o) == Exists(o) /\ ~o.deleting

\* An object that is deleted goes when it has no finalizer left.
Unfinalized(o) == IF o.deleting /\ ~o.fin /\ ~o.hostFin THEN GoneLB ELSE o

-----------------------------------------------------------------------------
(* Tenants, administrators and the API server.                             *)

CreateLB(h) ==
  /\ lb = NoLB
  /\ lb' = [spec |-> h, status |-> NoHost, fin |-> FALSE, hostFin |-> FALSE, deleting |-> FALSE]
  /\ UNCHANGED <<route, hostCache, settings, topology, lbQueued, hostWorker, hostBounds>>

ChangeHost(h) ==
  /\ Alive(lb) /\ h # lb.spec /\ incidents < MaxIncidents
  /\ lb' = [lb EXCEPT !.spec = h] /\ incidents' = incidents + 1
  /\ UNCHANGED <<route, hostCache, settings, topology, lbQueued, hostWorker, hostSettings>>

DeleteLB ==
  /\ Alive(lb)
  /\ lb' = Unfinalized([lb EXCEPT !.deleting = TRUE])
  /\ UNCHANGED <<route, hostCache, settings, topology, lbQueued, hostWorker, hostBounds>>

\* Events of Tenant and Config enqueue the LoadBalancers of the cache.
ChangeHostSettings(s) ==
  /\ s # settings /\ hostSettings < MaxHostSettings
  /\ settings' = s /\ hostSettings' = hostSettings + 1
  /\ lbQueued' = (lbQueued \/ Exists(cLB))
  /\ UNCHANGED <<hostAPI, hostCache, topology, hostWorker, incidents>>

\* Ingress and HTTPRoute have the LoadBalancer as their controller.
CollectRoute(k) ==
  /\ lb = GoneLB /\ route[k] # NoRoute
  /\ route' = [route EXCEPT ![k] = NoRoute]
  /\ UNCHANGED <<lb, hostCache, settings, topology, lbQueued, hostWorker, hostBounds>>

SyncLB ==
  /\ cLB # lb
  /\ cLB' = lb /\ lbQueued' = TRUE
  /\ UNCHANGED <<hostAPI, cRoute, settings, topology, hostWorker, hostBounds>>

\* Nobody watches Ingress and HTTPRoute here.
SyncRoute(k) ==
  /\ cRoute[k] # route[k]
  /\ cRoute' = [cRoute EXCEPT ![k] = route[k]]
  /\ UNCHANGED <<hostAPI, cLB, settings, topology, lbQueued, hostWorker, hostBounds>>

\* The informer delivers every LoadBalancer again from time to time.
ResyncLB ==
  /\ Exists(cLB) /\ ~lbQueued
  /\ lbQueued' = TRUE
  /\ UNCHANGED <<hostAPI, hostCache, settings, topology, hostWorker, hostBounds>>

-----------------------------------------------------------------------------
(* LoadBalancerReconciler.                                                 *)

Stop == at' = "idle" /\ mine' = NoLB /\ using' = Inherit /\ hostname' = NoHost
StopDone == Stop /\ UNCHANGED lbQueued
StopRetry == Stop /\ lbQueued' = TRUE
GoTo(step, o, h) == at' = step /\ mine' = o /\ hostname' = h /\ UNCHANGED <<using, lbQueued>>

\* An update is refused unless the object is the one that was read.
SameVersion(o) == lb = o

\* Update the LoadBalancer and continue with the result, or retry.
Store(o, step, h) ==
  IF SameVersion(mine) THEN lb' = o /\ GoTo(step, o, h) ELSE UNCHANGED lb /\ StopRetry

\* Reconcile up to the finalizer.
ReconcileLB ==
  /\ at = "idle" /\ lbQueued
  /\ lbQueued' = FALSE
  /\ IF ~Exists(cLB) \/ (IF cLB.deleting THEN ~cLB.fin /\ ~cLB.hostFin ELSE settings.off /\ ~cLB.fin)
       THEN UNCHANGED hostWorker
       ELSE /\ at' = IF cLB.deleting \/ settings.off THEN "delete Ingress"
                     ELSE IF cLB.fin THEN "hostname" ELSE "finalizer"
            /\ mine' = cLB /\ using' = settings /\ hostname' = NoHost
  /\ UNCHANGED <<hostAPI, hostCache, settings, topology, hostBounds>>

StoreCleanupFinalizer ==
  /\ at = "finalizer"
  /\ Store([mine EXCEPT !.fin = TRUE], "hostname", NoHost)
  /\ UNCHANGED <<route, hostCache, settings, topology, hostBounds>>

\* Explicit hostnames must be allowed, generated ones need a domain: by the Tenant,
\* or by the Config if the Tenant says nothing.
ShouldConfigureHostname(s) == IF s.tenant = Inherit THEN s.config ELSE s.tenant

HostsInUse ==
  {route[k] : k \in RouteKinds} \cup {cRoute[k] : k \in RouteKinds}
    \cup {o.status : o \in {l \in {lb, cLB, mine} : Exists(l)}}

RandomHost ==
  <<"random", CHOOSE n \in 1..8 : /\ <<"random", n>> \notin HostsInUse
                                  /\ \A m \in 1..(n - 1) : <<"random", m>> \in HostsInUse>>

\* The hostname of the spec, a new random one, or none if the domain is not valid.
GenerateHostname(o, s) ==
  IF o.spec # NoHost THEN o.spec ELSE IF s.valid THEN RandomHost ELSE NoHost

\* Mutated form: a change of the hostname in the spec is followed.
FollowsSpec(o) == o.status # NoHost /\ o.spec \in {NoHost, o.status}

\* A hostname that is in the status stays.
HasHostname(o) == o.status # NoHost

\* Another one is stored there first.
configureHostname ==
  LET h == GenerateHostname(mine, using) IN
  /\ at = "hostname"
  /\ IF ~ShouldConfigureHostname(using) \/ (~HasHostname(mine) /\ h = NoHost)
       THEN UNCHANGED lb /\ GoTo("status", mine, NoHost)
     ELSE IF HasHostname(mine)
       THEN UNCHANGED lb /\ GoTo("host finalizer", mine, mine.status)
     ELSE Store([mine EXCEPT !.status = h], "host finalizer", h)
  /\ UNCHANGED <<route, hostCache, settings, topology, hostBounds>>

AddHostnameFinalizer ==
  /\ at = "host finalizer"
  /\ IF mine.hostFin THEN UNCHANGED lb /\ GoTo("object", mine, hostname)
     ELSE Store([mine EXCEPT !.hostFin = TRUE], "object", hostname)
  /\ UNCHANGED <<route, hostCache, settings, topology, hostBounds>>

\* Mutated form: an object that exists is not updated.
RouteExists(k) == cRoute[k] # NoRoute

RouteIsCurrent(k) == cRoute[k] = hostname

\* CreateIngressForHostname or CreateHTTPRouteForHostname, which needs a gateway.
CreateRouteForHostname ==
  LET k == using.way IN
  /\ at = "object"
  /\ IF k \notin RouteKinds \/ (~RouteIsCurrent(k) /\ route[k] # cRoute[k])
       THEN UNCHANGED route /\ StopRetry
     ELSE /\ route' = IF RouteIsCurrent(k) THEN route ELSE [route EXCEPT ![k] = hostname]
          /\ GoTo("status", mine, hostname)
  /\ UNCHANGED <<lb, hostCache, settings, topology, hostBounds>>

\* A merge patch of the difference to the cached status, without a version.
updateLoadBalancerStatus ==
  /\ at = "status"
  /\ IF mine.status = hostname THEN UNCHANGED lb /\ StopDone
     ELSE IF ~Exists(cLB) \/ ~Exists(lb) THEN UNCHANGED lb /\ StopRetry
     ELSE /\ lb' = IF cLB.status = hostname THEN lb ELSE [lb EXCEPT !.status = hostname]
          /\ StopDone
  /\ UNCHANGED <<route, hostCache, settings, topology, hostBounds>>

\* Mutated form: the routes are left to the garbage collector.
LeaveRoute(k) == UNCHANGED route

\* cleanupHostnameResources looks in the namespace of the Envoy Services, which in
\* the global topology is not the one the objects are in.
DeleteRoute(k) ==
  route' = IF mine.hostFin /\ topology = "shared" THEN [route EXCEPT ![k] = NoRoute] ELSE route

CleanupHostname(step, k, next) ==
  /\ at = step
  /\ DeleteRoute(k) /\ GoTo(next, mine, NoHost)
  /\ UNCHANGED <<lb, hostCache, settings, topology, hostBounds>>

RemoveFinalizers ==
  LET o == Unfinalized([mine EXCEPT !.fin = FALSE, !.hostFin = FALSE]) IN
  /\ at = "unfinalize"
  /\ IF SameVersion(mine) THEN lb' = o /\ StopDone ELSE UNCHANGED lb /\ StopRetry
  /\ UNCHANGED <<route, hostCache, settings, topology, hostBounds>>

LBWorker ==
  \/ ReconcileLB \/ StoreCleanupFinalizer \/ configureHostname \/ AddHostnameFinalizer
  \/ CreateRouteForHostname \/ updateLoadBalancerStatus
  \/ CleanupHostname("delete Ingress", "Ingress", "delete HTTPRoute")
  \/ CleanupHostname("delete HTTPRoute", "HTTPRoute", "unfinalize")
  \/ RemoveFinalizers

\* The new process has a full cache and reconciles everything.
HostRestart ==
  /\ incidents < MaxIncidents
  /\ incidents' = incidents + 1
  /\ cLB' = lb /\ cRoute' = route /\ Stop /\ lbQueued' = Exists(lb)
  /\ UNCHANGED <<hostAPI, settings, topology, hostSettings>>

HostInit ==
  /\ lb = NoLB /\ cLB = NoLB
  /\ route = [k \in RouteKinds |-> NoRoute] /\ cRoute = [k \in RouteKinds |-> NoRoute]
  /\ settings \in HostnameSettings /\ topology \in {"shared", "global"} /\ lbQueued = FALSE
  /\ at = "idle" /\ mine = NoLB /\ using = Inherit /\ hostname = NoHost
  /\ hostSettings = 0 /\ incidents = 0

HostEnvironment ==
  \/ \E h \in SpecHosts : CreateLB(h) \/ ChangeHost(h)
  \/ DeleteLB
  \/ \E s \in HostnameSettings : ChangeHostSettings(s)

HostInformers == SyncLB \/ \E k \in RouteKinds : SyncRoute(k)

HostNext ==
  \/ HostEnvironment \/ HostInformers \/ ResyncLB \/ LBWorker \/ HostRestart
  \/ \E k \in RouteKinds : CollectRoute(k)

HostSpec == HostInit /\ [][HostNext]_hostVars

\* The informers deliver and resync, the worker runs and the garbage is collected.
HostFairness ==
  /\ WF_hostVars(SyncLB) /\ WF_hostVars(ResyncLB) /\ WF_hostVars(LBWorker)
  /\ \A k \in RouteKinds : WF_hostVars(SyncRoute(k)) /\ WF_hostVars(CollectRoute(k))

-----------------------------------------------------------------------------
\* A hostname that tenants can see in the status is not replaced by another one:
\* random names are drawn from a stale copy of the LoadBalancer too, and must not
\* reach the status then.
HostnameKept ==
  Exists(lb) /\ Exists(lb') /\ lb.status # NoHost /\ lb'.status # NoHost
    => lb'.status = lb.status

\* HostnameKept holds of every step.
HostnameStable == [][HostnameKept]_hostVars

\* A LoadBalancer that may have a hostname gets one in the end, and the object of the
\* configured kind serves it; one that may not has none in its status.
HostnameServed ==
  <>[](Alive(lb) /\ ~settings.off /\ settings.way \in RouteKinds =>
         IF ShouldConfigureHostname(settings) /\ (settings.valid \/ lb.spec # NoHost)
           THEN lb.status # NoHost /\ route[settings.way] = lb.status
         ELSE ~ShouldConfigureHostname(settings) => lb.status = NoHost)

\* A hostname is not served for ever after its LoadBalancer is gone or, in the shared
\* topology, disabled.
HostnameRemoved ==
  <>[](lb = GoneLB \/ (Exists(lb) /\ topology = "shared" /\ settings.off)
         => \A k \in RouteKinds : route[k] = NoRoute)
==============================================================================
