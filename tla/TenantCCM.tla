------------------------------ MODULE TenantCCM ------------------------------
(***************************************************************************)
(* The CCM of a tenant cluster: for every Service of type LoadBalancer a   *)
(* LoadBalancer, for every Ingress, Gateway, HTTPRoute and GRPCRoute a     *)
(* Route in the load balancing cluster, named after the source's UID.      *)
(* Each kind has its own controller with one worker.  Here is one source,  *)
(* of any kind.                                                            *)
(*                                                                         *)
(* An Ingress, HTTPRoute or GRPCRoute refers to a ClusterIP Service, which *)
(* the CCM replicates as a NodePort Service.  Sources that refer to the    *)
(* same Service share the replica; what the controllers of other sources   *)
(* do to it is an action of its own.  The manager of the load balancing    *)
(* cluster is reduced to the status it reports and to the removal of a     *)
(* deleted target.                                                         *)
(***************************************************************************)
EXTENDS Naturals

CONSTANTS Kinds,      \* the kinds of sources
          Absent,     \* an object that does not exist
          Gone,       \* a source that has been removed
          MaxEvents   \* bound: changes of spec and class, what others do, and restarts

VARIABLES kind,     \* the kind of the source
          src,      \* tenant cluster: the source
          replica,  \* tenant cluster: the NodePort Service exists
          tgt,      \* load balancing cluster: its LoadBalancer or Route
          cSrc, cReplica, cTgt,   \* caches of the two clusters
          queued,   \* the source is in the work queue
          pc, obj, act,   \* the worker: step, source read, target read
          unseen,   \* history: cleaned up while the Route was not in the cache
          events

api == <<src, replica, tgt>>
caches == <<cSrc, cReplica, cTgt>>
worker == <<pc, obj, act>>
vars == <<kind, api, caches, queued, worker, unseen, events>>

SourceObjects == [rev : 0..MaxEvents, class : BOOLEAN, fin : BOOLEAN, deleting : BOOLEAN,
                  status : BOOLEAN]
\* A Route's status names no resource yet, or has the status of its resource, which
\* is empty or has addresses.  A LoadBalancer's status is empty or has addresses.
TargetObjects == [rev : 0..MaxEvents, ready : BOOLEAN, deleting : BOOLEAN,
                  status : {"none", "empty", "set"}]

ASSUME BoundAssumption == MaxEvents \in Nat
ASSUME KindsAssumption == Kinds \subseteq {"Service", "Ingress", "Gateway", "HTTPRoute", "GRPCRoute"}
ASSUME MarkersAssumption ==
  Absent # Gone /\ {Absent, Gone} \cap (SourceObjects \cup TargetObjects) = {}

IsObject(o) == o \notin {Absent, Gone}
Live(o) == IsObject(o) /\ ~o.deleting
UsesServices == kind \notin {"Service", "Gateway"}

-----------------------------------------------------------------------------
(* The tenant, and what the load balancing cluster does with a target.     *)

Event == events < MaxEvents /\ events' = events + 1

CreateSource ==
  /\ src = Absent
  /\ src' = [rev |-> 0, class |-> TRUE, fin |-> FALSE, deleting |-> FALSE, status |-> FALSE]
  /\ UNCHANGED <<kind, replica, tgt, caches, queued, worker, unseen, events>>

UpdateSource ==
  /\ Event /\ Live(src)
  /\ src' = [src EXCEPT !.rev = @ + 1]
  /\ UNCHANGED <<kind, replica, tgt, caches, queued, worker, unseen>>

\* The source's class or, for routes, its parent Gateway is no longer KubeLB's.
ChangeClass ==
  /\ Event /\ Live(src)
  /\ src' = [src EXCEPT !.class = ~@]
  /\ UNCHANGED <<kind, replica, tgt, caches, queued, worker, unseen>>

DeleteSource ==
  /\ Live(src)
  /\ src' = IF src.fin THEN [src EXCEPT !.deleting = TRUE] ELSE Gone
  /\ UNCHANGED <<kind, replica, tgt, caches, queued, worker, unseen, events>>

\* Somebody else deletes a target.
DeleteTarget ==
  /\ Event /\ Live(tgt)
  /\ tgt' = [tgt EXCEPT !.deleting = TRUE]
  /\ UNCHANGED <<kind, src, replica, caches, queued, worker, unseen>>

\* The cleanup of another source deletes the replica, or its reconciliation
\* creates it.
OtherSource ==
  /\ Event /\ UsesServices
  /\ replica' = ~replica
  /\ UNCHANGED <<kind, src, tgt, caches, queued, worker, unseen>>

ReportStatus ==
  /\ Live(tgt) /\ tgt.status # "set"
  /\ \E s \in {"empty", "set"} \ {tgt.status} : tgt' = [tgt EXCEPT !.status = s]
  /\ UNCHANGED <<kind, src, replica, caches, queued, worker, unseen, events>>

\* The addresses are lost, as when the resource is created again.
LoseStatus ==
  /\ Event /\ Live(tgt) /\ tgt.status = "set"
  /\ tgt' = [tgt EXCEPT !.status = "empty"]
  /\ UNCHANGED <<kind, src, replica, caches, queued, worker, unseen>>

RemoveTarget ==
  /\ IsObject(tgt) /\ tgt.deleting
  /\ tgt' = Absent
  /\ UNCHANGED <<kind, src, replica, caches, queued, worker, unseen, events>>

-----------------------------------------------------------------------------
(* Informers of both clusters.                                             *)

\* resourceFilter looks at the new object; Services are not filtered.
resourceFilter(o) == kind = "Service" \/ o.class

\* A removed source was last seen in the cache.
SyncSource ==
  /\ cSrc # src
  /\ cSrc' = src
  /\ LET o == IF IsObject(src) THEN src ELSE cSrc IN
       queued' = (queued \/ (IsObject(o) /\ resourceFilter(o)))
  /\ UNCHANGED <<kind, api, cReplica, cTgt, worker, unseen, events>>

\* enqueueLoadBalancer, enqueueRoutes: by the labels of the target, whatever the
\* class of the source.
SyncTarget ==
  /\ cTgt # tgt
  /\ cTgt' = tgt
  /\ queued' = TRUE
  /\ UNCHANGED <<kind, api, cSrc, cReplica, worker, unseen, events>>

\* A source in the cache that refers to the Service is enqueued.
enqueueResources == UsesServices /\ IsObject(cSrc) /\ cSrc.class

SyncReplica ==
  /\ cReplica # replica
  /\ cReplica' = replica
  /\ queued' = (queued \/ enqueueResources)
  /\ UNCHANGED <<kind, api, cSrc, cTgt, worker, unseen, events>>

\* Every ten hours each informer delivers what it has.
Delivered(source, target) ==
  IsObject(target) \/ (IsObject(source) /\ resourceFilter(source))

Resync ==
  /\ Delivered(cSrc, cTgt) /\ ~queued
  /\ queued' = TRUE
  /\ UNCHANGED <<kind, api, caches, worker, unseen, events>>

-----------------------------------------------------------------------------
(* Reconcile, the part all controllers share.                              *)

Step(p, o, a) == pc' = p /\ obj' = o /\ act' = a
Goto(p) == Step(p, obj, act) /\ UNCHANGED queued
Done == Step("idle", Absent, Absent) /\ UNCHANGED queued
Retry == Step("idle", Absent, Absent) /\ queued' = TRUE
Started == pc = "idle" /\ queued /\ queued' = FALSE

\* Not found, cleaned up already, or not KubeLB's (any more).
Skip ==
  /\ Started
  /\ IsObject(cSrc) => IF cSrc.deleting THEN ~cSrc.fin ELSE ~cSrc.class
  /\ UNCHANGED <<kind, api, caches, worker, unseen, events>>

\* The finalizer is stored.  On a conflict the request stays queued and nothing has
\* changed, so this waits for the cache.
Begin ==
  LET o == [cSrc EXCEPT !.fin = TRUE] IN
  /\ Started
  /\ Live(cSrc) /\ cSrc.class
  /\ cSrc.fin \/ src = cSrc
  /\ src' = IF cSrc.fin THEN src ELSE o
  /\ Step(IF UsesServices THEN "services" ELSE "target", o, Absent)
  /\ UNCHANGED <<kind, replica, tgt, caches, unseen, events>>

CleanupBegin ==
  /\ Started
  /\ IsObject(cSrc) /\ cSrc.deleting /\ cSrc.fin
  /\ Step(IF UsesServices THEN "delete services" ELSE "delete target", cSrc, Absent)
  /\ UNCHANGED <<kind, api, caches, unseen, events>>

\* Mutated form: the finalizer stays.
FinalizerKept(o) == o

WithoutFinalizer(o) == IF o.deleting THEN Gone ELSE [o EXCEPT !.fin = FALSE]

RemoveFinalizer ==
  /\ pc = "unfinal"
  /\ IF src = obj THEN src' = WithoutFinalizer(src) /\ Done
     ELSE UNCHANGED src /\ Retry
  /\ UNCHANGED <<kind, replica, tgt, caches, unseen, events>>

New(o, ready) == [rev |-> o.rev, ready |-> ready, deleting |-> FALSE, status |-> "none"]

\* Mutated form: addresses once written stay.
AddressesKept(o, a) == o.status \/ a.status = "set"

NewStatus(o, a) == a.status = "set"

-----------------------------------------------------------------------------
(* KubeLBServiceReconciler.                                                *)

\* Create when the cache has no LoadBalancer; it may exist by now.
CreateLoadBalancer ==
  /\ pc = "target" /\ cTgt = Absent
  /\ IF tgt = Absent THEN tgt' = New(obj, TRUE) /\ Done
     ELSE UNCHANGED tgt /\ Retry
  /\ UNCHANGED <<kind, src, replica, caches, unseen, events>>

\* The LoadBalancer's status is written to the Service when it differs from the one
\* read; the Update fails when the Service in the cache is not the stored one.
UpdateServiceStatus ==
  /\ pc = "target" /\ cTgt # Absent
  /\ IF NewStatus(obj, cTgt) = obj.status
       THEN UNCHANGED <<src, queued>> /\ Step("update", obj, cTgt)
     ELSE IF IsObject(cSrc) /\ src = cSrc
       THEN /\ src' = [src EXCEPT !.status = NewStatus(src, cTgt)]
            /\ UNCHANGED queued /\ Step("update", obj, cTgt)
     ELSE UNCHANGED src /\ Retry
  /\ UNCHANGED <<kind, replica, tgt, caches, unseen, events>>

\* Mutated form: an existing LoadBalancer is taken to be right.
LoadBalancerExists(a, o) == TRUE

LoadBalancerIsDesiredState(a, o) == a.rev = o.rev

UpdateLoadBalancer ==
  /\ pc = "update"
  /\ IF LoadBalancerIsDesiredState(act, obj) THEN UNCHANGED tgt /\ Done
     ELSE IF tgt = act THEN tgt' = [tgt EXCEPT !.rev = obj.rev] /\ Done
     ELSE UNCHANGED tgt /\ Retry
  /\ UNCHANGED <<kind, src, replica, caches, unseen, events>>

\* cleanupService deletes by name, without looking into the cache.
cleanupService ==
  /\ pc = "delete target"
  /\ tgt' = IF tgt = Absent THEN tgt ELSE [tgt EXCEPT !.deleting = TRUE]
  /\ Goto("unfinal")
  /\ UNCHANGED <<kind, src, replica, caches, unseen, events>>

KubeLBServiceReconciler ==
  /\ kind = "Service"
  /\ \/ Skip \/ Begin \/ CleanupBegin \/ RemoveFinalizer
     \/ CreateLoadBalancer \/ UpdateServiceStatus \/ UpdateLoadBalancer \/ cleanupService

-----------------------------------------------------------------------------
(* The reconcilers of Ingresses, Gateways, HTTPRoutes and GRPCRoutes.      *)

\* NormalizeAndReplicateServices: the replica is created, or updated without a
\* change; either fails when the cache is behind.
ReplicateServices ==
  /\ pc = "services"
  /\ IF cReplica = replica THEN replica' = TRUE /\ Goto("target")
     ELSE UNCHANGED replica /\ Retry
  /\ UNCHANGED <<kind, src, tgt, caches, unseen, events>>

\* GenerateRoute: without the replica as long as the cache does not show it.
GenerateRoute == New(obj, UsesServices => cReplica)

SameRoute(a, b) == <<a.rev, a.ready>> = <<b.rev, b.ready>>

CreateUpdateRoute ==
  LET new == GenerateRoute IN
  /\ pc = "target"
  /\ IF IsObject(cTgt) /\ SameRoute(cTgt, new) THEN UNCHANGED tgt /\ Goto("status")
     ELSE IF tgt = cTgt
       THEN /\ tgt' = IF cTgt = Absent THEN new
                      ELSE [tgt EXCEPT !.rev = new.rev, !.ready = new.ready]
            /\ Goto("status")
     ELSE UNCHANGED tgt /\ Retry
  /\ UNCHANGED <<kind, src, replica, caches, unseen, events>>

\* The status is patched once the Route names its resource: an empty one too, as the
\* comparison with the default is one of an encoded with a plain text.  Route and
\* source are read from the cache, where the Route just created is usually missing.
UpdateSourceStatus ==
  LET patched == cTgt.status # "none" /\ NewStatus(cSrc, cTgt) # cSrc.status IN
  /\ pc = "status"
  /\ IF cTgt = Absent \/ (cTgt.status # "none" /\ ~IsObject(cSrc)) THEN UNCHANGED src /\ Retry
     ELSE IF ~patched THEN UNCHANGED src /\ Done
     ELSE IF IsObject(src) THEN src' = [src EXCEPT !.status = NewStatus(cSrc, cTgt)] /\ Done
     ELSE UNCHANGED src /\ Retry
  /\ UNCHANGED <<kind, replica, tgt, caches, unseen, events>>

\* cleanup: the replica the cache shows is deleted, whoever else refers to it; one
\* that is gone already is an error.
CleanupServices ==
  /\ pc = "delete services"
  /\ IF cReplica /\ ~replica THEN UNCHANGED replica /\ Retry
     ELSE replica' = (replica /\ ~cReplica) /\ Goto("delete target")
  /\ UNCHANGED <<kind, src, tgt, caches, unseen, events>>

\* Mutated form: the Route is left to others.
RouteKept(o) == o

RouteDeleted(o) == [o EXCEPT !.deleting = TRUE]

\* cleanupRoute: a Route the cache does not show counts as deleted.
cleanupRoute ==
  /\ pc = "delete target"
  /\ IF cTgt = Absent
       THEN /\ unseen' = (unseen \/ tgt # Absent)
            /\ UNCHANGED tgt /\ Goto("unfinal")
     ELSE /\ UNCHANGED unseen
          /\ IF tgt = Absent THEN UNCHANGED tgt /\ Retry
             ELSE tgt' = RouteDeleted(tgt) /\ Goto("unfinal")
  /\ UNCHANGED <<kind, src, replica, caches, events>>

\* Gateways refer to no Services.
GatewayReconciler ==
  /\ kind = "Gateway"
  /\ \/ Skip \/ Begin \/ CleanupBegin \/ RemoveFinalizer
     \/ CreateUpdateRoute \/ UpdateSourceStatus \/ cleanupRoute

RouteWithServices ==
  \/ Skip \/ Begin \/ CleanupBegin \/ RemoveFinalizer
  \/ ReplicateServices \/ CreateUpdateRoute \/ UpdateSourceStatus
  \/ CleanupServices \/ cleanupRoute

IngressReconciler == kind = "Ingress" /\ RouteWithServices
HTTPRouteReconciler == kind = "HTTPRoute" /\ RouteWithServices
GRPCRouteReconciler == kind = "GRPCRoute" /\ RouteWithServices

Reconcile ==
  \/ KubeLBServiceReconciler \/ GatewayReconciler
  \/ IngressReconciler \/ HTTPRouteReconciler \/ GRPCRouteReconciler

-----------------------------------------------------------------------------
\* The CCM starts again: fresh caches, everything listed is delivered.
Restart ==
  /\ Event
  /\ cSrc' = src /\ cReplica' = replica /\ cTgt' = tgt
  /\ queued' = Delivered(src, tgt) /\ Step("idle", Absent, Absent)
  /\ UNCHANGED <<kind, api, unseen>>

Init ==
  /\ kind \in Kinds
  /\ src = Absent /\ replica = FALSE /\ tgt = Absent
  /\ cSrc = src /\ cReplica = replica /\ cTgt = tgt
  /\ queued = FALSE /\ pc = "idle" /\ obj = Absent /\ act = Absent
  /\ unseen = FALSE /\ events = 0

Environment ==
  \/ CreateSource \/ UpdateSource \/ ChangeClass \/ DeleteSource
  \/ DeleteTarget \/ ReportStatus \/ LoseStatus \/ OtherSource \/ Restart

Informers == SyncSource \/ SyncTarget \/ SyncReplica \/ Resync

Next == Environment \/ RemoveTarget \/ Informers \/ Reconcile

Spec == Init /\ [][Next]_vars

\* Informers and the worker run, and the manager removes a deleted target.  Nothing
\* is assumed of the tenant, of the reported status or of restarts.
Fairness ==
  /\ WF_vars(SyncSource) /\ WF_vars(SyncTarget) /\ WF_vars(SyncReplica) /\ WF_vars(Resync)
  /\ WF_vars(Reconcile) /\ WF_vars(RemoveTarget)

FairSpec == Spec /\ Fairness

-----------------------------------------------------------------------------
\* The values of the objects, the caches and the worker.
TypeOK ==
  /\ kind \in Kinds
  /\ src \in SourceObjects \cup {Absent, Gone} /\ cSrc \in SourceObjects \cup {Absent, Gone}
  /\ tgt \in TargetObjects \cup {Absent} /\ cTgt \in TargetObjects \cup {Absent}
  /\ obj \in SourceObjects \cup {Absent} /\ act \in TargetObjects \cup {Absent}
  /\ replica \in BOOLEAN /\ cReplica \in BOOLEAN /\ queued \in BOOLEAN /\ unseen \in BOOLEAN
  /\ pc \in {"idle", "services", "target", "update", "status",
             "delete services", "delete target", "unfinal"}

Managed == Live(src) /\ src.class

\* A source of KubeLB's class ends up with a target made from its last spec, also
\* when others delete the target, and a Route with the NodePort of its Service,
\* also when the cleanup of another source deletes the replica.
TargetConverges ==
  <>[](Managed => Live(tgt) /\ tgt.rev = src.rev /\ tgt.ready /\ (UsesServices => replica))

\* The addresses reported for the target, and their loss, reach the source.
StatusConverges ==
  <>[](Managed /\ Live(tgt) /\ tgt.status # "none" => src.status = (tgt.status = "set"))

\* A deleted source goes away.  The exception is a source that lost its class after
\* it got the finalizer and before it got its Route: no event reaches its
\* controller.  Services are not filtered, so there is no exception for them.
SourceRemoved ==
  <>[](IsObject(src) /\ src.deleting => kind # "Service" /\ ~src.class /\ tgt = Absent)

\* A target that is not being deleted has a source, which cannot go without cleaning
\* it up: the finalizer is there before the target is, and stays until the target is
\* deleted.  The exception is a Route that was missing from the cache when its source
\* was cleaned up; a Service never leaves a LoadBalancer.
NoOrphanTarget ==
  Live(tgt) => (IsObject(src) /\ src.fin) \/ (unseen /\ kind # "Service")
==============================================================================
