--------------------------- MODULE TenantLifecycle ---------------------------
(***************************************************************************)
(* The Tenant reconciler of the manager: a Tenant gets a namespace, the    *)
(* RBAC objects and the kubeconfig its CCM works with, and a TenantState;  *)
(* when it is deleted its Routes, LoadBalancers and SyncSecrets are        *)
(* removed first, then the access, then the namespace.                     *)
(*                                                                         *)
(* The reconcilers of those three kinds run in the same manager and share  *)
(* its cache.  Here they are reduced to what the Tenant waits for: their   *)
(* finalizer, and what each of them needs before it stores or removes it.  *)
(* One Tenant name, which can be deleted and created again, and at most    *)
(* one child of each kind.                                                 *)
(***************************************************************************)
EXTENDS Naturals, Sequences, FiniteSets

CONSTANTS Absent,            \* an object that does not exist yet
          Gone,              \* an object that has been removed
          MaxTenants,        \* bound: creations of the Tenant
          MaxChildren,       \* bound: children the CCM creates
          MaxEvents          \* bound: changes of the Tenant's spec, changes, deletions and
                             \* creations of the Config, restarts of the manager, together

VARIABLES tenant,     \* API server: the Tenant
          config,     \* API server: the Config "default", see Configs
          ns,         \* API server: the namespace tenant-<name>
          objs,       \* API server: what the Tenant reconciler put into it
          state,      \* API server: status.loadBalancer.disable of the TenantState
          child,      \* API server: the tenant's Route, LoadBalancer and SyncSecret
          cTenant, cNs, cObjs, cState, cChild,   \* cache of the manager
          tq,         \* the Tenant is in the work queue
          mode, at, obj,     \* worker of the Tenant reconciler: phase, step, object read
          created, events

worker == <<mode, at, obj>>
api == <<tenant, config, ns, objs, state, child>>
cache == <<cTenant, cNs, cObjs, cState, cChild>>
bounds == <<created, events>>
vars == <<api, cache, tq, worker, bounds>>

\* There is no Config, or LoadBalancer.Disable of its spec is FALSE or TRUE.
Configs == {"none", "enabled", "disabled"}
ConfigExists == config # "none"

Kinds == {"Route", "LoadBalancer", "SyncSecret"}
Tenants == [id : 1..MaxTenants, fin : BOOLEAN, deleting : BOOLEAN, disable : BOOLEAN]
Children == [fin : BOOLEAN, deleting : BOOLEAN]

ASSUME BoundsAssumption == {MaxTenants, MaxChildren, MaxEvents} \subseteq Nat
ASSUME MarkersAssumption == Absent # Gone /\ {Absent, Gone} \cap (Tenants \cup Children) = {}

IsObject(o) == o \notin {Absent, Gone}
Live(o) == IsObject(o) /\ ~o.deleting

\* What reconcile creates after the namespace, in its order.  "RBAC" is the
\* ServiceAccount, the Role, the RoleBinding and the Secret for the token, which
\* are useless without each other; the API server fills in the token.
Provisioned == <<"RBAC", "kubeconfig Secret", "TenantState">>
TokenData == "token"
InNamespace == {Provisioned[i] : i \in DOMAIN Provisioned} \cup {TokenData}

\* Nothing is created in a namespace that is being removed.
NamespaceActive == ns # Absent /\ ~ns.terminating

\* The CCM reaches the manager's API server with the kubeconfig's token as long
\* as its ServiceAccount is bound to the Role, in a namespace that is being removed
\* too.
CCMAccess == {"RBAC", "kubeconfig Secret", TokenData} \subseteq objs

-----------------------------------------------------------------------------
(* Administrators and the tenant's CCM.                                    *)

Event == events < MaxEvents /\ events' = events + 1

CreateTenant ==
  /\ ~IsObject(tenant) /\ created < MaxTenants
  /\ created' = created + 1
  /\ tenant' = [id |-> created', fin |-> FALSE, deleting |-> FALSE, disable |-> FALSE]
  /\ UNCHANGED <<config, ns, objs, state, child, cache, tq, worker, events>>

UpdateTenant ==
  /\ Event /\ Live(tenant)
  /\ tenant' = [tenant EXCEPT !.disable = ~@]
  /\ UNCHANGED <<config, ns, objs, state, child, cache, tq, worker, created>>

DeleteTenant ==
  /\ Live(tenant)
  /\ tenant' = IF tenant.fin THEN [tenant EXCEPT !.deleting = TRUE] ELSE Gone
  /\ UNCHANGED <<config, ns, objs, state, child, cache, tq, worker, bounds>>

ChangeConfig ==
  /\ Event
  /\ config' \in Configs \ {config}
  /\ UNCHANGED <<tenant, ns, objs, state, child, cache, tq, worker, created>>

CreateChild(k) ==
  /\ CCMAccess /\ NamespaceActive /\ child[k] = Absent
  /\ Cardinality({j \in Kinds : child[j] # Absent}) < MaxChildren
  /\ child' = [child EXCEPT ![k] = [fin |-> FALSE, deleting |-> FALSE]]
  /\ UNCHANGED <<tenant, config, ns, objs, state, cache, tq, worker, bounds>>

-----------------------------------------------------------------------------
(* Kubernetes: informers, the token controller, the namespace controller.  *)

SyncTenant ==
  /\ cTenant # tenant
  /\ cTenant' = tenant
  /\ tq' = TRUE
  /\ UNCHANGED <<api, cNs, cObjs, cState, cChild, worker, bounds>>

\* The informers resync every ten hours: the Tenant is delivered once more.
ResyncTenant ==
  /\ IsObject(cTenant) /\ ~tq
  /\ tq' = TRUE
  /\ UNCHANGED <<api, cache, worker, bounds>>

\* The informers of the objects the Tenant reconciler creates, in step.
SyncOwned ==
  /\ <<cNs, cObjs, cState>> # <<ns, objs, state>>
  /\ cNs' = ns /\ cObjs' = objs /\ cState' = state
  /\ UNCHANGED <<api, cTenant, cChild, tq, worker, bounds>>

SyncChild(k) ==
  /\ cChild[k] # child[k]
  /\ cChild' = [cChild EXCEPT ![k] = child[k]]
  /\ UNCHANGED <<api, cTenant, cNs, cObjs, cState, tq, worker, bounds>>

FillToken ==
  /\ "RBAC" \in objs /\ TokenData \notin objs
  /\ objs' = objs \cup {TokenData}
  /\ UNCHANGED <<tenant, config, ns, state, child, cache, tq, worker, bounds>>

\* Delete: an object with a finalizer stays until it is removed.
MarkDeleted(o) == IF ~IsObject(o) THEN o
                  ELSE IF o.fin THEN [o EXCEPT !.deleting = TRUE] ELSE Gone

\* The contents of a terminating namespace are deleted; it goes when none is left.
DrainNamespace ==
  /\ ns # Absent /\ ns.terminating
  /\ objs # {} \/ \E k \in Kinds : Live(child[k])
  /\ objs' = {} /\ state' = Absent
  /\ child' = [k \in Kinds |-> MarkDeleted(child[k])]
  /\ UNCHANGED <<tenant, config, ns, cache, tq, worker, bounds>>

RemoveNamespace ==
  /\ ns # Absent /\ ns.terminating
  /\ objs = {} /\ \A k \in Kinds : ~IsObject(child[k])
  /\ ns' = Absent
  /\ UNCHANGED <<tenant, config, objs, state, child, cache, tq, worker, bounds>>

-----------------------------------------------------------------------------
(* The reconcilers of the children, as far as the Tenant depends on them.  *)

GetTenantAndConfig == IsObject(cTenant) /\ ConfigExists

\* Mutated form: SyncSecrets too are removed only while Tenant and Config exist.
EveryKindNeedsTenant(k) == GetTenantAndConfig

\* RouteReconciler asks for Tenant and Config before it looks at the deletion
\* timestamp; LoadBalancerReconciler asks afterwards; SyncSecretReconciler never.
CleanupAllowed(k) == k # "Route" \/ GetTenantAndConfig

StoreChildFinalizer(k) ==
  /\ Live(cChild[k]) /\ ~cChild[k].fin /\ child[k] = cChild[k]
  /\ k = "SyncSecret" \/ GetTenantAndConfig
  /\ child' = [child EXCEPT ![k].fin = TRUE]
  /\ UNCHANGED <<tenant, config, ns, objs, state, cache, tq, worker, bounds>>

\* cleanup of the child and removal of its finalizer; the API server then removes it.
CleanupChild(k) ==
  /\ IsObject(cChild[k]) /\ cChild[k].deleting /\ cChild[k].fin /\ child[k] = cChild[k]
  /\ CleanupAllowed(k)
  /\ child' = [child EXCEPT ![k] = Gone]
  /\ UNCHANGED <<tenant, config, ns, objs, state, cache, tq, worker, bounds>>

-----------------------------------------------------------------------------
(* TenantReconciler.Reconcile, one worker.                                 *)

Idle == mode' = "idle" /\ at' = 0 /\ obj' = Absent
Done == Idle /\ UNCHANGED tq
Retry == Idle /\ tq' = TRUE
StepOn == at' = at + 1 /\ UNCHANGED <<mode, obj, tq>>
Enter(m, o) == mode' = m /\ at' = 1 /\ obj' = o

\* Not found, or deleted and cleaned up already.
TenantSkip ==
  /\ mode = "idle" /\ tq
  /\ IsObject(cTenant) => cTenant.deleting /\ ~cTenant.fin
  /\ tq' = FALSE
  /\ UNCHANGED <<api, cache, worker, bounds>>

\* The finalizer is stored; the Update conflicts when the Tenant has changed.
StoreTenantFinalizer ==
  /\ cTenant.fin \/ tenant = cTenant
  /\ tenant' = IF cTenant.fin THEN tenant ELSE [tenant EXCEPT !.fin = TRUE]

\* On a conflict the request stays queued and nothing has changed, so this waits
\* for the cache.
TenantBegin ==
  /\ mode = "idle" /\ tq
  /\ Live(cTenant)
  /\ StoreTenantFinalizer
  /\ tq' = FALSE /\ Enter("namespace", [cTenant EXCEPT !.fin = TRUE])
  /\ UNCHANGED <<config, ns, objs, state, child, cache, bounds>>

\* reconcile, 1: the namespace, owned by this Tenant.
NamespaceReconciler ==
  LET owned == IF cNs = Absent THEN [owner |-> obj.id, terminating |-> FALSE]
               ELSE [cNs EXCEPT !.owner = obj.id]
  IN
  /\ mode = "namespace"
  /\ IF cNs = owned \/ ns = cNs
       THEN ns' = (IF cNs = owned THEN ns ELSE owned) /\ Enter("provision", obj) /\ UNCHANGED tq
       ELSE UNCHANGED ns /\ Retry
  /\ UNCHANGED <<tenant, config, objs, state, child, cache, bounds>>

\* The kubeconfig is generated from the token Secret's data.
generateKubeconfig == TokenData \in cObjs

\* reconcile, 2 to 4: create what the cache does not show, one object after the
\* other.  What exists has the desired content.
ReconcileObject ==
  LET o == Provisioned[at] IN
  /\ mode = "provision"
  /\ IF /\ o = "kubeconfig Secret" => generateKubeconfig
        /\ o \in cObjs \/ (o \notin objs /\ NamespaceActive)
       THEN /\ objs' = IF o \in cObjs THEN objs ELSE objs \cup {o}
            /\ IF at = Len(Provisioned) THEN Enter("status", obj) /\ UNCHANGED tq ELSE StepOn
       ELSE UNCHANGED objs /\ Retry
  /\ UNCHANGED <<tenant, config, ns, state, child, cache, bounds>>

\* Mutated form: the flag of the Tenant is lost.
DisableOfConfig(t) == config = "disabled"

buildTenantState(t) == t.disable \/ config = "disabled"

shouldUpdateStatus == cState # buildTenantState(obj)

\* For a Tenant that does not disable load balancers itself buildTenantState looks
\* into the Config: without one it dereferences a nil pointer, the panic is recovered
\* and the request retried.  The status is written when it differs from
\* the cached one; the write fails when the cached TenantState is not the current one.
reconcileTenantState ==
  /\ mode = "status"
  /\ IF /\ obj.disable \/ ConfigExists
        /\ shouldUpdateStatus => "TenantState" \in objs /\ cState = state
       THEN state' = (IF shouldUpdateStatus THEN buildTenantState(obj) ELSE state) /\ Done
       ELSE UNCHANGED state /\ Retry
  /\ UNCHANGED <<tenant, config, ns, objs, child, cache, bounds>>

\* Mutated form: SyncSecrets are not deleted.
SyncSecretsForgotten == <<"Route", "LoadBalancer">>

DeletedKinds == <<"Route", "LoadBalancer", "SyncSecret">>

ListedKinds == <<"Route", "LoadBalancer", "SyncSecret">>

TenantCleanupBegin ==
  /\ mode = "idle" /\ tq
  /\ IsObject(cTenant) /\ cTenant.deleting /\ cTenant.fin
  /\ tq' = FALSE /\ Enter("delete", cTenant)
  /\ UNCHANGED <<api, cache, bounds>>

\* cleanupResources: DeleteAllOf, kind by kind, on the API server.
DeleteAllOf ==
  /\ mode = "delete"
  /\ child' = [child EXCEPT ![DeletedKinds[at]] = MarkDeleted(@)]
  /\ IF at = Len(DeletedKinds) THEN Enter("list", obj) /\ UNCHANGED tq ELSE StepOn
  /\ UNCHANGED <<tenant, config, ns, objs, state, cache, bounds>>

ListIsEmpty(k) == ~IsObject(cChild[k])

\* ... then the lists, from the cache: one that is not empty is an error.
ListChildren ==
  /\ mode = "list"
  /\ IF ListIsEmpty(ListedKinds[at])
       THEN IF at = Len(ListedKinds) THEN Enter("revoke", obj) /\ UNCHANGED tq ELSE StepOn
       ELSE Retry
  /\ UNCHANGED <<api, cache, bounds>>

\* Mutated form: namespace, RBAC objects and kubeconfig are left to owner references.
DeletionByOwner == <<"TenantState">>

Deletion == <<"RBAC", "kubeconfig Secret", "Namespace">>

\* cleanup: the objects of Deletion, one after the other; NotFound is fine.
DeleteObject ==
  LET o == Deletion[at] IN
  /\ mode = "revoke"
  /\ IF o = "Namespace"
       THEN /\ ns' = IF ns = Absent THEN ns ELSE [ns EXCEPT !.terminating = TRUE]
            /\ UNCHANGED objs
       ELSE /\ objs' = objs \ (IF o = "RBAC" THEN {o, TokenData} ELSE {o})
            /\ UNCHANGED ns
  /\ IF at = Len(Deletion) THEN Enter("unfinal", obj) /\ UNCHANGED tq ELSE StepOn
  /\ UNCHANGED <<tenant, config, state, child, cache, bounds>>

RemoveTenantFinalizer ==
  /\ mode = "unfinal"
  /\ IF tenant = obj THEN tenant' = Gone /\ Done ELSE UNCHANGED tenant /\ Retry
  /\ UNCHANGED <<config, ns, objs, state, child, cache, bounds>>

\* The process starts again with fresh caches; the Tenant is listed and queued.
Restart ==
  /\ Event
  /\ cTenant' = tenant /\ cNs' = ns /\ cObjs' = objs /\ cState' = state /\ cChild' = child
  /\ tq' = IsObject(tenant) /\ Idle
  /\ UNCHANGED <<api, created>>

Init ==
  /\ tenant = Absent /\ config = "enabled" /\ ns = Absent /\ objs = {} /\ state = Absent
  /\ child = [k \in Kinds |-> Absent]
  /\ cTenant = tenant /\ cNs = ns /\ cObjs = objs /\ cState = state /\ cChild = child
  /\ tq = FALSE /\ mode = "idle" /\ at = 0 /\ obj = Absent
  /\ created = 0 /\ events = 0

Environment ==
  \/ CreateTenant \/ UpdateTenant \/ DeleteTenant \/ ChangeConfig \/ Restart
  \/ \E k \in Kinds : CreateChild(k)

Kubernetes ==
  \/ SyncTenant \/ ResyncTenant \/ SyncOwned
  \/ \E k \in Kinds : SyncChild(k)
  \/ FillToken \/ DrainNamespace \/ RemoveNamespace

ChildReconcilers == \E k \in Kinds : StoreChildFinalizer(k) \/ CleanupChild(k)

TenantReconciler ==
  \/ TenantSkip \/ TenantBegin \/ NamespaceReconciler \/ ReconcileObject \/ reconcileTenantState
  \/ TenantCleanupBegin \/ DeleteAllOf \/ ListChildren \/ DeleteObject \/ RemoveTenantFinalizer

Next == Environment \/ Kubernetes \/ ChildReconcilers \/ TenantReconciler

Spec == Init /\ [][Next]_vars

\* Kubernetes and the reconcilers run; nothing is assumed of administrators, of
\* the CCM or of restarts.
Fairness ==
  /\ WF_vars(SyncTenant) /\ WF_vars(ResyncTenant) /\ WF_vars(SyncOwned)
  /\ WF_vars(FillToken) /\ WF_vars(DrainNamespace) /\ WF_vars(RemoveNamespace)
  /\ \A k \in Kinds : /\ WF_vars(SyncChild(k)) /\ WF_vars(StoreChildFinalizer(k))
                      /\ WF_vars(CleanupChild(k))
  /\ WF_vars(TenantReconciler)

FairSpec == Spec /\ Fairness

-----------------------------------------------------------------------------
\* The values of the API objects, the cache and the worker.
TypeOK ==
  /\ {tenant, cTenant} \subseteq Tenants \cup {Absent, Gone} /\ obj \in Tenants \cup {Absent}
  /\ {ns, cNs} \subseteq [owner : 1..MaxTenants, terminating : BOOLEAN] \cup {Absent}
  /\ objs \subseteq InNamespace /\ cObjs \subseteq InNamespace
  /\ {state, cState} \subseteq BOOLEAN \cup {Absent}
  /\ {child, cChild} \subseteq [Kinds -> Children \cup {Absent, Gone}]
  /\ config \in Configs /\ tq \in BOOLEAN
  /\ mode \in {"idle", "namespace", "provision", "status", "delete", "list", "revoke", "unfinal"}
  /\ at \in 0..Len(Provisioned)

\* When a Tenant is gone its CCM has lost its access, to a namespace that lingers too:
\* Deletion has run to its end before the finalizer is removed, whatever was
\* conflicting, repeated or restarted.
AccessRevoked == ~IsObject(tenant) => ~CCMAccess

\* A live Tenant ends up with its namespace, all objects in it and a TenantState
\* that says what Tenant and Config say, after deletion and creation of the same name
\* too.  Without a Config a namespace of an earlier Tenant can linger, and the
\* TenantState is written only for a Tenant that disables load balancers itself.
TenantProvisioned ==
  <>[](Live(tenant) =>
         /\ ConfigExists => NamespaceActive
         /\ NamespaceActive => objs = InNamespace
         /\ NamespaceActive /\ (ConfigExists \/ tenant.disable) =>
              state = (tenant.disable \/ config = "disabled"))

\* A deleted Tenant goes away, unless the Config is missing: Routes cannot be
\* cleaned up without it.
TenantRemoved == <>[](IsObject(tenant) /\ tenant.deleting => ~ConfigExists)

\* Once its Tenant is gone only a Route can keep a namespace from being removed:
\* the other kinds are cleaned up without Tenant and Config.
OnlyRoutesLinger ==
  <>[](ns # Absent /\ ns.terminating => IsObject(child["Route"])
                                        /\ \A k \in Kinds \ {"Route"} : ~IsObject(child[k]))
==============================================================================
