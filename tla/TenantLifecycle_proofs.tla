----------------------- MODULE TenantLifecycle_proofs -----------------------
(***************************************************************************)
(* A Tenant that is gone has no access left, for every bound.              *)
(*                                                                         *)
(* The argument: whatever gives access was created under a finalizer that  *)
(* is stored in the Tenant (FinalizerFirst), and the finalizer is removed  *)
(* only by a worker that has deleted it (RevokedBefore).  What makes this  *)
(* hard is the cache: the reconciler may work for a Tenant that has been   *)
(* deleted and created again.  Stale therefore says what an old copy of    *)
(* the Tenant still implies for the current one.                           *)
(*                                                                         *)
(* And, for a LoadBalancer with several ports: recorded ports stay with it. *)
(***************************************************************************)
EXTENDS TenantLifecycle, ServicePorts, TLAPS

Provisioning == {"namespace", "provision", "status"}
Cleaning == {"delete", "list", "revoke", "unfinal"}

WorkerOK ==
  /\ created \in 0..MaxTenants
  /\ mode # "idle" => at \in 1..3 /\ obj \in Tenants

\* A copy that is live and has the finalizer: the Tenant exists and has it too.
\* A copy that is being deleted is not of a live Tenant.
Stale ==
  /\ IsObject(tenant) => tenant.id <= created
  /\ IsObject(cTenant) => cTenant.id <= created
  /\ IsObject(obj) => obj.id <= created
  /\ Live(cTenant) /\ cTenant.fin => IsObject(tenant) /\ tenant.fin
  /\ IsObject(cTenant) /\ cTenant.deleting /\ IsObject(tenant) /\ tenant.id = cTenant.id
       => tenant.deleting
  /\ mode \in Cleaning => obj.deleting
  /\ mode \in Cleaning /\ IsObject(tenant) /\ tenant.id = obj.id => tenant.deleting
  /\ mode \in Cleaning /\ tenant = obj => ~Live(cTenant)

FinalizerFirst ==
  /\ mode \in Provisioning => IsObject(tenant) /\ tenant.fin
  /\ "RBAC" \in objs => IsObject(tenant) /\ tenant.fin

RevokedBefore ==
  mode = "unfinal" \/ (mode = "revoke" /\ at # 1) => "RBAC" \notin objs

IInv == TypeOK /\ WorkerOK /\ Stale /\ FinalizerFirst /\ RevokedBefore
-----------------------------------------------------------------------------
(* Types.                                                                  *)

\* Delete leaves an object of the same kind, or none.
LEMMA MarkDeletedType ==
  ASSUME NEW o \in Children \cup {Absent, Gone}
  PROVE  MarkDeleted(o) \in Children \cup {Absent, Gone}
BY Zenon DEF MarkDeleted, IsObject, Children

\* Every Tenant record is an object, the two markers are not.
LEMMA TenantIsObject ==
  /\ \A t \in Tenants : IsObject(t)
  /\ \A t \in Tenants \cup {Absent, Gone} : IsObject(t) => t \in Tenants
  /\ ~IsObject(Absent) /\ ~IsObject(Gone)
BY MarkersAssumption DEF IsObject

\* The three lists the worker walks through have three entries each.
LEMMA Lengths ==
  Len(Provisioned) = 3 /\ Len(DeletedKinds) = 3 /\ Len(ListedKinds) = 3 /\ Len(Deletion) = 3
BY DEF Provisioned, DeletedKinds, ListedKinds, Deletion

\* The initial state.
LEMMA TenantsInit == Init => IInv
<1> SUFFICES ASSUME Init PROVE IInv
  OBVIOUS
<1>1. TypeOK
  <2>1. child \in [Kinds -> Children \cup {Absent, Gone}]
    BY DEF Init
  <2>2. at \in 0..Len(Provisioned)
    BY Lengths DEF Init
  <2>3. config \in Configs /\ tq \in BOOLEAN
    BY Zenon DEF Init, Configs
  <2> QED BY <2>1, <2>2, <2>3, Zenon DEF Init, TypeOK
<1>2. WorkerOK
  BY BoundsAssumption DEF Init, WorkerOK
<1>3. Stale /\ FinalizerFirst /\ RevokedBefore
  BY TenantIsObject DEF Init, Stale, FinalizerFirst, RevokedBefore, Live, Cleaning, Provisioning
<1> QED BY <1>1, <1>2, <1>3 DEF IInv

\* Administrators, the CCM and restarts.
LEMMA EnvironmentTypes ==
  ASSUME TypeOK, WorkerOK, Environment
  PROVE  TypeOK' /\ WorkerOK'
<1> USE DEF TypeOK, WorkerOK, api, cache, worker, bounds, Event
<1>1. CASE CreateTenant
  <2>1. tenant' \in Tenants /\ created' \in 0..MaxTenants
    BY <1>1, BoundsAssumption DEF CreateTenant, Tenants
  <2> QED BY <1>1, <2>1 DEF CreateTenant
<1>2. CASE UpdateTenant
  <2>1. tenant \in Tenants
    BY <1>2, TenantIsObject DEF UpdateTenant, Live
  <2>2. tenant' \in Tenants
    BY <1>2, <2>1, Zenon DEF UpdateTenant, Tenants
  <2> QED BY <1>2, <2>2 DEF UpdateTenant
<1>3. CASE DeleteTenant
  <2>1. tenant \in Tenants
    BY <1>3, TenantIsObject DEF DeleteTenant, Live
  <2>2. tenant' \in Tenants \cup {Gone}
    BY <1>3, <2>1, Zenon DEF DeleteTenant, Tenants
  <2> QED BY <1>3, <2>2 DEF DeleteTenant
<1>4. CASE ChangeConfig
  BY <1>4 DEF ChangeConfig
<1>5. CASE Restart
  <2>1. tq' \in BOOLEAN
    BY <1>5 DEF Restart, IsObject
  <2> QED BY <1>5, <2>1 DEF Restart, Idle
<1>6. ASSUME NEW k \in Kinds, CreateChild(k)
      PROVE  TypeOK' /\ WorkerOK'
  <2>1. child' \in [Kinds -> Children \cup {Absent, Gone}]
    BY <1>6, Zenon DEF CreateChild, Children
  <2> QED BY <1>6, <2>1 DEF CreateChild
<1> QED BY <1>1, <1>2, <1>3, <1>4, <1>5, <1>6 DEF Environment

\* Informers, token and namespace controller, and the children's reconcilers.
LEMMA KubernetesTypes ==
  ASSUME TypeOK, WorkerOK, Kubernetes \/ ChildReconcilers
  PROVE  TypeOK' /\ WorkerOK'
<1> USE DEF TypeOK, WorkerOK, api, cache, worker, bounds
<1>1. CASE SyncTenant \/ ResyncTenant
  BY <1>1, Zenon DEF SyncTenant, ResyncTenant
<1>2. CASE SyncOwned
  BY <1>2 DEF SyncOwned
<1>3. ASSUME NEW k \in Kinds, SyncChild(k)
      PROVE  TypeOK' /\ WorkerOK'
  BY <1>3 DEF SyncChild
<1>4. CASE FillToken
  BY <1>4 DEF FillToken, InNamespace
<1>5. CASE DrainNamespace
  <2>1. child' \in [Kinds -> Children \cup {Absent, Gone}]
    BY <1>5, MarkDeletedType DEF DrainNamespace
  <2> QED BY <1>5, <2>1 DEF DrainNamespace
<1>6. CASE RemoveNamespace
  BY <1>6 DEF RemoveNamespace
<1>7. ASSUME NEW k \in Kinds, StoreChildFinalizer(k) \/ CleanupChild(k)
      PROVE  TypeOK' /\ WorkerOK'
  <2>1. child[k] \in Children \/ CleanupChild(k)
    BY <1>7 DEF StoreChildFinalizer, Live, IsObject
  <2>2. child' \in [Kinds -> Children \cup {Absent, Gone}]
    BY <1>7, <2>1, ZenonT(30) DEF StoreChildFinalizer, CleanupChild, Children
  <2> QED BY <1>7, <2>2 DEF StoreChildFinalizer, CleanupChild
<1> QED BY <1>1, <1>2, <1>3, <1>4, <1>5, <1>6, <1>7 DEF Kubernetes, ChildReconcilers

\* What the worker holds, and the objects it reads and writes.
WorkerTypes ==
  /\ mode \in {"idle", "namespace", "provision", "status", "delete", "list", "revoke", "unfinal"}
  /\ at \in 0..3 /\ obj \in Tenants \cup {Absent}
  /\ mode # "idle" => at \in 1..3 /\ obj \in Tenants

ObjectTypes ==
  /\ tenant \in Tenants \cup {Absent, Gone} /\ cTenant \in Tenants \cup {Absent, Gone}
  /\ ns \in [owner : 1..MaxTenants, terminating : BOOLEAN] \cup {Absent}
  /\ cNs \in [owner : 1..MaxTenants, terminating : BOOLEAN] \cup {Absent}
  /\ objs \subseteq InNamespace /\ cObjs \subseteq InNamespace
  /\ state \in BOOLEAN \cup {Absent} /\ cState \in BOOLEAN \cup {Absent}
  /\ child \in [Kinds -> Children \cup {Absent, Gone}]
  /\ cChild \in [Kinds -> Children \cup {Absent, Gone}]
  /\ config \in Configs
  /\ created \in 0..MaxTenants

\* TypeOK and WorkerOK, taken apart.
LEMMA Parts == TypeOK /\ WorkerOK => WorkerTypes /\ ObjectTypes /\ tq \in BOOLEAN
BY Lengths DEF TypeOK, WorkerOK, WorkerTypes, ObjectTypes

\* ... and put together again.
LEMMA Whole ==
  ASSUME WorkerTypes', ObjectTypes', (tq \in BOOLEAN)'
  PROVE  TypeOK' /\ WorkerOK'
<1>1. (at \in 0..Len(Provisioned))'
  BY Lengths DEF WorkerTypes
<1> QED BY <1>1, Zenon DEF TypeOK, WorkerOK, WorkerTypes, ObjectTypes

\* The three ways the worker goes on: into the next phase, to the next entry of
\* its list, or back to the queue.
LEMMA WorkerSteps ==
  ASSUME WorkerTypes
  PROVE  /\ \A m \in Provisioning \cup Cleaning, o \in Tenants : Enter(m, o) => WorkerTypes'
         /\ mode # "idle" /\ at # 3 /\ StepOn => WorkerTypes'
         /\ Idle => WorkerTypes'
<1>1. ASSUME NEW m \in Provisioning \cup Cleaning, NEW o \in Tenants, Enter(m, o)
      PROVE  WorkerTypes'
  BY <1>1 DEF Enter, WorkerTypes, Provisioning, Cleaning
<1>2. ASSUME mode # "idle", at # 3, StepOn
      PROVE  WorkerTypes'
  BY <1>2 DEF StepOn, WorkerTypes
<1>3. ASSUME Idle
      PROVE  WorkerTypes'
  BY <1>3 DEF Idle, WorkerTypes
<1> QED BY <1>1, <1>2, <1>3

\* The Tenant reconciler.
LEMMA ReconcilerTypes ==
  ASSUME TypeOK, WorkerOK, TenantReconciler
  PROVE  TypeOK' /\ WorkerOK'
<1> USE DEF api, cache, worker, bounds
<1>0. WorkerTypes /\ ObjectTypes /\ tq \in BOOLEAN
  BY Parts
<1>a. ASSUME WorkerTypes', ObjectTypes', tq' = tq \/ tq' = TRUE \/ tq' = FALSE
      PROVE  TypeOK' /\ WorkerOK'
  BY <1>0, <1>a, Whole, Zenon
<1>b. mode # "idle" => obj \in Tenants
  BY <1>0 DEF WorkerTypes
<1>1. CASE TenantSkip
  <2>1. WorkerTypes' /\ ObjectTypes'
    BY <1>0, <1>1 DEF TenantSkip, WorkerTypes, ObjectTypes
  <2> QED BY <1>1, <1>a, <2>1, Zenon DEF TenantSkip
<1>2. CASE TenantBegin
  <2>1. cTenant \in Tenants
    BY <1>0, <1>2, TenantIsObject DEF TenantBegin, Live, ObjectTypes
  <2>2. [cTenant EXCEPT !.fin = TRUE] \in Tenants
    BY <2>1, Zenon DEF Tenants
  <2>3. tenant' \in Tenants \cup {Absent, Gone}
    BY <1>0, <1>2, <2>2, Zenon DEF TenantBegin, StoreTenantFinalizer, ObjectTypes
  <2>4. WorkerTypes'
    BY <1>0, <1>2, <2>2, WorkerSteps DEF TenantBegin, Provisioning
  <2>5. ObjectTypes'
    BY <1>0, <1>2, <2>3 DEF TenantBegin, ObjectTypes
  <2> QED BY <1>2, <1>a, <2>4, <2>5, Zenon DEF TenantBegin
<1>3. CASE NamespaceReconciler
  <2>1. obj.id \in 1..MaxTenants
    BY <1>3, <1>b DEF NamespaceReconciler, Tenants
  <2> DEFINE owned == IF cNs = Absent THEN [owner |-> obj.id, terminating |-> FALSE]
                      ELSE [cNs EXCEPT !.owner = obj.id]
  <2>6. owned \in [owner : 1..MaxTenants, terminating : BOOLEAN]
    BY <1>0, <2>1 DEF ObjectTypes
  <2>7. ns' = ns \/ ns' = owned
    BY <1>3 DEF NamespaceReconciler
  <2>2. ns' \in [owner : 1..MaxTenants, terminating : BOOLEAN] \cup {Absent}
    BY <1>0, <2>6, <2>7, Zenon DEF ObjectTypes
  <2>3. WorkerTypes'
    BY <1>0, <1>3, <1>b, WorkerSteps DEF NamespaceReconciler, Retry, Provisioning
  <2>4. ObjectTypes'
    BY <1>0, <1>3, <2>2 DEF NamespaceReconciler, ObjectTypes
  <2>5. tq' = tq \/ tq' = TRUE
    BY <1>3 DEF NamespaceReconciler, Retry
  <2> QED BY <1>a, <2>3, <2>4, <2>5, Zenon
<1>4. CASE ReconcileObject
  <2>0. at \in 1..3
    BY <1>0, <1>4, Zenon DEF ReconcileObject, WorkerTypes
  <2>a. DOMAIN Provisioned = 1..3
    BY DEF Provisioned
  <2>1. Provisioned[at] \in InNamespace
    BY <2>0, <2>a DEF InNamespace
  <2>2. ObjectTypes'
    BY <1>0, <1>4, <2>1, Zenon DEF ReconcileObject, ObjectTypes
  <2>3. WorkerTypes'
    BY <1>0, <1>4, <1>b, WorkerSteps, Lengths, Zenon DEF ReconcileObject, Retry, Provisioning
  <2>4. tq' = tq \/ tq' = TRUE
    BY <1>4, Zenon DEF ReconcileObject, Retry, StepOn
  <2> QED BY <1>a, <2>2, <2>3, <2>4, Zenon
<1>5. CASE reconcileTenantState
  <2>1. state' \in BOOLEAN \cup {Absent}
    BY <1>0, <1>5, <1>b DEF reconcileTenantState, buildTenantState, Tenants, ObjectTypes
  <2>2. ObjectTypes'
    BY <1>0, <1>5, <2>1 DEF reconcileTenantState, ObjectTypes
  <2>3. WorkerTypes' /\ (tq' = tq \/ tq' = TRUE)
    BY <1>0, <1>5, WorkerSteps DEF reconcileTenantState, Done, Retry
  <2> QED BY <1>a, <2>2, <2>3, Zenon
<1>6. CASE TenantCleanupBegin
  <2>1. cTenant \in Tenants
    BY <1>0, <1>6, TenantIsObject DEF TenantCleanupBegin, ObjectTypes
  <2>2. WorkerTypes'
    BY <1>0, <1>6, <2>1, WorkerSteps DEF TenantCleanupBegin, Cleaning
  <2>3. ObjectTypes'
    BY <1>0, <1>6 DEF TenantCleanupBegin, ObjectTypes
  <2> QED BY <1>6, <1>a, <2>2, <2>3, Zenon DEF TenantCleanupBegin
<1>7. CASE DeleteAllOf
  <2>1. DeletedKinds[at] \in Kinds
    BY <1>0, <1>7 DEF DeleteAllOf, DeletedKinds, Kinds, WorkerTypes
  <2>2. child' \in [Kinds -> Children \cup {Absent, Gone}]
    BY <1>0, <1>7, <2>1, MarkDeletedType DEF DeleteAllOf, ObjectTypes
  <2>3. ObjectTypes'
    BY <1>0, <1>7, <2>2 DEF DeleteAllOf, ObjectTypes
  <2>4. WorkerTypes' /\ tq' = tq
    BY <1>0, <1>7, <1>b, WorkerSteps, Lengths DEF DeleteAllOf, Cleaning, StepOn
  <2> QED BY <1>a, <2>3, <2>4
<1>8. CASE ListChildren
  <2>1. WorkerTypes' /\ (tq' = tq \/ tq' = TRUE)
    BY <1>0, <1>8, <1>b, WorkerSteps, Lengths DEF ListChildren, Cleaning, Retry, StepOn
  <2>2. ObjectTypes'
    BY <1>0, <1>8 DEF ListChildren, ObjectTypes
  <2> QED BY <1>a, <2>1, <2>2, Zenon
<1>9. CASE DeleteObject
  <2>1. ns' \in [owner : 1..MaxTenants, terminating : BOOLEAN] \cup {Absent}
    BY <1>0, <1>9, Zenon DEF DeleteObject, ObjectTypes
  <2>2. objs' \subseteq InNamespace
    BY <1>0, <1>9 DEF DeleteObject, ObjectTypes
  <2>3. ObjectTypes'
    BY <1>0, <1>9, <2>1, <2>2 DEF DeleteObject, ObjectTypes
  <2>4. WorkerTypes' /\ tq' = tq
    BY <1>0, <1>9, <1>b, WorkerSteps, Lengths DEF DeleteObject, Cleaning, StepOn
  <2> QED BY <1>a, <2>3, <2>4
<1>10. CASE RemoveTenantFinalizer
  <2>1. ObjectTypes'
    BY <1>0, <1>10 DEF RemoveTenantFinalizer, ObjectTypes
  <2>2. WorkerTypes' /\ (tq' = tq \/ tq' = TRUE)
    BY <1>0, <1>10, WorkerSteps DEF RemoveTenantFinalizer, Done, Retry
  <2> QED BY <1>a, <2>1, <2>2, Zenon
<1> QED BY <1>1, <1>2, <1>3, <1>4, <1>5, <1>6, <1>7, <1>8, <1>9, <1>10 DEF TenantReconciler

-----------------------------------------------------------------------------
(* Who owns the access.                                                    *)

Ownership == Stale /\ FinalizerFirst /\ RevokedBefore

\* What a step leaves alone when it concerns neither the Tenant nor the worker.
LEMMA ElsewhereOwnership ==
  ASSUME Ownership, UNCHANGED <<tenant, cTenant, mode, at, obj, created>>,
         "RBAC" \in objs' => "RBAC" \in objs
  PROVE  Ownership'
BY DEF Ownership, Stale, FinalizerFirst, RevokedBefore, Live

\* Administrators, the CCM and restarts.
LEMMA EnvironmentOwnership ==
  ASSUME TypeOK, WorkerOK, Ownership, Environment
  PROVE  Ownership'
<1> USE DEF api, cache, worker, bounds, Event
<1>0. WorkerTypes /\ ObjectTypes
  BY Parts
<1>1. CASE CreateTenant
  <2>1. /\ IsObject(tenant') /\ tenant'.id = created + 1
        /\ created \in Nat /\ created' = created + 1
    <3>1. tenant' \in Tenants
      BY <1>0, <1>1, BoundsAssumption DEF CreateTenant, Tenants, ObjectTypes
    <3> QED BY <1>0, <1>1, <3>1, BoundsAssumption, TenantIsObject DEF CreateTenant, ObjectTypes
  <2>2. \A t \in Tenants : t.id \in Nat
    BY BoundsAssumption DEF Tenants
  <2>3. ~IsObject(tenant) /\ UNCHANGED <<cTenant, objs, mode, at, obj>>
    BY <1>1 DEF CreateTenant
  <2>4. Stale'
    <3>1. IsObject(cTenant) => cTenant.id \in Nat /\ cTenant.id <= created
      BY <1>0, <2>2, TenantIsObject DEF Ownership, Stale, ObjectTypes
    <3>2. IsObject(obj) => obj.id \in Nat /\ obj.id <= created
      BY <1>0, <2>2, TenantIsObject DEF Ownership, Stale, WorkerTypes
    <3>3. mode \in Cleaning => IsObject(obj)
      BY <1>0, TenantIsObject DEF WorkerTypes, Cleaning
    <3> QED BY <2>1, <2>3, <3>1, <3>2, <3>3 DEF Ownership, Stale, Live
  <2> QED BY <2>3, <2>4 DEF Ownership, FinalizerFirst, RevokedBefore
<1>2. CASE UpdateTenant
  <2>1. tenant \in Tenants
    BY <1>0, <1>2, TenantIsObject DEF UpdateTenant, Live, ObjectTypes
  <2>2. /\ tenant' \in Tenants /\ tenant'.id = tenant.id /\ tenant'.fin = tenant.fin
        /\ tenant'.deleting = tenant.deleting
    BY <1>2, <2>1, Zenon DEF UpdateTenant, Tenants
  <2>3. ~tenant.deleting /\ IsObject(tenant) /\ IsObject(tenant')
    BY <1>2, <2>2, TenantIsObject DEF UpdateTenant, Live
  <2> QED BY <1>2, <2>2, <2>3, Zenon
          DEF UpdateTenant, Ownership, Stale, FinalizerFirst, RevokedBefore, Live
<1>3. CASE DeleteTenant
  <2>1. tenant \in Tenants /\ IsObject(tenant) /\ ~tenant.deleting
    BY <1>0, <1>3, TenantIsObject DEF DeleteTenant, Live, ObjectTypes
  <2>2. UNCHANGED <<cTenant, objs, mode, at, obj, created>>
    BY <1>3 DEF DeleteTenant
  <2>3. CASE tenant.fin
    <3>1. /\ tenant' \in Tenants /\ tenant'.id = tenant.id /\ tenant'.fin = tenant.fin
          /\ tenant'.deleting
      BY <1>3, <2>1, <2>3, Zenon DEF DeleteTenant, Tenants
    <3>2. IsObject(tenant')
      BY <3>1, TenantIsObject
    <3> QED BY <2>1, <2>2, <3>1, <3>2
            DEF Ownership, Stale, FinalizerFirst, RevokedBefore, Live
  <2>4. CASE ~tenant.fin
    <3>1. tenant' = Gone /\ ~IsObject(tenant')
      BY <1>3, <2>4, TenantIsObject DEF DeleteTenant
    <3>2. mode \in Cleaning => IsObject(obj)
      BY <1>0, TenantIsObject DEF WorkerTypes, Cleaning
    <3> QED BY <2>1, <2>2, <2>4, <3>1, <3>2
            DEF Ownership, Stale, FinalizerFirst, RevokedBefore, Live
  <2> QED BY <2>3, <2>4
<1>4. CASE ChangeConfig
  BY <1>4, ElsewhereOwnership DEF ChangeConfig
<1>5. CASE Restart
  BY <1>5, TenantIsObject
     DEF Restart, Idle, Ownership, Stale, FinalizerFirst, RevokedBefore, Live,
         Cleaning, Provisioning
<1>6. ASSUME NEW k \in Kinds, CreateChild(k)
      PROVE  Ownership'
  BY <1>6, ElsewhereOwnership DEF CreateChild
<1> QED BY <1>1, <1>2, <1>3, <1>4, <1>5, <1>6 DEF Environment

\* Informers, token and namespace controller, and the children's reconcilers.
LEMMA KubernetesOwnership ==
  ASSUME Ownership, Kubernetes \/ ChildReconcilers
  PROVE  Ownership'
<1> USE DEF api, cache, worker, bounds
<1>1. CASE SyncTenant
  BY <1>1 DEF SyncTenant, Ownership, Stale, FinalizerFirst, RevokedBefore, Live
<1>2. CASE ResyncTenant \/ SyncOwned \/ FillToken \/ DrainNamespace \/ RemoveNamespace
  BY <1>2, ElsewhereOwnership
     DEF ResyncTenant, SyncOwned, FillToken, DrainNamespace, RemoveNamespace, TokenData
<1>3. ASSUME NEW k \in Kinds, SyncChild(k) \/ StoreChildFinalizer(k) \/ CleanupChild(k)
      PROVE  Ownership'
  BY <1>3, ElsewhereOwnership DEF SyncChild, StoreChildFinalizer, CleanupChild
<1> QED BY <1>1, <1>2, <1>3 DEF Kubernetes, ChildReconcilers

\* The worker drops its work: nothing is claimed of an idle worker.
LEMMA IdleOwnership ==
  ASSUME Ownership, UNCHANGED <<tenant, cTenant, objs, created>>, mode' = "idle", obj' = Absent
  PROVE  Ownership'
BY TenantIsObject
   DEF Ownership, Stale, FinalizerFirst, RevokedBefore, Live, Cleaning, Provisioning

\* The worker goes on provisioning.
LEMMA ProvisioningOwnership ==
  ASSUME Ownership, UNCHANGED <<tenant, cTenant, obj, created>>,
         mode \in Provisioning, mode' \in Provisioning
  PROVE  Ownership'
BY DEF Ownership, Stale, FinalizerFirst, RevokedBefore, Live, Cleaning, Provisioning

\* The worker goes on cleaning up; what it has revoked stays revoked.
LEMMA CleaningOwnership ==
  ASSUME Ownership, UNCHANGED <<tenant, cTenant, obj, created>>,
         mode \in Cleaning, mode' \in Cleaning, objs' \subseteq objs, RevokedBefore'
  PROVE  Ownership'
BY DEF Ownership, Stale, FinalizerFirst, Live, Cleaning, Provisioning

\* The Tenant reconciler.
LEMMA ReconcilerOwnership ==
  ASSUME TypeOK, WorkerOK, Ownership, TenantReconciler
  PROVE  Ownership'
<1> USE DEF api, cache, worker, bounds
<1>0. WorkerTypes /\ ObjectTypes
  BY Parts
<1>1. CASE TenantSkip
  BY <1>1, ElsewhereOwnership DEF TenantSkip
<1>2. CASE TenantBegin
  <2>1. cTenant \in Tenants /\ IsObject(cTenant) /\ ~cTenant.deleting
    BY <1>0, <1>2, TenantIsObject DEF TenantBegin, Live, ObjectTypes
  <2>2. /\ obj' \in Tenants /\ obj'.id = cTenant.id /\ IsObject(obj')
        /\ mode' = "namespace" /\ UNCHANGED <<cTenant, objs, created>>
    <3>1. obj' \in Tenants /\ obj'.id = cTenant.id
      BY <1>2, <2>1, Zenon DEF TenantBegin, Enter, Tenants
    <3> QED BY <1>2, <3>1, TenantIsObject DEF TenantBegin, Enter
  <2>3. CASE cTenant.fin
    <3>1. tenant' = tenant /\ IsObject(tenant) /\ tenant.fin
      BY <1>2, <2>1, <2>3 DEF TenantBegin, StoreTenantFinalizer, Ownership, Stale, Live
    <3> QED BY <2>1, <2>2, <2>3, <3>1
            DEF Ownership, Stale, FinalizerFirst, RevokedBefore, Live, Cleaning, Provisioning
  <2>4. CASE ~cTenant.fin
    <3>1. /\ tenant = cTenant /\ tenant' \in Tenants /\ tenant'.id = tenant.id
          /\ tenant'.fin /\ tenant'.deleting = tenant.deleting
      BY <1>2, <2>1, <2>4, Zenon DEF TenantBegin, StoreTenantFinalizer, Tenants
    <3>2. IsObject(tenant')
      BY <3>1, TenantIsObject
    <3> QED BY <2>1, <2>2, <2>4, <3>1, <3>2
            DEF Ownership, Stale, FinalizerFirst, RevokedBefore, Live, Cleaning, Provisioning
  <2> QED BY <2>3, <2>4
<1>3. CASE NamespaceReconciler
  <2>1. UNCHANGED <<tenant, cTenant, objs, created>> /\ mode = "namespace"
    BY <1>3 DEF NamespaceReconciler
  <2>2. CASE Enter("provision", obj)
    BY <2>1, <2>2, ProvisioningOwnership DEF Enter, Provisioning
  <2>3. CASE Retry
    BY <2>1, <2>3, IdleOwnership DEF Retry, Idle
  <2> QED BY <1>3, <2>2, <2>3 DEF NamespaceReconciler
<1>4. CASE ReconcileObject
  <2>1. UNCHANGED <<tenant, cTenant, created>> /\ mode = "provision"
    BY <1>4, Zenon DEF ReconcileObject
  <2>2. CASE Enter("status", obj) \/ StepOn
    BY <2>1, <2>2, ProvisioningOwnership DEF Enter, StepOn, Provisioning
  <2>3. CASE UNCHANGED objs /\ Retry
    BY <2>1, <2>3, IdleOwnership DEF Retry, Idle
  <2> QED BY <1>4, <2>2, <2>3, Zenon DEF ReconcileObject
<1>5. CASE reconcileTenantState
  BY <1>5, IdleOwnership DEF reconcileTenantState, Done, Retry, Idle
<1>6. CASE TenantCleanupBegin
  BY <1>6
     DEF TenantCleanupBegin, Enter, Ownership, Stale, FinalizerFirst, RevokedBefore, Live,
         Cleaning, Provisioning
<1>7. CASE DeleteAllOf
  <2>1. mode' \in {"delete", "list"} /\ obj' = obj
    BY <1>7 DEF DeleteAllOf, Enter, StepOn
  <2> QED BY <1>7, <2>1, CleaningOwnership DEF DeleteAllOf, RevokedBefore, Cleaning
<1>8. CASE ListChildren
  <2>1. UNCHANGED <<tenant, cTenant, objs, created>> /\ mode = "list"
    BY <1>8 DEF ListChildren
  <2>2. CASE Enter("revoke", obj) \/ StepOn
    BY <2>1, <2>2, CleaningOwnership DEF Enter, StepOn, RevokedBefore, Cleaning
  <2>3. CASE Retry
    BY <2>1, <2>3, IdleOwnership DEF Retry, Idle
  <2> QED BY <1>8, <2>2, <2>3 DEF ListChildren
<1>9. CASE DeleteObject
  <2>1. at \in 1..3 /\ mode = "revoke" /\ UNCHANGED <<tenant, cTenant, created>>
    BY <1>0, <1>9 DEF DeleteObject, WorkerTypes
  <2>2. mode' \in {"revoke", "unfinal"} /\ obj' = obj /\ objs' \subseteq objs
    BY <1>9, <2>1 DEF DeleteObject, Enter, StepOn
  <2>3. at = 1 => "RBAC" \notin objs'
    BY <1>9 DEF DeleteObject, Deletion
  <2>4. "RBAC" \notin objs'
    BY <2>1, <2>2, <2>3 DEF Ownership, RevokedBefore
  <2> QED BY <2>1, <2>2, <2>4, CleaningOwnership DEF RevokedBefore, Cleaning
<1>10. CASE RemoveTenantFinalizer
  <2>1. UNCHANGED <<cTenant, objs, created>> /\ mode = "unfinal" /\ mode' = "idle" /\ obj' = Absent
    BY <1>10 DEF RemoveTenantFinalizer, Done, Retry, Idle
  <2>2. CASE tenant = obj
    <3>1. tenant' = Gone /\ ~IsObject(tenant') /\ ~IsObject(obj')
      BY <1>10, <2>1, <2>2, TenantIsObject DEF RemoveTenantFinalizer
    <3>2. ~Live(cTenant) /\ "RBAC" \notin objs
      BY <2>1, <2>2 DEF Ownership, Stale, RevokedBefore, Cleaning
    <3> QED BY <2>1, <3>1, <3>2
            DEF Ownership, Stale, FinalizerFirst, RevokedBefore, Live, Cleaning, Provisioning
  <2>3. CASE tenant # obj
    BY <1>10, <2>1, <2>3, IdleOwnership DEF RemoveTenantFinalizer
  <2> QED BY <2>2, <2>3
<1> QED BY <1>1, <1>2, <1>3, <1>4, <1>5, <1>6, <1>7, <1>8, <1>9, <1>10 DEF TenantReconciler

-----------------------------------------------------------------------------
\* The worker, the caches and the finalizer agree on who owns the access, whatever
\* administrators, the CCM, the controllers of Kubernetes and restarts do.
THEOREM TenantInvariant == Spec => []IInv
<1>1. ASSUME IInv, [Next]_vars
      PROVE  IInv'
  <2> USE <1>1 DEF IInv
  <2>1. CASE Environment
    BY <2>1, EnvironmentTypes, EnvironmentOwnership DEF Ownership
  <2>2. CASE Kubernetes \/ ChildReconcilers
    BY <2>2, KubernetesTypes, KubernetesOwnership DEF Ownership
  <2>3. CASE TenantReconciler
    BY <2>3, ReconcilerTypes, ReconcilerOwnership DEF Ownership
  <2>4. CASE UNCHANGED vars
    <3>1. TypeOK' /\ WorkerOK'
      BY <2>4 DEF TypeOK, WorkerOK, vars, api, cache, worker, bounds
    <3>2. Ownership'
      BY <2>4, ElsewhereOwnership DEF Ownership, vars, api, cache, worker, bounds
    <3> QED BY <3>1, <3>2 DEF Ownership
  <2> QED BY <2>1, <2>2, <2>3, <2>4 DEF Next
<1> QED BY <1>1, TenantsInit, PTL DEF Spec

\* The objects, the caches and the worker of the Tenant reconciler have their types.
THEOREM TenantTypes == Spec => []TypeOK
<1>1. IInv => TypeOK
  BY DEF IInv
<1> QED BY <1>1, TenantInvariant, PTL

\* A Tenant that is gone has no access left: cleanup removes the finalizer only after
\* it has deleted the ServiceAccount, the Role and the RoleBinding, and a reconcile
\* that works with an old copy of the Tenant cannot create them again.
THEOREM RevokedAccess == Spec => []AccessRevoked
<1>1. IInv => AccessRevoked
  BY Zenon DEF IInv, FinalizerFirst, AccessRevoked, CCMAccess
<1> QED BY <1>1, TenantInvariant, PTL

-----------------------------------------------------------------------------
(* ServicePorts.  A recorded port keeps its Envoy port.  Between a restart  *)
(* and the next write of the Service, table, Service and record can all     *)
(* differ; the argument is that the Service in the API server differs from  *)
(* the cached one only after the current incarnation has written it, and    *)
(* that what is recorded once more has been compared with the table.        *)

\* The port of a Service in place i, if it is the spec's, is on the Envoy port the
\* table has for it.
FollowsTable(s) ==
  \A i \in DOMAIN spec : s[i].name = spec[i].name =>
    spec[i].up \in DOMAIN table /\ s[i].target = table[spec[i].up]

WorkerCurrent ==
  step # "idle" => held = spec /\ \A i \in DOMAIN spec : spec[i].up \in DOMAIN table

WrittenFollows ==
  /\ service # cService => FollowsTable(service)
  /\ step = "status" => FollowsTable(service)

RecordedFollows == Recorded => FollowsTable(service)

RecordInv ==
  /\ specChanges \in Nat
  /\ specChanges = 0 /\ Ascending(spec) =>
       spec \in MapLoadBalancer /\ WorkerCurrent /\ WrittenFollows /\ RecordedFollows

\* The names and the upstream ports of a LoadBalancer's ports differ.
LEMMA SpecDistinct ==
  ASSUME spec \in MapLoadBalancer
  PROVE  \A i, j \in DOMAIN spec :
           i # j => spec[i].name # spec[j].name /\ spec[i].up # spec[j].up
BY DEF MapLoadBalancer, Distinct

\* The ports CreateServicePorts asks for follow the table, and so does any
\* assignment of node ports to them.
LEMMA DesiredFollows ==
  ASSUME spec \in MapLoadBalancer, Ascending(spec),
         \A i \in DOMAIN spec : spec[i].up \in DOMAIN table
  PROVE  /\ FollowsTable(CreateServicePorts(spec))
         /\ \A s \in Assigned(CreateServicePorts(spec)) : FollowsTable(s)
<1>1. PICK f : f = [i \in DOMAIN spec |->
                      [name |-> spec[i].name, port |-> spec[i].port,
                       target |-> table[spec[i].up], nodePort |-> KeptNodePort(spec[i])]]
  BY Zenon
<1>2. DOMAIN f = DOMAIN spec
  BY <1>1, Zenon
<1>3. ASSUME NEW i \in DOMAIN spec
      PROVE  /\ f[i] = [name |-> spec[i].name, port |-> spec[i].port,
                        target |-> table[spec[i].up], nodePort |-> KeptNodePort(spec[i])]
             /\ f[i].name = spec[i].name /\ f[i].target = table[spec[i].up]
  BY <1>1, Zenon
<1>4. PICK t : t = ByName(f)
  OBVIOUS
<1>5. CreateServicePorts(spec) = t
  BY <1>1, <1>4, Zenon DEF CreateServicePorts
<1>6. Permuted(f, f) /\ Ascending(f)
  BY <1>2, <1>3 DEF Permuted, Ascending
<1>7. t \in [DOMAIN spec -> {f[i] : i \in DOMAIN f}]
  <2>1. f \in [DOMAIN f -> {f[i] : i \in DOMAIN f}]
    BY <1>1, <1>2, Zenon
  <2> QED BY <1>2, <1>4, <1>6, <2>1, Zenon DEF ByName
<1>8. ASSUME NEW i \in DOMAIN spec
      PROVE  \E j \in DOMAIN spec : t[i] = f[j]
  BY <1>2, <1>7, Zenon
<1>9. FollowsTable(t)
  <2> SUFFICES ASSUME NEW i \in DOMAIN spec, t[i].name = spec[i].name
               PROVE  t[i].target = table[spec[i].up]
    BY Zenon DEF FollowsTable
  <2>1. PICK j \in DOMAIN spec : t[i] = f[j]
    BY <1>8, Zenon
  <2>2. t[i].name = spec[j].name /\ t[i].target = table[spec[j].up]
    BY <1>3, <2>1, Zenon
  <2>3. i = j
    BY <2>2, SpecDistinct, Zenon
  <2> QED BY <2>2, <2>3, Zenon
<1>10. ASSUME NEW s \in Assigned(t) PROVE FollowsTable(s)
  <2>1. DOMAIN t = DOMAIN spec
    BY <1>7, Zenon
  <2>2. PICK n : s = [i \in DOMAIN t |-> [t[i] EXCEPT !.nodePort = n[i]]]
    BY <1>10, Zenon DEF Assigned
  <2>3. ASSUME NEW i \in DOMAIN spec
        PROVE  s[i].name = t[i].name /\ s[i].target = t[i].target
    <3>1. PICK j \in DOMAIN spec : t[i] = f[j]
      BY <1>8, Zenon
    <3>2. s[i] = [t[i] EXCEPT !.nodePort = n[i]]
      BY <2>1, <2>2, Zenon
    <3>3. t[i] = [name |-> spec[j].name, port |-> spec[j].port,
                  target |-> table[spec[j].up], nodePort |-> KeptNodePort(spec[j])]
      BY <1>3, <3>1, Zenon
    <3> QED BY <3>2, <3>3, Zenon
  <2> QED BY <1>9, <2>3, Zenon DEF FollowsTable
<1> QED BY <1>5, <1>9, <1>10, Zenon

\* Steps that leave table, spec and Service alone keep what follows the table.
LEMMA FollowsKept ==
  ASSUME UNCHANGED <<spec, table>>, NEW s
  PROVE  FollowsTable(s)' <=> FollowsTable(s)
BY DEF FollowsTable

\* AllocatePorts keeps the port of every key of the spec that the table has.
LEMMA AllocationKeeps ==
  ASSUME AllocateForSpec, NEW i \in DOMAIN spec
  PROVE  /\ spec[i].up \in DOMAIN table'
         /\ spec[i].up \in DOMAIN table => table'[spec[i].up] = table[spec[i].up]
<1>1. table' \in Allocations(spec)
  BY DEF AllocateForSpec
<1>2. spec[i].up \in {spec[j].up : j \in DOMAIN spec}
  OBVIOUS
<1> QED BY <1>1, <1>2 DEF Allocations

\* LoadState restores the port of every recorded port of the spec.
LEMMA LoadRestores ==
  ASSUME spec \in MapLoadBalancer, Recorded, NEW i \in DOMAIN spec
  PROVE  spec[i].up \in DOMAIN LoadPorts /\ LoadPorts[spec[i].up] = service[i].target
<1> DEFINE recorded(p) == {j \in DOMAIN record : record[j].up = p.up /\ record[j].name = p.name}
           restored == {j \in DOMAIN spec : recorded(spec[j]) # {}}
           k == spec[i].up
<1>1. /\ DOMAIN record = DOMAIN spec
      /\ \A j \in DOMAIN spec : /\ record[j].up = spec[j].up /\ record[j].name = spec[j].name
                                /\ record[j].target = service[j].target
  BY DEF Recorded
<1>2. recorded(spec[i]) = {i}
  BY <1>1, SpecDistinct
<1>3. i \in restored
  BY <1>2
<1>4. (CHOOSE j \in restored : spec[j].up = k) = i
  BY <1>3, SpecDistinct
<1>5. (CHOOSE a \in recorded(spec[i]) : \A b \in recorded(spec[i]) : a <= b) \in {i}
  <2>1. i \in Nat
    BY DEF MapLoadBalancer, PortLists
  <2>2. \E a \in recorded(spec[i]) : \A b \in recorded(spec[i]) : a <= b
    BY <1>2, <2>1
  <2> HIDE DEF recorded
  <2> QED BY <1>2, <2>2
<1>6. k \in {spec[j].up : j \in restored}
  BY <1>3
<1>7. LoadPorts[k] = record[CHOOSE a \in recorded(spec[i]) : \A b \in recorded(spec[i]) : a <= b].target
  <2> DEFINE from(p) == record[CHOOSE a \in recorded(p) : \A b \in recorded(p) : a <= b].target
             source(x) == spec[CHOOSE j \in restored : spec[j].up = x]
  <2>1. LoadPorts = [x \in {spec[j].up : j \in restored} |-> from(source(x))]
    BY Zenon DEF LoadPorts
  <2>2. source(k) = spec[i]
    BY <1>4, Zenon
  <2> HIDE DEF from, source, restored
  <2>3. LoadPorts[k] = from(spec[i])
    BY <1>6, <2>1, <2>2
  <2> QED BY <2>3 DEF from
<1>8. k \in DOMAIN LoadPorts
  BY <1>6, Zenon DEF LoadPorts
<1> QED BY <1>1, <1>5, <1>7, <1>8, Zenon

\* What RecordedPortsStable says of one step.
RecordedPortsKept ==
  specChanges = 0 /\ Ascending(spec) /\ Recorded
    => \A i \in DOMAIN spec : /\ spec[i].up \in DOMAIN table'
                              /\ table'[spec[i].up] = service[i].target

\* Where spec, table and Service stay, a recorded LoadBalancer keeps its ports.
LEMMA RecordedFollowsKept ==
  ASSUME specChanges = 0, Ascending(spec), RecordInv, Recorded,
         \A i \in DOMAIN spec : spec[i].up \in DOMAIN table =>
           spec[i].up \in DOMAIN table' /\ table'[spec[i].up] = table[spec[i].up]
  PROVE  RecordedPortsKept
<1>1. FollowsTable(service)
  BY DEF RecordInv, RecordedFollows
<1>2. \A i \in DOMAIN spec : service[i].name = spec[i].name
  BY DEF Recorded
<1> QED BY <1>1, <1>2 DEF FollowsTable, RecordedPortsKept

\* Steps of the tenant and the informers write neither Service nor table.
LEMMA OthersKeepRecord ==
  ASSUME RecordInv, specChanges = 0, Ascending(spec),
         CreatePorts \/ SyncPorts \/ ResyncPorts \/ UNCHANGED portVars
  PROVE  RecordInv' /\ RecordedPortsKept
<1>1. /\ UNCHANGED <<spec, service, record, table, step, held, specChanges>>
      /\ cService' \in {cService, service}
  BY DEF CreatePorts, SyncPorts, ResyncPorts, portVars
<1>2. FollowsTable(service)' <=> FollowsTable(service)
  BY <1>1, FollowsKept DEF FollowsTable
<1>3. WorkerCurrent' /\ RecordedFollows'
  BY <1>1, <1>2 DEF RecordInv, WorkerCurrent, RecordedFollows, Recorded
<1>4. WrittenFollows'
  BY <1>1, <1>2 DEF RecordInv, WrittenFollows
<1>5. RecordedPortsKept
  BY <1>1, RecordedFollowsKept DEF RecordedPortsKept
<1> QED BY <1>1, <1>3, <1>4, <1>5 DEF RecordInv

\* The worker and a restart.
LEMMA ManagerKeepsRecord ==
  ASSUME RecordInv, specChanges = 0, Ascending(spec), PortsWorker \/ RestartManager
  PROVE  RecordInv' /\ RecordedPortsKept
<1>0. spec \in MapLoadBalancer /\ WorkerCurrent /\ WrittenFollows /\ RecordedFollows
  BY DEF RecordInv
<1>1. UNCHANGED <<spec, specChanges>>
  BY DEF PortsWorker, AllocateForSpec, ReconcileServicePorts, RecordPorts, RestartManager
<1> SUFFICES WorkerCurrent' /\ WrittenFollows' /\ RecordedFollows' /\ RecordedPortsKept
  BY <1>0, <1>1 DEF RecordInv
<1>2. CASE AllocateForSpec
  <2>1. /\ UNCHANGED <<service, record, cService>>
        /\ step' = "service" /\ held' = spec
    BY <1>2 DEF AllocateForSpec
  <2>2. FollowsTable(service) => FollowsTable(service)'
    BY <1>1, <1>2, <2>1, AllocationKeeps DEF FollowsTable
  <2>3. WorkerCurrent'
    BY <1>1, <1>2, <2>1, AllocationKeeps, Zenon DEF WorkerCurrent
  <2>4. WrittenFollows' /\ RecordedFollows'
    BY <1>0, <1>1, <2>1, <2>2, Zenon DEF WrittenFollows, RecordedFollows, Recorded
  <2>5. RecordedPortsKept
    BY <1>2, AllocationKeeps, RecordedFollowsKept DEF RecordedPortsKept
  <2> QED BY <2>3, <2>4, <2>5
<1>3. CASE ReconcileServicePorts
  <2>1. /\ UNCHANGED <<record, cService, table>> /\ step = "service"
        /\ held = spec /\ \A i \in DOMAIN spec : spec[i].up \in DOMAIN table
    BY <1>0, <1>3 DEF ReconcileServicePorts, WorkerCurrent
  <2>2. RecordedPortsKept
    BY <2>1, RecordedFollowsKept DEF RecordedPortsKept
  <2>3. \/ service' = service /\ step' = "idle"
        \/ service' = service /\ step' = "status" /\ UNCHANGED held /\ cService = CreateServicePorts(spec)
        \/ service' \in Assigned(CreateServicePorts(spec)) /\ step' = "status" /\ UNCHANGED held
    BY <1>3, <2>1 DEF ReconcileServicePorts, Again
  <2>4. FollowsTable(service) => FollowsTable(service')
    BY <1>0, <2>1, <2>3, DesiredFollows
  <2>5. step' = "status" \/ service' # cService => FollowsTable(service')
    BY <1>0, <2>1, <2>3, DesiredFollows DEF WrittenFollows
  <2>6. FollowsTable(service)' <=> FollowsTable(service')
    BY <1>1, <2>1 DEF FollowsTable
  <2>7. WorkerCurrent'
    BY <1>1, <2>1, <2>3 DEF WorkerCurrent
  <2>8. WrittenFollows'
    BY <2>1, <2>5, <2>6 DEF WrittenFollows
  <2>9. RecordedFollows'
    <3>1. CASE service' = service
      BY <1>0, <1>1, <2>1, <2>4, <2>6, <3>1, Zenon DEF RecordedFollows, Recorded
    <3>2. CASE service' # service
      BY <2>3, <2>5, <2>6, <3>2, <1>0, <2>1, DesiredFollows DEF RecordedFollows
    <3> QED BY <3>1, <3>2, Zenon
  <2> QED BY <2>2, <2>7, <2>8, <2>9, Zenon
<1>4. CASE RecordPorts
  <2>1. /\ UNCHANGED <<service, cService, table>> /\ step' = "idle" /\ step = "status"
    BY <1>4 DEF RecordPorts, Again
  <2>2. FollowsTable(service) /\ FollowsTable(service)'
    BY <1>0, <1>1, <2>1 DEF WrittenFollows, FollowsTable
  <2>3. RecordedPortsKept
    BY <2>1, RecordedFollowsKept DEF RecordedPortsKept
  <2> QED BY <2>1, <2>2, <2>3 DEF WorkerCurrent, WrittenFollows, RecordedFollows
<1>5. CASE RestartManager
  <2>1. /\ UNCHANGED <<service, record>> /\ table' = LoadPorts /\ cService' = service /\ step' = "idle"
    BY <1>5 DEF RestartManager
  <2>2. RecordedPortsKept
    BY <1>0, <2>1, LoadRestores DEF RecordedPortsKept
  <2>3. Recorded => FollowsTable(service)'
    BY <1>1, <2>1, <2>2 DEF RecordedPortsKept, FollowsTable
  <2>4. Recorded' <=> Recorded
    BY <1>1, <2>1 DEF Recorded
  <2> QED BY <2>1, <2>2, <2>3, <2>4 DEF WorkerCurrent, WrittenFollows, RecordedFollows
<1> QED BY <1>2, <1>3, <1>4, <1>5 DEF PortsWorker

\* Once its Service is recorded a LoadBalancer keeps the Envoy port of each of its
\* ports, also across restarts, for any set of ports listed in the order of their
\* names and any number of restarts.
THEOREM RecordedPortsHold == PortsSpec => RecordedPortsStable
<1>1. PortsInit => RecordInv
  BY DEF PortsInit, RecordInv, WorkerCurrent, WrittenFollows, RecordedFollows, Recorded
<1>2. RecordInv /\ [PortsNext]_portVars => RecordInv' /\ [RecordedPortsKept]_portVars
  <2> SUFFICES ASSUME RecordInv, [PortsNext]_portVars PROVE RecordInv' /\ RecordedPortsKept
    OBVIOUS
  <2>1. ASSUME NEW s \in MapLoadBalancer, ChangePorts(s) PROVE RecordInv' /\ RecordedPortsKept
    <3>1. specChanges' \in Nat /\ specChanges' # 0 /\ table' = table
      BY <2>1 DEF ChangePorts, RecordInv
    <3>2. RecordedPortsKept
      BY <3>1, RecordedFollowsKept, Zenon DEF RecordedPortsKept
    <3> QED BY <3>1, <3>2 DEF RecordInv
  <2>2. CASE ~(specChanges = 0 /\ Ascending(spec)) /\ ~\E s \in MapLoadBalancer : ChangePorts(s)
    <3>1. UNCHANGED <<spec, specChanges>>
      BY <2>2 DEF PortsNext, CreatePorts, SyncPorts, ResyncPorts, PortsWorker, AllocateForSpec,
                  ReconcileServicePorts, RecordPorts, RestartManager, portVars
    <3> QED BY <2>2, <3>1 DEF RecordInv, RecordedPortsKept, Ascending
  <2>3. CASE specChanges = 0 /\ Ascending(spec) /\ ~\E s \in MapLoadBalancer : ChangePorts(s)
    BY <2>3, OthersKeepRecord, ManagerKeepsRecord DEF PortsNext
  <2> QED BY <2>1, <2>2, <2>3
<1> QED BY <1>1, <1>2, PTL DEF PortsSpec, RecordedPortsStable, RecordedPortsKept
=============================================================================
